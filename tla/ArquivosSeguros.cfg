SPECIFICATION Spec
CONSTANTS
    p1 = p1
    i1 = i1  i2 = i2  i3 = i3
    d1 = d1  d2 = d2  r1 = r1
    t1 = t1  t2 = t2
    Loop = Loop  Poda = Poda  Nada = Nada
    Paths = {p1}
    Inodes = {i1, i2, i3}
    Donos = {d1, d2}
    Leitores = {r1}
    Publicadores = {t1, t2}
SYMMETRY Simetria
INVARIANTS DeferidaAcontece
PROPERTIES NaoApagaEmUso
