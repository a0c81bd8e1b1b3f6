-------------------------- MODULE MCActionService --------------------------
(* Small instances of the chatbot's actions: a plan whose automatic step    *)
(* leads to one that needs a card, two clicks on it, and a crash.           *)
EXTENDS ActionService, TLC

CONSTANTS k1, k2, m

MCDois == [a |-> <<"auto", "staff">>]
MCMesmo == [x \in Planos |-> m]

\* Clicks are interchangeable.
Simetria == Permutations(Cliques)
=============================================================================
