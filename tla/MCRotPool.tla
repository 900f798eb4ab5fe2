----------------------------- MODULE MCRotPool -----------------------------
EXTENDS RotPool, SequencesExt

CONSTANTS w1, w2

MCWorkers == {w1, w2}

\* Every order of up to three calls after run(4): some fit and some do not.
MCCalls ==
  {[op |-> "transfer", n |-> n, to |-> w1] : n \in {1, 3}} \cup
  {[op |-> "reserve", n |-> n, to |-> w] : n \in {1, 2}, w \in MCWorkers}

MCPrograms ==
  {<<[op |-> "run", n |-> 4, to |-> w1]>> \o calls :
     calls \in {c \in SeqOf(MCCalls, 3) :
       \A i, j \in DOMAIN c :
         c[i].op = "reserve" /\ c[j].op = "reserve" /\ c[i].to = c[j].to => i = j}}
=============================================================================
