----------------------------- MODULE ThreadConfig -----------------------------
(***************************************************************************)
(* What the options of a theory promise: every thread has a value for each *)
(* target. Options of the command line are collected and applied together, *)
(* where those for a thread take precedence over those for all threads;    *)
(* calls to configure take effect one after the other.                     *)
(***************************************************************************)
CONSTANTS Theories, Targets, OptionValues, Threads, All, Initial

VARIABLES
    given,      \* the options collected: target and thread (or All) to value
    effective   \* the values of targets for threads

Precedence(options, t, i, value) ==
    IF <<t, i>> \in DOMAIN options THEN options[<<t, i>>]
    ELSE IF <<t, All>> \in DOMAIN options THEN options[<<t, All>>]
    ELSE value

Init ==
    /\ given = [h \in Theories |-> <<>>]
    /\ effective = [h \in Theories |-> [t \in Targets |-> [i \in Threads |-> Initial[t]]]]

Give(h, t, who, v) ==
    /\ <<t, who>> \notin DOMAIN given[h]
    /\ given' = [given EXCEPT ![h] = [o \in DOMAIN @ \union {<<t, who>>} |->
                                        IF o = <<t, who>> THEN v ELSE @[o]]]
    /\ UNCHANGED effective

Apply(h) ==
    /\ effective' = [effective EXCEPT ![h] =
                       [t \in Targets |-> [i \in Threads |-> Precedence(given[h], t, i, @[t][i])]]]
    /\ given' = [given EXCEPT ![h] = <<>>]

Set(h, t, who, v) ==
    /\ effective' = [effective EXCEPT ![h][t] =
                       [i \in Threads |-> IF who \in {i, All} THEN v ELSE @[i]]]
    /\ UNCHANGED given

Next == \E h \in Theories :
    \/ Apply(h)
    \/ \E t \in Targets, who \in Threads \union {All} : \E v \in OptionValues[t] :
         Give(h, t, who, v) \/ Set(h, t, who, v)

Spec == Init /\ [][Next]_<<given, effective>>
=============================================================================
