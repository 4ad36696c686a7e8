------------------------------ MODULE MCHints ------------------------------
(***************************************************************************)
(* Instance of RtpHintProperties for the run Hints.                        *)
(***************************************************************************)
EXTENDS RtpHintProperties

TheImmediates == {<< << "a" >> >>}
TheReferences == {[sample |-> 1, offset |-> 1, length |-> 1],
                  [sample |-> 2, offset |-> 0, length |-> 2]}
TheConfig == << << "config", 1 >>, << "config", 2 >> >>
=============================================================================
