---------------------------- MODULE SampleStore ----------------------------
(***************************************************************************)
(* What writing tracks promises a client of the sample API, with no tables *)
(* and no chunks: each track is a log of samples, of which a leading part  *)
(* is stored in the file.  A sample once written changes only in its       *)
(* rendering offset, what is stored stays stored, and a closed file stores *)
(* every sample that has bytes.  Module TrackRefinement shows that Track   *)
(* implements this.                                                        *)
(***************************************************************************)
EXTENDS Integers, Sequences, SequencesExt

CONSTANTS StoreTracks, Samples, RenderingOffsetValues

VARIABLES
    log,      \* the samples of each track, in writing order
    stored,   \* the ids of those a reader of the file gets back
    closed

storeVars == << log, stored, closed >>

Ids(t) == 1..Len(log[t])

StoreInit ==
    /\ log = [t \in StoreTracks |-> << >>]
    /\ stored = [t \in StoreTracks |-> {}]
    /\ closed = FALSE

\* Writing a sample may store it at once, or those before it, or nothing.
Write(t) ==
    LET s == Last(log'[t])
    IN  /\ ~closed
        /\ Len(log'[t]) = Len(log[t]) + 1 /\ s \in Samples
        /\ log' = [log EXCEPT ![t] = Append(@, s)]
        /\ stored'[t] \in {stored[t], Ids(t), Ids(t) \cup {Len(log[t]) + 1}}
        /\ stored' = [stored EXCEPT ![t] = stored'[t]]
        /\ UNCHANGED closed

Store(t) ==
    /\ ~closed
    /\ stored' = [stored EXCEPT ![t] = Ids(t)]
    /\ UNCHANGED << log, closed >>

SetRenderingOffset(t, k) ==
    LET offset == log'[t][k].offset
    IN  /\ ~closed
        /\ Len(log'[t]) = Len(log[t]) /\ offset \in RenderingOffsetValues
        /\ log' = [log EXCEPT ![t][k].offset = offset]
        /\ UNCHANGED << stored, closed >>

Close ==
    /\ ~closed
    /\ \A t \in StoreTracks : \A k \in Ids(t) : log[t][k].size > 0 => k \in stored[t]
    /\ closed' = TRUE
    /\ UNCHANGED << log, stored >>

StoreNext ==
    \/ \E t \in StoreTracks : Write(t) \/ Store(t)
    \/ \E t \in StoreTracks : \E k \in Ids(t) : SetRenderingOffset(t, k)
    \/ Close

StoreSpec == StoreInit /\ [][StoreNext]_storeVars
=============================================================================
