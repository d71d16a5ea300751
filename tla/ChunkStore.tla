----------------------------- MODULE ChunkStore -----------------------------
(***************************************************************************)
(* What a storage node promises of its chunks: one call changes them at a  *)
(* time, at once and as a whole.  A call that answers nil has done what it *)
(* was asked, one that answers an error has done nothing, and one that is  *)
(* cut off has done one of the two.                                        *)
(***************************************************************************)
CONSTANTS Chunks,   \* chunk ids
          Data,     \* what can be written
          NoData,   \* the chunk does not exist
          NoChunk   \* no chunk id

VARIABLES
  chunks,  \* the data of each chunk
  call     \* the call that runs: what it is to do, and whether it has done it

NoCall == [chunk |-> NoChunk, data |-> NoData, done |-> FALSE]

Init ==
  /\ chunks = [k \in Chunks |-> NoData]
  /\ call = NoCall

\* WriteChunk(k, d), or DeleteChunk(k) when d is no data.
Called(k, d) ==
  /\ call = NoCall
  /\ call' = [chunk |-> k, data |-> d, done |-> FALSE]
  /\ UNCHANGED chunks

Done ==
  /\ call # NoCall /\ ~call.done
  /\ chunks' = [chunks EXCEPT ![call.chunk] = call.data]
  /\ call' = [call EXCEPT !.done = TRUE]

AnswersNil ==
  /\ call.done
  /\ call' = NoCall
  /\ UNCHANGED chunks

AnswersError ==
  /\ call # NoCall /\ ~call.done
  /\ call' = NoCall
  /\ UNCHANGED chunks

CutOff == call' = NoCall /\ UNCHANGED chunks

Next ==
  \/ \E k \in Chunks, d \in Data \cup {NoData} : Called(k, d)
  \/ Done \/ AnswersNil \/ AnswersError \/ CutOff

Spec == Init /\ [][Next]_<<chunks, call>>
=============================================================================
