--------------------------- MODULE PipelineOutage ---------------------------
(***************************************************************************)
(* Pipeline with a history of the PUBs issued during an outage, and what    *)
(* the documentation promises for them.                                     *)
(***************************************************************************)
EXTENDS Pipeline

VARIABLE
    outage          \* PUBs issued while the client has no stream

\* The PUBs that a step issues.
Issued == {n \in (DOMAIN log') \ (DOMAIN log) : log'[n] = "pub"}

OutageSpec ==
    /\ Init /\ outage = {}
    /\ [][/\ Next
          /\ outage' = IF stream = "none" THEN outage \cup Issued ELSE outage
         ]_<<vars, outage>>

\* README_old.md: when a client is disconnected "it will try to reconnect
\* and on reconnect, the client sends all buffered messages" (flushPending,
\* sendCommand, closeStream).
BufferedPublishesAreKept ==
    [][~closed' => (outage \cap outbound) \subseteq (outbound' \cup wire')
      ]_<<vars, outage>>
=============================================================================
