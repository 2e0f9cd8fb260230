------------------------------ MODULE Delivery ------------------------------
(***************************************************************************)
(* What the client promises about the commands it accepts, without any      *)
(* connection: commands are numbered as they are issued, the server         *)
(* processes each PUB at most once, and a flush is called back at most once *)
(* and in the order of the flushes.  A flush is a barrier for the PUBs of   *)
(* its own epoch, an epoch being the life of one connection; nothing is     *)
(* promised to a flush that outlives the epoch it was issued in, and        *)
(* nothing says that a command is ever processed.                           *)
(***************************************************************************)
EXTENDS Integers, Sequences

VARIABLES
    issued,         \* the kinds of the commands accepted, in order
    epoch,          \* Len(issued) when the last epoch began
    delivered,      \* PUBs the server has processed
    called          \* flushes whose callback has been called

vars == <<issued, epoch, delivered, called>>

Init == issued = <<>> /\ epoch = 0 /\ delivered = {} /\ called = {}

\* publish(), flush(), a heartbeat or the answer to the server's PING.
Issue ==
    /\ \E kind \in {"pub", "flush", "heartbeat", "pong"} :
           issued' = Append(issued, kind)
    /\ UNCHANGED <<epoch, delivered, called>>

NewEpoch ==
    /\ epoch' = Len(issued)
    /\ UNCHANGED <<issued, delivered, called>>

\* The server processes a PUB, once.
Deliver ==
    /\ \E n \in 1..Len(issued) :
        /\ issued[n] = "pub" /\ n \notin delivered
        /\ delivered' = delivered \cup {n}
    /\ UNCHANGED <<issued, epoch, called>>

\* What the callback of flush f may rely on when it is called.
Barrier(f) ==
    f > epoch => \A n \in epoch+1..f-1 : issued[n] = "pub" => n \in delivered

Call ==
    /\ \E f \in 1..Len(issued) :
        /\ issued[f] = "flush"
        /\ \A g \in called : g < f
        /\ Barrier(f)
        /\ called' = called \cup {f}
    /\ UNCHANGED <<issued, epoch, delivered>>

Next == Issue \/ NewEpoch \/ Deliver \/ Call

Spec == Init /\ [][Next]_vars
=============================================================================
