----------------------------- MODULE BusStream -----------------------------
(***************************************************************************)
(* What a capture ring promises its reader: the words of one arming arrive  *)
(* one by one, in the order of the bus, none lost, none twice, none of an   *)
(* earlier arming; and while the stream is open every word arrives.  The    *)
(* module CaptureRing implements it as long as Core 1 keeps its cadence.    *)
(***************************************************************************)
EXTENDS Naturals, Sequences

VARIABLES
    era,    \* which arming this is
    open,   \* the reader is told to read
    sent,   \* words of this arming the bus has put in
    got     \* words of this arming the reader has taken out

streamVars == <<era, open, sent, got>>

StreamInit == era = 0 /\ open = FALSE /\ sent = 0 /\ got = << >>

Publish ==
    /\ sent' = sent + 1
    /\ UNCHANGED <<era, open, got>>

(* The reader may still be taking words out after it was told to stop.      *)
Deliver ==
    /\ Len(got) < sent
    /\ got' = Append(got, <<era, Len(got)>>)
    /\ UNCHANGED <<era, open, sent>>

Rearm ==
    /\ era' = era + 1
    /\ open' \in BOOLEAN
    /\ sent' = 0
    /\ got' = << >>

Close ==
    /\ open' = FALSE
    /\ UNCHANGED <<era, sent, got>>

StreamNext == Publish \/ Deliver \/ Rearm \/ Close

StreamSafety == StreamInit /\ [][StreamNext]_streamVars
StreamSpec   == StreamSafety /\ WF_streamVars(open /\ Deliver)
=============================================================================
