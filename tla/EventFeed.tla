------------------------------ MODULE EventFeed -------------------------------
(***************************************************************************)
(* What the page may rely on of the stream of one generation: it is sent   *)
(* events, one after the other, up to a last one; it gets them in order    *)
(* and once each; and the feed is complete only when it has got them all.  *)
(***************************************************************************)
EXTENDS Naturals, Sequences

CONSTANTS Events, LastEvents

VARIABLES
    sent,
    got,
    feed  \* "open", "complete" or "broken"

vars == <<sent, got, feed>>

Over(s) == s # <<>> /\ s[Len(s)] \in LastEvents

Init == sent = <<>> /\ got = <<>> /\ feed = "open"

\* Something happens, whether or not anybody is still told.
Emit(e) ==
    /\ ~Over(sent)
    /\ sent' = Append(sent, e)
    /\ UNCHANGED <<got, feed>>

Receive ==
    /\ feed = "open" /\ Len(got) < Len(sent)
    /\ got' = Append(got, sent[Len(got) + 1])
    /\ UNCHANGED <<sent, feed>>

\* The feed ends by itself.
Complete ==
    /\ feed = "open" /\ got = sent /\ Over(sent)
    /\ feed' = "complete"
    /\ UNCHANGED <<sent, got>>

\* It ends in any other way, and says so.
Break ==
    /\ feed = "open"
    /\ feed' = "broken"
    /\ UNCHANGED <<sent, got>>

Next == (\E e \in Events : Emit(e)) \/ Receive \/ Complete \/ Break

Spec == Init /\ [][Next]_vars
=============================================================================
