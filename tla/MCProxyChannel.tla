---------------------------- MODULE MCProxyChannel ----------------------------
(***************************************************************************)
(* Model values for ProxyChannel, and the bound of its exploration: the    *)
(* full product of browsers, deliveries and faults is out of TLC's reach,  *)
(* so four parts of it are explored that share their beginnings.          *)
(***************************************************************************)
EXTENDS ProxyChannel, TLC

CONSTANTS s1, s2

MCSockets == {s1, s2}

\* Sockets are open until the proxy sees them close, and no receipt or retry is counted.
Quick == \A s \in Sockets : /\ sock'[s] \notin {"gone", "closing"}
                            /\ \A t \in Turns : ~Receipt(s, t) /\ ~Retry(s, t)

\* One command and one run, without a fault.
Short == faults' = 0 /\ commands' < 2 /\ Len(log') < 4

\* One reconnect, of a browser that may join and confirm what it is sent, while another
\* browser's run goes on.
Joining == /\ sock'[s1] = "open"
           /\ sock'[s2] \in {"unused", "open"}
           /\ faults' = 0 /\ Len(log') < 3
           /\ req'[2].stage = "none" /\ req'[1].socket # s1
           /\ \A t \in Turns : ~Receipt(s1, t) /\ \A s \in Sockets : ~Retry(s, t)

\* One browser, with two commands, or a command and a fault, or both with one run; one
\* browser with its receipts, retries and disappearance; two browsers, with two events;
\* two browsers, of which one joins.
Focus == \/ sock'[s2] = "unused" /\ Quick /\ (commands' + faults' <= 2 \/ Len(log') < 3)
         \/ sock'[s2] = "unused" /\ Short
         \/ sock'[s1] # "unused" /\ Quick /\ Short /\ Len(log') < 3
         \/ Joining

FocusedSpec == Init /\ [][Next /\ Focus]_vars
FocusedFair == FocusedSpec /\ Fairness
=============================================================================
