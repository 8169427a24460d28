---------------------------- MODULE LeaseContract ----------------------------
(***************************************************************************)
(* What a DHCP client and its server promise each other.  The server has   *)
(* one binding per interface and honours what it has granted; the client   *)
(* holds beliefs, each an address and the time it may be used until, in as *)
(* many places as it likes, and never holds one the server does not back.  *)
(***************************************************************************)
EXTENDS Naturals

CONSTANT Iface

VARIABLES
    now,          \* the time
    bound,        \* the server's binding of each interface
    held          \* the beliefs the client holds about each interface

lcVars == <<now, bound, held>>

Backs(s, b) == s.ip = b.ip /\ b.until <= s.until

LCInit == held = [i \in Iface |-> {}]

Pass == now' > now /\ UNCHANGED <<bound, held>>

\* An exchange about i.  The server may bind i anew, or not; what it granted and has
\* not ended it still backs.  The client may come to hold what is backed now.
Exchange(i) ==
    /\ \A b \in held[i] : now <= b.until => Backs(bound'[i], b)
    /\ \A b \in held'[i] \ held[i] : Backs(bound'[i], b)
    /\ \A j \in Iface \ {i} : bound'[j] = bound[j] /\ held'[j] = held[j]
    /\ UNCHANGED now

\* The client lets go of beliefs: a lease is replaced, a file lost, a process dies.
Forget ==
    /\ \A i \in Iface : held'[i] \subseteq held[i]
    /\ UNCHANGED <<now, bound>>

LCNext == Pass \/ (\E i \in Iface : Exchange(i)) \/ Forget

LCSpec == LCInit /\ [][LCNext]_lcVars
=============================================================================
