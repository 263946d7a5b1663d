--------------------------- MODULE FederationTrust --------------------------
(***************************************************************************)
(* What the federation handshake promises, without its tables, requests    *)
(* and clean-up: a backend process issues a token only for a claim (node,  *)
(* tenant, fingerprint) that was asked of this very process, dated when it *)
(* is issued, and admits a token to its sessions only while it is one of   *)
(* its own.  A new process starts with nothing asked and nobody admitted.  *)
(***************************************************************************)
EXTENDS Naturals

CONSTANTS Node, Tenant, Fingerprint

VARIABLES
    epoch,     \* which process instance is running
    time,      \* wall-clock time
    asked,     \* the claims put to this process
    issued,    \* the tokens issued by all processes
    admitted   \* the tokens this process treats as sessions

trustVars == <<epoch, time, asked, issued, admitted>>

Claims == [node: Node, tenant: Tenant, fp: Fingerprint]

TokenFor(c) ==
    [key |-> epoch, node |-> c.node, tenant |-> c.tenant, fp |-> c.fp, iat |-> time]

Init ==
    /\ epoch = 0
    /\ time = 0
    /\ asked = {}
    /\ issued = {}
    /\ admitted = {}

Ask(c) ==
    /\ asked' = asked \cup {c}
    /\ UNCHANGED <<epoch, time, issued, admitted>>

Issue(c) ==
    /\ c \in asked
    /\ issued' = issued \cup {TokenFor(c)}
    /\ admitted' = admitted \cup {TokenFor(c)}
    /\ UNCHANGED <<epoch, time, asked>>

Admit(t) ==
    /\ t \in issued
    /\ t.key = epoch
    /\ admitted' = admitted \cup {t}
    /\ UNCHANGED <<epoch, time, asked, issued>>

Expel ==
    /\ admitted' \in SUBSET admitted
    /\ UNCHANGED <<epoch, time, asked, issued>>

Pass ==
    /\ time' = time + 1
    /\ UNCHANGED <<epoch, asked, issued, admitted>>

Renew ==
    /\ epoch' = epoch + 1
    /\ asked' = {}
    /\ admitted' = {}
    /\ UNCHANGED <<time, issued>>

Next ==
    \/ \E c \in Claims : Ask(c) \/ Issue(c)
    \/ \E t \in issued : Admit(t)
    \/ Expel
    \/ Pass
    \/ Renew

Spec == Init /\ [][Next]_trustVars
=============================================================================
