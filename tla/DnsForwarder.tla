----------------------------- MODULE DnsForwarder -----------------------------
(***************************************************************************)
(* The local forwarder that takes over the remote resolver of sing-box in  *)
(* compatible mode: each query is tried upstream through a node (through   *)
(* the kernel, that is), then directly; after Threshold failures in a row  *)
(* the upstream is left alone for a while.  The configuration of the       *)
(* kernel names the forwarder's port, so that forwarder, configuration and *)
(* kernel have to change together (engine.go:91-330).                      *)
(***************************************************************************)
EXTENDS Naturals, FiniteSets

CONSTANTS
  Clients,     \* UDP queries or TCP connections
  Keys,        \* upstreams with the node they go through
  Ports,       \* ports a forwarder may get
  Threshold,   \* dnsFallbackFailThreshold
  MaxInflight  \* dnsFallbackMaxInflight

NoKey == "none"
NoPort == 0

ForwarderAssumption ==
  /\ NoKey \notin Keys /\ NoPort \notin Ports
  /\ Threshold \in Nat \ {0} /\ MaxInflight \in Nat \ {0}

VARIABLES
  want,    \* the upstream the setting and the outbounds ask for; NoKey: no forwarder
  kernel,  \* phase of its life, whether it answers, the flag, the port it was told
  srv,     \* the forwarder: key and port
  brk,     \* its breaker: failures, whether it cools down, degraded
  conn,    \* the clients it serves
  row      \* history: failures since the last success, and whose they were

vars == <<want, kernel, srv, brk, conn, row>>

NoServer == [key |-> NoKey, port |-> NoPort]
Closed == [fails |-> 0, cooling |-> FALSE, degraded |-> FALSE]
NoFailures == [n |-> 0, causes |-> {}]
NoClient == [stage |-> "none", tcp |-> FALSE, broken |-> FALSE, lost |-> FALSE]

Capped(n) == IF n > Threshold THEN Threshold ELSE n
InFlight == {c \in Clients : conn[c].stage # "none" /\ ~conn[c].lost}

Init ==
  /\ want \in Keys \union {NoKey}
  /\ kernel = [phase |-> "off", alive |-> FALSE, flag |-> FALSE, port |-> NoPort]
  /\ srv = NoServer /\ brk = Closed
  /\ conn = [c \in Clients |-> NoClient]
  /\ row = NoFailures

-----------------------------------------------------------------------------
(* A query.                                                                *)

(* serveUDP, serveTCP: beyond MaxInflight a query is answered SERVFAIL, a  *)
(* connection closed at once; a slot is kept as long as the connection.    *)
Receive(c, tcp) ==
  /\ srv.port # NoPort /\ conn[c].stage = "none"
  /\ Cardinality(InFlight) < MaxInflight
  /\ conn' = [conn EXCEPT ![c] = [NoClient EXCEPT !.stage = "asked", !.tcp = tcp]]
  /\ UNCHANGED <<want, kernel, srv, brk, row>>

(* resolve: upstream unless it cools down or the kernel is not running.    *)
Decide(c) ==
  /\ conn[c].stage = "asked"
  /\ conn' = [conn EXCEPT ![c].stage = IF kernel.flag /\ ~brk.cooling THEN "primary" ELSE "fallback",
                          ![c].broken = ~kernel.alive]
  /\ UNCHANGED <<want, kernel, srv, brk, row>>

Replied(c) ==
  conn' = [conn EXCEPT ![c] = IF @.tcp THEN [@ EXCEPT !.stage = "open"] ELSE NoClient]

(* The upstream answers: an answer that is late counts as well.            *)
NotePrimarySuccess(c) ==
  /\ conn[c].stage = "primary" /\ ~conn[c].broken
  /\ IF conn[c].lost THEN UNCHANGED <<brk, row>>
     ELSE brk' = Closed /\ row' = NoFailures
  /\ Replied(c)
  /\ UNCHANGED <<want, kernel, srv>>

(* It does not, or not within three seconds.                               *)
NotePrimaryFailure(c) ==
  /\ conn[c].stage = "primary"
  /\ conn' = [conn EXCEPT ![c].stage = "fallback"]
  /\ IF conn[c].lost THEN UNCHANGED <<brk, row>>
     ELSE LET n == Capped(brk.fails + 1)
          IN /\ brk' = [fails |-> n,
                        cooling |-> brk.cooling \/ n = Threshold,
                        degraded |-> brk.degraded \/ n = Threshold]
             /\ row' = [n |-> Capped(row.n + 1),
                        causes |-> row.causes \union {IF conn[c].broken THEN "kernel" ELSE "remote"}]
  /\ UNCHANGED <<want, kernel, srv>>

(* The direct resolver answers, or the client gets SERVFAIL.               *)
FallbackEnds(c) ==
  /\ conn[c].stage = "fallback"
  /\ Replied(c)
  /\ UNCHANGED <<want, kernel, srv, brk, row>>

(* The next query on a connection, or its end (fifteen seconds at most).   *)
NextOnConn(c) ==
  /\ conn[c].stage = "open"
  /\ \/ ~conn[c].lost /\ conn' = [conn EXCEPT ![c].stage = "asked"]
     \/ conn' = [conn EXCEPT ![c] = NoClient]
  /\ UNCHANGED <<want, kernel, srv, brk, row>>

CooldownOver ==
  /\ brk.cooling
  /\ brk' = [brk EXCEPT !.cooling = FALSE]
  /\ UNCHANGED <<want, kernel, srv, conn, row>>

-----------------------------------------------------------------------------
(* Close: what is under way ends, unheard.                                 *)
Close ==
  /\ conn' = [c \in Clients |->
       IF conn[c].stage = "none" THEN conn[c] ELSE [conn[c] EXCEPT !.lost = TRUE]]
  /\ brk' = Closed /\ row' = NoFailures

Configure(key) ==
  /\ want' = key /\ want # key
  /\ UNCHANGED <<kernel, srv, brk, conn, row>>

Kill == conn' = [c \in Clients |-> [conn[c] EXCEPT !.broken = @ \/ conn[c].stage = "primary"]]

(* start, from Start or from a restart: the old process is killed first;   *)
(* the flag is left as it is, and so is the forwarder.                     *)
BeginStart ==
  /\ kernel.phase \in {"off", "on"}
  /\ kernel' = [kernel EXCEPT !.phase = "killed", !.alive = FALSE]
  /\ Kill
  /\ UNCHANGED <<want, srv, brk, row>>

(* What starting one comes to: a port that is free for UDP and for TCP, or *)
(* none after some attempts.                                               *)
StartServer(key) == {NoServer} \union {[key |-> key, port |-> p] : p \in Ports}

(* syncDNSFallback: none is wanted; the one that runs will do; or a new    *)
(* one is started, which may fail for want of a port.                      *)
SyncDNSFallback ==
  /\ kernel.phase = "killed"
  /\ kernel' = [kernel EXCEPT !.phase = "synced"]
  /\ \/ /\ want # NoKey /\ srv.key = want
        /\ UNCHANGED <<srv, brk, conn, row>>
     \/ /\ want # NoKey => srv.key # want
        /\ srv' \in IF want = NoKey THEN {NoServer} ELSE StartServer(want)
        /\ Close
  /\ UNCHANGED want

(* Variant: the configuration has the port of before.                      *)
BuildConfigStale ==
  /\ kernel.phase = "synced"
  /\ kernel' = [kernel EXCEPT !.phase = "built"]
  /\ UNCHANGED <<want, srv, brk, conn, row>>

(* buildSingboxRemoteDNSServer: the forwarder's port, or the upstream.     *)
BuildConfig ==
  /\ kernel.phase = "synced"
  /\ kernel' = [kernel EXCEPT !.phase = "built", !.port = srv.port]
  /\ UNCHANGED <<want, srv, brk, conn, row>>

Ready ==
  /\ kernel.phase = "built"
  /\ kernel' = [kernel EXCEPT !.phase = "on", !.alive = TRUE, !.flag = TRUE]
  /\ UNCHANGED <<want, srv, brk, conn, row>>

StartFails ==
  /\ kernel.phase \in {"killed", "synced", "built"}
  /\ kernel' = [kernel EXCEPT !.phase = "off", !.flag = FALSE]
  /\ UNCHANGED <<want, srv, brk, conn, row>>

KernelDies ==
  /\ kernel.alive
  /\ kernel' = [kernel EXCEPT !.alive = FALSE]
  /\ Kill
  /\ UNCHANGED <<want, srv, brk, row>>

DeathNoticed ==
  /\ kernel.phase = "on" /\ ~kernel.alive
  /\ kernel' = [kernel EXCEPT !.phase = "off", !.flag = FALSE]
  /\ UNCHANGED <<want, srv, brk, conn, row>>

(* Stop closes the forwarder, then kills the kernel.                       *)
StopForwarder ==
  /\ kernel.phase \in {"off", "on"}
  /\ kernel' = [kernel EXCEPT !.phase = "stopping"]
  /\ srv' = NoServer /\ Close
  /\ UNCHANGED want

StopKernel ==
  /\ kernel.phase = "stopping"
  /\ kernel' = [kernel EXCEPT !.phase = "off", !.alive = FALSE, !.flag = FALSE]
  /\ Kill
  /\ UNCHANGED <<want, srv, brk, row>>

-----------------------------------------------------------------------------
Next ==
  \/ \E c \in Clients :
       \/ \E tcp \in BOOLEAN : Receive(c, tcp)
       \/ Decide(c) \/ NotePrimarySuccess(c) \/ NotePrimaryFailure(c)
       \/ FallbackEnds(c) \/ NextOnConn(c)
  \/ CooldownOver
  \/ \E key \in Keys \union {NoKey} : Configure(key)
  \/ BeginStart \/ SyncDNSFallback \/ BuildConfig \/ Ready \/ StartFails
  \/ KernelDies \/ DeathNoticed \/ StopForwarder \/ StopKernel

Spec == Init /\ [][Next]_vars

-----------------------------------------------------------------------------
TypeOK ==
  /\ want \in Keys \union {NoKey}
  /\ kernel.port \in Ports \union {NoPort}
  /\ srv \in [key : Keys, port : Ports] \union {NoServer}
  /\ brk.fails \in 0 .. Threshold
  /\ \A c \in Clients : conn[c].stage \in {"none", "asked", "primary", "fallback", "open"}
  /\ row.n \in 0 .. Threshold

(* The configuration of a kernel that runs never names a forwarder that    *)
(* is gone, "which has to be settled before it is written" (engine.go:138), *)
(* and no forwarder serves while the kernel was told the upstream itself.  *)
KernelFindsForwarder == kernel.phase = "on" => kernel.port = srv.port

(* "not counted, lest a restart of the kernel is taken for an upstream     *)
(* that fails" (dns_fallback.go:78): it takes failures of the upstream for *)
(* the breaker to open.                                                    *)
RestartNotCounted == brk.cooling => "remote" \in row.causes
=============================================================================
