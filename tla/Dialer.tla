------------------------------- MODULE Dialer -------------------------------
(***************************************************************************)
(* The worker's host resolver (worker/dialer.go): concurrent calls of      *)
(* fallbackDialer.Dial for one host's hostname, sharing hostCache.         *)
(*                                                                         *)
(* Get, Set and Clear each hold hc.mu for their whole body, so each is one *)
(* step.  DNS resolution, dialing and bus.Host touch no shared state: a    *)
(* dial's outcome is a nondeterministic choice, merged into the step that  *)
(* acts on it.  Hostnames are independent of each other, so one is        *)
(* enough.                                                                 *)
(***************************************************************************)
EXTENDS Naturals, Sequences

CONSTANTS
    Dials,      \* the goroutines calling Dial concurrently
    IPs,        \* the addresses DNS or the bus may produce
    BusAddrs,   \* hostInfo.ResolvedAddresses, in order
    NoIP        \* hostCache has no entry for the hostname

ASSUME /\ BusAddrs \in Seq(IPs)
       /\ NoIP \notin IPs

VARIABLES
    cache,     \* hc.cache[host]
    pc,        \* per call: where Dial is
    cachedIP,  \* per call: the IP Get returned
    i,         \* per call: index in BusAddrs of the address being dialed
    result     \* per call: what Dial returned

vars == <<cache, pc, cachedIP, i, result>>

Labels == {"resolve", "get", "cachedial", "clear", "bus", "busdial", "done"}

TypeOK ==
    /\ cache \in IPs \cup {NoIP}
    /\ pc \in [Dials -> Labels]
    /\ cachedIP \in [Dials -> IPs \cup {NoIP}]
    /\ i \in [Dials -> 0..Len(BusAddrs)]
    /\ result \in [Dials -> {"none", "conn", "err"}]

Init ==
    /\ cache = NoIP
    /\ pc = [d \in Dials |-> "resolve"]
    /\ cachedIP = [d \in Dials |-> NoIP]
    /\ i = [d \in Dials |-> 0]
    /\ result = [d \in Dials |-> "none"]

Return(d, r) ==
    /\ pc' = [pc EXCEPT ![d] = "done"]
    /\ result' = [result EXCEPT ![d] = r]

Goto(d, l) == pc' = [pc EXCEPT ![d] = l]

\* hostCache.Set(host, ip), under hc.mu.
Set(ip) == cache' = ip

\* net.SplitHostPort fails on a malformed address: Dial returns its error
\* before it touches the cache.
SplitFail(d) ==
    /\ pc[d] = "resolve"
    /\ Return(d, "err")
    /\ UNCHANGED <<cache, cachedIP, i>>

\* ResolveIPAddr succeeds: cache.Set(host, ip), then DialContext on it and
\* return its result.
ResolveOK(d) ==
    /\ pc[d] = "resolve"
    /\ \E ip \in IPs : Set(ip)
    /\ \E r \in {"conn", "err"} : Return(d, r)
    /\ UNCHANGED <<cachedIP, i>>

\* ResolveIPAddr fails: fall back to the cache.
ResolveFail(d) ==
    /\ pc[d] = "resolve"
    /\ Goto(d, "get")
    /\ UNCHANGED <<cache, cachedIP, i, result>>

\* cache.Get(host): dial the cached IP on a hit, else ask the bus.
CacheGet(d) ==
    /\ pc[d] = "get"
    /\ cachedIP' = [cachedIP EXCEPT ![d] = cache]
    /\ Goto(d, IF cache # NoIP THEN "cachedial" ELSE "bus")
    /\ UNCHANGED <<cache, i, result>>

\* Fault variant: a failed cached IP sends the call back to DNS resolution
\* without clearing it.
CacheDialRetry(d) ==
    /\ pc[d] = "cachedial"
    /\ \/ Return(d, "conn")
       \/ Goto(d, "resolve") /\ UNCHANGED result
    /\ UNCHANGED <<cache, cachedIP, i>>

\* DialContext on the cached IP: return the connection, or go on to clear.
CacheDial(d) ==
    /\ pc[d] = "cachedial"
    /\ \/ Return(d, "conn")
       \/ Goto(d, "clear") /\ UNCHANGED result
    /\ UNCHANGED <<cache, cachedIP, i>>

\* cache.Clear(host): delete whatever entry the hostname has now.
CacheClear(d) ==
    /\ pc[d] = "clear"
    /\ cache' = NoIP
    /\ Goto(d, "bus")
    /\ UNCHANGED <<cachedIP, i, result>>

\* bus.Host(hk): its error is returned (as is the final error when there
\* are no resolved addresses); else dial the resolved addresses in order.
BusHost(d) ==
    /\ pc[d] = "bus"
    /\ \/ Return(d, "err") /\ UNCHANGED i
       \/ /\ BusAddrs # <<>>
          /\ Goto(d, "busdial")
          /\ i' = [i EXCEPT ![d] = 1]
          /\ UNCHANGED result
    /\ UNCHANGED <<cache, cachedIP>>

\* The loop over ResolvedAddresses, which ends after address last:
\* DialContext on address i; on success cache.Set(host, addr) and return; on
\* failure try the next, and fail after the last.
BusDialUpTo(d, last) ==
    /\ pc[d] = "busdial"
    /\ \/ /\ Set(BusAddrs[i[d]])
          /\ Return(d, "conn")
          /\ UNCHANGED i
       \/ /\ i[d] < last
          /\ i' = [i EXCEPT ![d] = i[d] + 1]
          /\ UNCHANGED <<cache, pc, result>>
       \/ /\ i[d] = last
          /\ Return(d, "err")
          /\ UNCHANGED <<cache, i>>
    /\ UNCHANGED cachedIP

\* Fault variant: the loop bound off by one.
BusDialPastEnd(d) == BusDialUpTo(d, Len(BusAddrs) + 1)

\* for _, addr := range hostInfo.ResolvedAddresses
BusDial(d) == BusDialUpTo(d, Len(BusAddrs))

Step(d) ==
    \/ SplitFail(d) \/ ResolveOK(d) \/ ResolveFail(d) \/ CacheGet(d) \/ CacheDial(d)
    \/ CacheClear(d) \/ BusHost(d) \/ BusDial(d)

Next == \E d \in Dials : Step(d)

\* Every call runs on its own goroutine, which the Go scheduler runs.
Spec == Init /\ [][Next]_vars /\ \A d \in Dials : WF_vars(Step(d))

-----------------------------------------------------------------------------
(* Properties.                                                            *)

\* Every Dial returns: the bus addresses are tried once each, in order,
\* whatever DNS, the cache and the other calls do.
DialTerminates == <>(\A d \in Dials : pc[d] = "done")

\* Spec 4.5: the cache entry is invalidated only when the cached IP fails
\* to connect; Clear (dialer.go) removes only the IP this call dialed and
\* saw fail, never one another call has Set since.
ClearOnlyFailedIP ==
    [][\A d \in Dials : pc[d] = "clear" /\ pc'[d] = "bus" => cache = cachedIP[d]]_vars

=============================================================================
