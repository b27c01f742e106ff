------------------------------ MODULE S3Lookup ------------------------------
(***************************************************************************)
(* Where the ESP32-S3 example posts its call requests                      *)
(*   main/tirtc/wechat_voip_ws.c, resolve_host_ipv4() to the connection    *)
(*                                                                         *)
(* The worker asks the resolver and waits for its callback, which runs on  *)
(* the network's thread, for a limited time.  A callback may come after    *)
(* the wait has ended, even during the next: the record of the lookup and  *)
(* a binary semaphore are all that the two share.                          *)
(*                                                                         *)
(* An address is the place the server was at when the resolver answered,   *)
(* with the number of the lookup that it answered.                         *)
(***************************************************************************)
EXTENDS Integers, FiniteSets

CONSTANTS
    MaxPosts,       \* requests posted in a behaviour
    MaxMoves        \* times the server goes to another address

ASSUME LookupAssumption == MaxPosts \in Nat /\ MaxMoves \in Nat

VARIABLES
    post,       \* what the worker is at, and the address it has
    lookup,     \* s_dns_lookup and s_dns_lookup_seq
    done,       \* s_dns_done_sem
    cache,      \* s_dns_cache_valid and s_dns_cache_addr
    asked,      \* lookups the resolver has still to answer
    giving,     \* dns_found_cb() has left its locked section, not yet given
    place,      \* where the server is
    missed      \* history: what went wrong

lookupVars == <<post, lookup, done, cache, asked, giving, place, missed>>

NoAddress == [place |-> 0, of |-> 0]
Addresses == [place : 1 .. MaxMoves + 1, of : Nat]

PostStages == {"rest", "drain", "open", "query", "await", "expire", "read", "connect"}

Posts   == [at : PostStages, n : 0 .. MaxPosts, seq : Nat, cached : BOOLEAN,
            addr : Addresses \cup {NoAddress}]
Lookups == [seq : Nat, waiting : BOOLEAN, done : BOOLEAN,
            addr : Addresses \cup {NoAddress}]
Misses  == [late : BOOLEAN,      \* a wait has ended before its callback
            early : BOOLEAN,     \* a wait was ended by another's callback
            tries : Nat]         \* failures in a row of the address in use

LookupTypeOK ==
    /\ post \in Posts /\ lookup \in Lookups
    /\ done \in BOOLEAN
    /\ cache \in Addresses \cup {NoAddress}
    /\ asked \subseteq Nat
    /\ giving \in BOOLEAN
    /\ place \in 1 .. MaxMoves + 1
    /\ missed \in Misses

PostGoes(at) == post' = [post EXCEPT !.at = at]

------------------------------------------------------------------------------
(* The worker: http_post_json_raw() and resolve_host_ipv4()                *)

Connecting(addr, cached) ==
    post' = [post EXCEPT !.at = "connect", !.addr = addr, !.cached = cached]

\* The cache is asked first.
StartPost ==
    /\ post.at = "rest" /\ post.n < MaxPosts
    /\ post' = IF cache # NoAddress
               THEN [post EXCEPT !.at = "connect", !.n = @ + 1, !.addr = cache,
                                 !.cached = TRUE]
               ELSE [post EXCEPT !.at = "drain", !.n = @ + 1]
    /\ UNCHANGED <<lookup, done, cache, asked, giving, place, missed>>

\* What an earlier lookup's callback has left in the semaphore is taken out.
Drain ==
    /\ post.at = "drain" /\ PostGoes("open")
    /\ done' = FALSE
    /\ UNCHANGED <<lookup, cache, asked, giving, place, missed>>

OpenLookup ==
    /\ post.at = "open"
    /\ lookup' = [seq |-> lookup.seq + 1, waiting |-> TRUE, done |-> FALSE,
                  addr |-> NoAddress]
    /\ post' = [post EXCEPT !.at = "query", !.seq = lookup.seq + 1]
    /\ UNCHANGED <<done, cache, asked, giving, place, missed>>

NotWaiting == lookup' = [lookup EXCEPT !.waiting = FALSE]

Save(addr) == cache' = addr /\ missed' = [missed EXCEPT !.tries = 0]

\* dns_gethostbyname() knows the address, asks for it, or cannot.
Query ==
    /\ post.at = "query"
    /\ \/ LET addr == [place |-> place, of |-> post.seq]
          IN NotWaiting /\ Save(addr) /\ Connecting(addr, FALSE) /\ UNCHANGED asked
       \/ asked' = asked \cup {post.seq} /\ PostGoes("await")
          /\ UNCHANGED <<lookup, cache, missed>>
       \/ NotWaiting /\ PostGoes("rest") /\ UNCHANGED <<asked, cache, missed>>
    /\ UNCHANGED <<done, giving, place>>

Awaken ==
    /\ post.at = "await" /\ done
    /\ done' = FALSE
    /\ PostGoes("read")
    /\ UNCHANGED <<lookup, cache, asked, giving, place, missed>>

\* The wait ends after ACTIVE_CALL_DNS_TIMEOUT_MS, and then the lookup is closed.
TimeOut ==
    /\ post.at = "await" /\ ~done
    /\ PostGoes("expire")
    /\ missed' = [missed EXCEPT !.late = TRUE]
    /\ UNCHANGED <<lookup, done, cache, asked, giving, place>>

Expire ==
    /\ post.at = "expire" /\ PostGoes("rest")
    /\ NotWaiting
    /\ UNCHANGED <<done, cache, asked, giving, place, missed>>

ReadAnswer ==
    /\ post.at = "read"
    /\ NotWaiting
    /\ IF lookup.done /\ lookup.addr # NoAddress
       THEN Save(lookup.addr) /\ Connecting(lookup.addr, FALSE)
       ELSE /\ PostGoes("rest")
            /\ missed' = [missed EXCEPT !.early = @ \/ ~lookup.done]
            /\ UNCHANGED cache
    /\ UNCHANGED <<done, asked, giving, place>>

\* socket_connect_with_timeout() may only succeed where the server is.
Answers(addr) == addr.place = place

\* The connection fails or takes too long all the same, and an address that came from the
\* cache is then forgotten; it is not if there is no time or no socket to try it.
ConnectServer ==
    /\ post.at = "connect" /\ PostGoes("rest")
    /\ \/ /\ Answers(post.addr)
          /\ missed' = [missed EXCEPT !.tries = 0]
          /\ UNCHANGED cache
       \/ /\ cache' = IF post.cached THEN NoAddress ELSE cache
          /\ missed' = [missed EXCEPT !.tries = @ + 1]
       \/ UNCHANGED <<cache, missed>>
    /\ UNCHANGED <<lookup, done, asked, giving, place>>

------------------------------------------------------------------------------
(* The network's thread: dns_found_cb()                                    *)

\* Mutant: the callback of any lookup answers the one that waits.
FoundAny(q) ==
    /\ q \in asked /\ ~giving
    /\ asked' = asked \ {q}
    /\ \/ /\ lookup.waiting
          /\ \E addr \in {NoAddress, [place |-> place, of |-> q]} :
                 lookup' = [lookup EXCEPT !.done = TRUE, !.addr = addr]
          /\ giving' = TRUE
       \/ ~lookup.waiting /\ UNCHANGED <<lookup, giving>>
    /\ UNCHANGED <<post, done, cache, place, missed>>

Found(q) ==
    /\ q \in asked /\ ~giving
    /\ asked' = asked \ {q}
    /\ \/ /\ lookup.waiting /\ lookup.seq = q
          /\ \E addr \in {NoAddress, [place |-> place, of |-> q]} :
                 lookup' = [lookup EXCEPT !.done = TRUE, !.addr = addr]
          /\ giving' = TRUE
       \/ ~(lookup.waiting /\ lookup.seq = q) /\ UNCHANGED <<lookup, giving>>
    /\ UNCHANGED <<post, done, cache, place, missed>>

Give ==
    /\ giving
    /\ giving' = FALSE
    /\ done' = TRUE
    /\ UNCHANGED <<post, lookup, cache, asked, place, missed>>

\* The server goes to another address.
Move ==
    /\ place <= MaxMoves
    /\ place' = place + 1
    /\ UNCHANGED <<post, lookup, done, cache, asked, giving, missed>>

LookupInit ==
    /\ post = [at |-> "rest", n |-> 0, seq |-> 0, cached |-> FALSE, addr |-> NoAddress]
    /\ lookup = [seq |-> 0, waiting |-> FALSE, done |-> FALSE, addr |-> NoAddress]
    /\ done = FALSE
    /\ cache = NoAddress
    /\ asked = {}
    /\ giving = FALSE
    /\ place = 1
    /\ missed = [late |-> FALSE, early |-> FALSE, tries |-> 0]

LookupNext ==
    \/ StartPost \/ Drain \/ OpenLookup \/ Query \/ Awaken \/ TimeOut \/ Expire
    \/ ReadAnswer \/ ConnectServer
    \/ \E q \in asked : Found(q)
    \/ Give \/ Move

LookupSpec == LookupInit /\ [][LookupNext]_lookupVars

------------------------------------------------------------------------------
(* Properties                                                              *)

\* The worker connects to what its own lookup has found or what the cache holds, never
\* to the answer to a lookup it gave up; it takes a lookup for failed before its answer
\* is there only if it has given one up earlier, whose callback was then under way; and
\* it asks again before it tries an address for a third time that has failed it twice.
AddressIsOwn ==
    /\ post.at = "connect" =>
           IF post.cached THEN post.addr = cache ELSE post.addr.of = post.seq
    /\ missed.early => missed.late
    /\ missed.tries <= 2
=============================================================================
