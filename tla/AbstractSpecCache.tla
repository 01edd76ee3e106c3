------------------------- MODULE AbstractSpecCache -------------------------
(***************************************************************************)
(* What the fingerprint cache promises its callers (spec section 4.6): a   *)
(* map from keys to ClientHelloSpecs of at most MaxSize entries, where     *)
(* every operation takes effect at one instant.  A lookup of a live entry  *)
(* makes it the most recently used; a lookup of an entry older than TTL    *)
(* drops it; storing a new key when the map is full drops the least        *)
(* recently used entry; Clear drops everything.  Nothing else removes an   *)
(* entry.                                                                  *)
(***************************************************************************)
EXTENDS Naturals, Sequences, SequencesExt

CONSTANTS Clients, Keys, Specs, MaxSize, TTL, MaxTime, NoEntry, Miss

VARIABLES
    content,  \* content[k]: [spec, created] stored under k, or NoEntry
    order,    \* the keys of content, least recently used first
    now,      \* the clock
    reply     \* reply[c]: what client c's last lookup returned

Live(e) == ~(TTL > 0 /\ now - e.created > TTL)

MakeRecent(k) == Append(Remove(order, k), k)

Init ==
    /\ content = [k \in Keys |-> NoEntry]
    /\ order = <<>>
    /\ now = 0
    /\ reply = [c \in Clients |-> Miss]

\* A hit answers the spec, and the entry becomes the most recently used.
Hit(c, k) ==
    /\ content[k] # NoEntry /\ Live(content[k])
    /\ order' = MakeRecent(k)
    /\ reply' = [reply EXCEPT ![c] = content[k].spec]
    /\ UNCHANGED <<content, now>>

\* A lookup that finds the entry too old drops it and answers a miss.
Expire(c, k) ==
    /\ content[k] # NoEntry /\ ~Live(content[k])
    /\ content' = [content EXCEPT ![k] = NoEntry]
    /\ order' = Remove(order, k)
    /\ reply' = [reply EXCEPT ![c] = Miss]
    /\ UNCHANGED now

\* A lookup of a key with no entry answers a miss.
NotFound(c, k) ==
    /\ content[k] = NoEntry
    /\ reply' = [reply EXCEPT ![c] = Miss]
    /\ UNCHANGED <<content, order, now>>

\* Store s under k, created now; a new key in a full map pushes out the
\* least recently used key.
Store(k, s) ==
    LET grown == MakeRecent(k)
        full  == content[k] = NoEntry /\ Len(grown) > MaxSize
    IN /\ order' = IF full THEN Tail(grown) ELSE grown
       /\ content' = [j \in Keys |->
                        IF j = k THEN [spec |-> s, created |-> now]
                        ELSE IF full /\ j = Head(grown) THEN NoEntry
                        ELSE content[j]]
       /\ UNCHANGED <<now, reply>>

Purge ==
    /\ content' = [k \in Keys |-> NoEntry]
    /\ order' = <<>>
    /\ UNCHANGED <<now, reply>>

Advance ==
    /\ now < MaxTime
    /\ now' = now + 1
    /\ UNCHANGED <<content, order, reply>>

Next ==
    \/ \E c \in Clients, k \in Keys : Hit(c, k) \/ Expire(c, k) \/ NotFound(c, k)
    \/ \E k \in Keys, s \in Specs : Store(k, s)
    \/ Purge
    \/ Advance

Spec == Init /\ [][Next]_<<content, order, now, reply>>
=============================================================================
