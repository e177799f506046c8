------------------------------- MODULE Bucket -------------------------------
(***************************************************************************)
(* A key-value bucket (aiobp/nats/_bucket.py), the cache of buckets in     *)
(* Nats (aiobp/nats/_nats.py) and the stream behind it.  Several tasks,    *)
(* of one process, make calls; every call is a request the server gets    *)
(* at some later time, also when the caller has given up waiting for the  *)
(* answer.  A value is the set of writes it is built from: put() starts a  *)
(* new one, update() adds to the value it has read.                        *)
(***************************************************************************)
EXTENDS Integers, FiniteSets, Sequences

CONSTANTS Task,      \* tasks using the bucket
          Key,
          MaxCalls,  \* bound on calls that are made, without get_entry()
          Watches,   \* watchers there are: FALSE for watch(), TRUE for snapshot()
          Opens,     \* calls of bucket() and delete_bucket() are made
          Ttl,       \* values of the ttl argument: FALSE for None
          Empty      \* whether the value written is b"", subset of BOOLEAN

ASSUME BucketConstants == /\ IsFiniteSet(Key) /\ Key # {} /\ MaxCalls \in Nat /\ Opens \in BOOLEAN
                          /\ Watches \subseteq BOOLEAN /\ Ttl \subseteq BOOLEAN /\ Empty \subseteq BOOLEAN

VARIABLES
  stream,  \* the stream of the bucket, and how often it was made
  wire,    \* requests the server has not got yet
  at,      \* the call each task is in
  entry,   \* the BucketEntry each task holds, per key
  cached,  \* the bucket is in Nats._buckets
  watch,   \* the watcher of watch() or snapshot()
  calls,   \* number of calls made, their identities
  alive,   \* history: writes nobody took away, per key
  overrun, \* history: writes replaced through what was read from an earlier bucket
  applied, \* how many records each call has stored
  told     \* what the caller of each call was told

server == <<stream, alive, overrun, applied>>
vars == <<server, wire, at, entry, cached, watch, calls, told>>

Id == 1..MaxCalls
Missing == [rev |-> 0, val |-> {}, live |-> FALSE, ttl |-> FALSE, empty |-> FALSE]
NoEntry == [rev |-> 0, val |-> {}, made |-> 0]
Unchecked == -1   \* no revision is expected
Steps == {"idle", "put", "update", "create", "look", "again", "delete", "purge",
          "key_value", "create_key_value", "delete_key_value"}
Writes == {"put", "update", "create", "again", "delete", "purge"}

(* --------------------------------- server -------------------------------- *)

\* What the watcher is sent of record r, its key k.
Event(k, r) == [key |-> k, val |-> r.val, live |-> r.live, empty |-> r.empty, rev |-> r.rev]

\* What nats-py puts between the records of the replay and those written since.
Marker == Event(CHOOSE k \in Key : TRUE, Missing)

\* Each key's last record in the order of the stream: what a watcher is sent first (one list).
Replayed(snapshot) ==
  {Event(k, stream.rec[k]) :
     k \in {i \in Key : stream.rec[i].rev # 0 /\ (snapshot => stream.rec[i].live)}}
Replays(snapshot) ==
  {q \in [1 .. Cardinality(Replayed(snapshot)) -> Replayed(snapshot)] :
     \A i, j \in DOMAIN q : i < j => q[i].rev < q[j].rev}

\* The watcher gets an event of the stream it watches, one of snapshot() no deletions.
Publish(k, r) ==
  watch' = IF watch.on /\ watch.made = stream.made /\ stream.exists
             THEN [watch EXCEPT !.queue = IF watch.snapshot /\ ~r.live THEN @
                                          ELSE Append(@, Event(k, r)),
                                !.seen[k] = @ \cup {r.val}]
             ELSE watch

\* The bucket changes otherwise: records are gone without an event.
Vanish(gone) ==
  watch' = [watch EXCEPT !.seen = [k \in Key |-> IF k \in gone THEN @[k] \cup {{}} ELSE @[k]]]

\* What is left after m as its caller meant it: it replaces what it is based on.
Intended(m) == (alive[m.key] \ m.base) \cup m.val

\* m goes by a revision of an earlier stream of the same name, which says nothing about this one.
Outdated(m) == m.made \notin {0, stream.made}

Answer(m, reply) ==
  at' = [t \in Task |-> IF at[t].req = m THEN [at[t] EXCEPT !.reply = {reply}] ELSE at[t]]

Reply(kind, r) == [kind |-> kind, rev |-> r.rev, val |-> r.val, made |-> stream.made]

\* The server stores a record if the stream is there and the last record is the expected one.
Store(m) ==
  /\ m.step \in Writes
  /\ IF ~stream.exists THEN Answer(m, Reply("no_stream", Missing)) /\ UNCHANGED <<server, watch>>
     ELSE IF m.last \notin {Unchecked, stream.rec[m.key].rev}
       THEN Answer(m, Reply("wrong_last", Missing)) /\ UNCHANGED <<server, watch>>
       ELSE LET r == [rev |-> stream.seq + 1, val |-> m.val, live |-> m.step \notin {"delete", "purge"},
                      ttl |-> m.ttl, empty |-> m.empty]
            IN /\ stream' = [stream EXCEPT !.seq = @ + 1, !.rec[m.key] = r]
               /\ alive' = [alive EXCEPT ![m.key] = Intended(m)]
               /\ overrun' = IF Outdated(m) THEN overrun \cup (Intended(m) \ m.val) ELSE overrun
               /\ applied' = [applied EXCEPT ![m.id] = @ + 1]
               /\ Publish(m.key, r)
               /\ Answer(m, Reply("ack", r))

Lookup(m) ==
  /\ m.step = "look"
  /\ Answer(m, LET r == stream.rec[m.key]
               IN CASE ~stream.exists -> Reply("no_stream", Missing)
                    [] stream.exists /\ r.rev = 0 -> Reply("none", r)
                    [] r.rev # 0 /\ ~r.live -> Reply("deleted", r)
                    [] r.rev # 0 /\ r.live -> Reply("found", r))
  /\ UNCHANGED <<server, watch>>

\* What bucket() and delete_bucket() ask for; a stream that exists with another ttl is refused.
Manage(m) ==
  \/ /\ m.step = "key_value"
     /\ Answer(m, Reply(IF stream.exists THEN "ack" ELSE "no_stream", Missing))
     /\ UNCHANGED <<server, watch>>
  \/ /\ m.step = "create_key_value"
     /\ Answer(m, Reply(IF stream.exists /\ stream.ttl # m.ttl THEN "refused" ELSE "ack", Missing))
     /\ stream' = IF stream.exists THEN stream
                  ELSE [exists |-> TRUE, made |-> stream.made + 1, seq |-> 0, ttl |-> m.ttl,
                        rec |-> [k \in Key |-> Missing]]
     /\ UNCHANGED <<alive, overrun, applied, watch>>
  \/ /\ m.step = "delete_key_value"
     /\ Answer(m, Reply(IF stream.exists THEN "ack" ELSE "no_stream", Missing))
     /\ stream' = [stream EXCEPT !.exists = FALSE, !.rec = [k \in Key |-> Missing]]
     /\ alive' = [k \in Key |-> {}]
     /\ Vanish(Key)
     /\ UNCHANGED <<overrun, applied>>

Serve == \E m \in wire : /\ wire' = wire \ {m}
                         /\ Store(m) \/ Lookup(m) \/ Manage(m)
                         /\ UNCHANGED <<entry, cached, calls, told>>

\* A record outlives its ttl, or the bucket's.
Expire == \E k \in Key :
  /\ stream.exists /\ stream.rec[k].rev # 0
  /\ stream.rec[k].ttl \/ stream.ttl
  /\ stream' = [stream EXCEPT !.rec[k] = Missing]
  /\ alive' = [alive EXCEPT ![k] = {}]
  /\ Vanish({k})
  /\ UNCHANGED <<overrun, applied, wire, at, entry, cached, calls, told>>

(* --------------------------------- calls --------------------------------- *)

\* A request: base is what its caller replaces, Id for whatever is there.
Request(id, step, key, last, base, val) ==
  [id |-> id, step |-> step, key |-> key, last |-> last, base |-> base, val |-> val,
   ttl |-> FALSE, empty |-> FALSE, made |-> 0]
NoRequest == Request(0, "idle", CHOOSE k \in Key : TRUE, 0, {}, {})
Idle == [req |-> NoRequest, reply |-> {}]

Ask(t, m) == /\ at' = [at EXCEPT ![t] = [req |-> m, reply |-> {}]]
             /\ wire' = wire \cup {m}

\* t makes the call m.
Begin(t, m) == /\ at[t] = Idle /\ calls < MaxCalls
               /\ calls' = calls + 1
               /\ Ask(t, m)
               /\ UNCHANGED <<server, entry, watch, told>>

\* get_entry(): the entry is used later anyway, so it is read when the server is asked.
GetEntry(t, k) ==
  LET r == stream.rec[k]
  IN /\ at[t] = Idle /\ stream.exists
     /\ entry' = [entry EXCEPT ![t][k] =
                    IF r.live THEN [rev |-> r.rev, val |-> r.val, made |-> stream.made] ELSE NoEntry]
     /\ UNCHANGED <<server, wire, at, cached, watch, calls, told>>

Put(t, k) == \E ttl \in Ttl, empty \in Empty :
  /\ Begin(t, [Request(calls + 1, "put", k, Unchecked, Id, {calls + 1}) EXCEPT !.ttl = ttl, !.empty = empty])
  /\ UNCHANGED cached

\* Mutant: put() in the place of update().
UpdateBlind(t, k) == \E ttl \in Ttl :
  LET e == entry[t][k]
  IN /\ e # NoEntry
     /\ Begin(t, [Request(calls + 1, "update", k, Unchecked, e.val, e.val \cup {calls + 1})
                    EXCEPT !.ttl = ttl, !.made = e.made])
     /\ UNCHANGED cached

\* The entry's value as the caller changed it, at the revision the entry was read at.
Update(t, k) == \E ttl \in Ttl :
  LET e == entry[t][k]
  IN /\ e # NoEntry
     /\ Begin(t, [Request(calls + 1, "update", k, e.rev, e.val, e.val \cup {calls + 1})
                    EXCEPT !.ttl = ttl, !.made = e.made])
     /\ UNCHANGED cached

Create(t, k) == \E ttl \in Ttl :
  /\ Begin(t, [Request(calls + 1, "create", k, 0, {}, {calls + 1}) EXCEPT !.ttl = ttl])
  /\ UNCHANGED cached

\* delete(key), and delete(key, revision=...) of an entry
Delete(t, k) ==
  \/ /\ Begin(t, Request(calls + 1, "delete", k, Unchecked, Id, {}))
     /\ UNCHANGED cached
  \/ LET e == entry[t][k]
     IN /\ e # NoEntry
        /\ Begin(t, [Request(calls + 1, "delete", k, e.rev, e.val, {}) EXCEPT !.made = e.made])
        /\ UNCHANGED cached

Purge(t, k) == /\ Begin(t, Request(calls + 1, "purge", k, Unchecked, Id, {}))
               /\ UNCHANGED cached

\* Nats.bucket(): a bucket in the cache is returned as it is, without a request.
Open(t) == \E ttl \in Ttl :
  /\ Opens /\ ~cached
  /\ Begin(t, [Request(calls + 1, "key_value", NoRequest.key, Unchecked, {}, {}) EXCEPT !.ttl = ttl])
  /\ UNCHANGED cached

\* Nats.delete_bucket()
DeleteBucket(t) ==
  /\ Opens
  /\ Begin(t, Request(calls + 1, "delete_key_value", NoRequest.key, Unchecked, {}, {}))
  /\ cached' = FALSE

(* -------------------------------- answers -------------------------------- *)

\* t gets the answer to its request, says what to its caller and goes on.
Return(t, what) == /\ told' = [told EXCEPT ![at[t].req.id] = what]
                   /\ at' = [at EXCEPT ![t] = Idle]
                   /\ UNCHANGED wire

\* Mutant: delete() drops the error it should translate.
WrittenQuiet(t, r) ==
  /\ at[t].req.step \in {"put", "update", "delete", "purge", "again"}
  /\ Return(t, CASE r.kind = "ack" \/ at[t].req.step = "delete" -> "stored"
                 [] r.kind = "wrong_last" -> "conflict"
                 [] OTHER -> "failed")
  /\ UNCHANGED <<entry, cached>>

\* The errors of a revision are told as such, also by delete(), which has to translate them.
Written(t, r) ==
  /\ at[t].req.step \in {"put", "update", "delete", "purge", "again"}
  /\ Return(t, CASE r.kind = "ack" -> "stored" [] r.kind = "wrong_last" -> "conflict"
                 [] r.kind = "no_stream" -> "failed")
  /\ UNCHANGED <<entry, cached>>

\* create() looks whether the key it cannot create was deleted, and then writes after that.
Created(t, r) ==
  /\ at[t].req.step = "create"
  /\ IF r.kind = "wrong_last"
       THEN /\ Ask(t, [at[t].req EXCEPT !.step = "look"])
            /\ UNCHANGED told
       ELSE Return(t, IF r.kind = "ack" THEN "stored" ELSE "failed")
  /\ UNCHANGED <<entry, cached>>

Looked(t, r) ==
  /\ at[t].req.step = "look"
  /\ IF r.kind = "deleted"
       THEN /\ Ask(t, [at[t].req EXCEPT !.step = "again", !.last = r.rev, !.made = r.made])
            /\ UNCHANGED told
       ELSE Return(t, IF r.kind = "found" THEN "conflict" ELSE "failed")
  /\ UNCHANGED <<entry, cached>>

\* bucket() caches what it found or made; delete_bucket() took it out before it asked.
Opened(t, r) ==
  /\ at[t].req.step \in {"key_value", "create_key_value"}
  /\ IF at[t].req.step = "key_value" /\ r.kind = "no_stream"
       THEN /\ \/ Ask(t, [at[t].req EXCEPT !.step = "create_key_value"]) /\ UNCHANGED told
               \/ Return(t, "failed")   \* create=False
            /\ UNCHANGED cached
       ELSE /\ Return(t, IF r.kind = "ack" THEN "done" ELSE "failed")
            /\ cached' = (cached \/ r.kind = "ack")
  /\ UNCHANGED entry

BucketDeleted(t, r) ==
  /\ at[t].req.step = "delete_key_value"
  /\ Return(t, IF r.kind = "ack" THEN "done" ELSE "failed")
  /\ UNCHANGED <<entry, cached>>

Resume(t) == \E r \in at[t].reply :
  /\ Written(t, r) \/ Created(t, r) \/ Looked(t, r) \/ Opened(t, r) \/ BucketDeleted(t, r)
  /\ UNCHANGED <<server, watch, calls>>

\* The answer does not come in time, or the caller is cancelled; the request may still arrive.
Timeout(t) == /\ at[t] # Idle
              /\ Return(t, "timeout")
              /\ UNCHANGED <<server, entry, cached, watch, calls>>

(* ------------------------------ watch, snapshot -------------------------- *)

NoWatch == [on |-> FALSE, snapshot |-> FALSE, made |-> 0, queue |-> <<>>, seen |-> [k \in Key |-> {}],
            view |-> [k \in Key |-> {}], done |-> FALSE]

Watch == \E snapshot \in Watches : \E replay \in Replays(snapshot) :
  /\ watch = NoWatch /\ stream.exists
  /\ watch' = [NoWatch EXCEPT !.on = TRUE, !.snapshot = snapshot, !.made = stream.made,
                              !.queue = Append(replay, Marker),
                              !.seen = [k \in Key |-> {stream.rec[k].val}]]
  /\ UNCHANGED <<server, wire, at, entry, cached, calls, told>>

\* What the caller makes of event e: no value is a deletion.
View(e) == [watch.view EXCEPT ![e.key] = IF e.live /\ ~e.empty THEN e.val ELSE {}]

\* Mutant: an event without a value is skipped like the marker.
IterateSkips ==
  /\ watch.on /\ watch.queue # <<>>
  /\ LET e == Head(watch.queue) rest == [watch EXCEPT !.queue = Tail(@)]
     IN watch' = IF ~e.live THEN IF e = Marker /\ watch.snapshot
                                   THEN [rest EXCEPT !.on = FALSE, !.done = TRUE] ELSE rest
                 ELSE [rest EXCEPT !.view = View(e)]
  /\ UNCHANGED <<server, wire, at, entry, cached, calls, told>>

\* The marker ends a snapshot, and is nothing to a watch.
Iterate ==
  /\ watch.on /\ watch.queue # <<>>
  /\ LET e == Head(watch.queue) rest == [watch EXCEPT !.queue = Tail(@)]
     IN watch' = IF e = Marker
                   THEN IF watch.snapshot THEN [rest EXCEPT !.on = FALSE, !.done = TRUE] ELSE rest
                   ELSE [rest EXCEPT !.view = View(e)]
  /\ UNCHANGED <<server, wire, at, entry, cached, calls, told>>

\* The caller stops iterating, the watcher is stopped.
Abandon == /\ watch.on
           /\ watch' = [watch EXCEPT !.on = FALSE, !.queue = <<>>]
           /\ UNCHANGED <<server, wire, at, entry, cached, calls, told>>

(* ---------------------------------- spec --------------------------------- *)

Init ==
  /\ \E there \in IF Opens THEN BOOLEAN ELSE {TRUE} :
       stream = [exists |-> there, made |-> 1, seq |-> 0, ttl |-> FALSE, rec |-> [k \in Key |-> Missing]]
  /\ wire = {} /\ at = [t \in Task |-> Idle]
  /\ entry = [t \in Task |-> [k \in Key |-> NoEntry]]
  /\ cached = FALSE /\ watch = NoWatch /\ calls = 0
  /\ alive = [k \in Key |-> {}] /\ overrun = {}
  /\ applied = [i \in Id |-> 0] /\ told = [i \in Id |-> "nothing"]

Call(t) == \/ \E k \in Key : GetEntry(t, k) \/ Put(t, k) \/ Update(t, k) \/ Create(t, k)
                             \/ Delete(t, k) \/ Purge(t, k)
           \/ Open(t) \/ DeleteBucket(t)

Next == \/ \E t \in Task : Call(t) \/ Resume(t) \/ Timeout(t)
        \/ Serve \/ Expire \/ Watch \/ Iterate \/ Abandon

Spec == Init /\ [][Next]_vars

(* -------------------------------- properties ----------------------------- *)

Kinds == {"ack", "wrong_last", "no_stream", "refused", "none", "deleted", "found"}

\* The variables have the values the code gives them; a task waits only
\* for the answer to a call nobody was told about yet, and holds entries that
\* had a value when they were read.
TypeOK ==
  /\ stream.seq \in 0..MaxCalls /\ stream.made \in 1..MaxCalls + 1
  /\ \A k \in Key : /\ stream.rec[k].rev \in 0..stream.seq /\ stream.rec[k].val \subseteq Id
                    /\ alive[k] \subseteq Id
  /\ overrun \subseteq Id
  /\ \A m \in wire : m.step \in Steps \ {"idle"} /\ m.id \in 1..calls
  /\ \A t \in Task : \A r \in at[t].reply : r.kind \in Kinds /\ at[t].req \notin wire
  /\ \A t \in Task : at[t] # Idle => told[at[t].req.id] = "nothing"
  /\ \A t \in Task, k \in Key : entry[t][k] # NoEntry =>
       /\ entry[t][k].rev \in 1..MaxCalls /\ entry[t][k].val \in (SUBSET Id) \ {{}}
       /\ entry[t][k].made \in 1..stream.made
  /\ cached \in BOOLEAN
  /\ told \in [Id -> {"nothing", "done", "stored", "conflict", "failed", "timeout"}]

\* update(), create() and delete(revision) never undo what somebody else has written since: a
\* write is gone only if it was overwritten or removed on purpose, or has expired, or if what
\* replaced it went by an entry that was read before the bucket was deleted and made again.
NothingLost == \A k \in Key : alive[k] \subseteq stream.rec[k].val \cup overrun

\* A call stores at most one record, one it has stored if it says so, none if it says conflict,
\* also where create() asks three times and answers come after the caller gave up.
AnswerTruthful == \A i \in Id :
  /\ applied[i] <= 1
  /\ told[i] = "stored" => applied[i] = 1
  /\ told[i] = "conflict" => applied[i] = 0

\* A watcher that has seen all events knows the bucket, but for what has expired; a snapshot
\* that has ended holds for each key what it was at some moment since the call.
ViewTrue ==
  /\ watch.on /\ ~watch.snapshot /\ watch.queue = <<>> /\ watch.made = stream.made /\ stream.exists
       => \A k \in Key : stream.rec[k].rev # 0 => watch.view[k] = stream.rec[k].val
  /\ watch.done => \A k \in Key : watch.view[k] \in watch.seen[k]

\* bucket() answers from the cache only while there is such a bucket, as long as nobody is
\* deleting it.
CacheFresh == cached /\ ~(\E m \in wire : m.step = "delete_key_value") => stream.exists

\* Said of update() and delete(revision): they store or remove only if nobody changed the
\* key since the entry was read, also when the bucket was deleted and made again.
NeverOverrun == overrun = {}
=============================================================================
