---------------------------- MODULE BucketProofs ----------------------------
(* Theorems about Bucket, for all values of its constants. *)
EXTENDS Bucket, FiniteSetTheorems, SequenceTheorems, TLAPS

-----------------------------------------------------------------------------
(* The types of the variables. *)

Outcomes == {"nothing", "done", "stored", "conflict", "failed", "timeout"}
Record == [rev : Nat, val : SUBSET Id, live : BOOLEAN, ttl : BOOLEAN, empty : BOOLEAN]
Message == [id : Nat, step : Steps, key : Key, last : Int, base : SUBSET Id, val : SUBSET Id,
            ttl : BOOLEAN, empty : BOOLEAN, made : Nat]
Entry == [rev : Nat, val : SUBSET Id, made : Nat]
Answered == [kind : Kinds, rev : Nat, val : SUBSET Id, made : Nat]
State == [req : Message, reply : SUBSET Answered]
Note == [key : Key, val : SUBSET Id, live : BOOLEAN, empty : BOOLEAN, rev : Nat]
Stream == [exists : BOOLEAN, made : Nat, seq : Nat, ttl : BOOLEAN, rec : [Key -> Record]]
Watcher == [on : BOOLEAN, snapshot : BOOLEAN, made : Nat, queue : Seq(Note),
            seen : [Key -> SUBSET SUBSET Id], view : [Key -> SUBSET Id], done : BOOLEAN]

Types ==
  /\ stream \in Stream /\ wire \in SUBSET Message /\ at \in [Task -> State]
  /\ entry \in [Task -> [Key -> Entry]] /\ cached \in BOOLEAN /\ watch \in Watcher
  /\ calls \in 0 .. MaxCalls /\ alive \in [Key -> SUBSET Id]
  /\ overrun \in SUBSET Id /\ applied \in [Id -> Nat] /\ told \in [Id -> Outcomes]

-----------------------------------------------------------------------------
(* What a revision stands for.                                             *)

\* The last records of the keys; there are none without the stream.
Records ==
  /\ stream.made >= 1
  /\ \A k \in Key :
       /\ stream.rec[k].rev <= stream.seq
       /\ stream.rec[k].rev = 0 => stream.rec[k] = Missing
       /\ stream.rec[k].live <=> stream.rec[k].val # {}
       /\ ~stream.exists => stream.rec[k].rev = 0

\* A revision of a key that was read in the stream made at that time: while it is
\* the key's last, the key has no writes but those of val.
Names(k, rev, made, val) ==
  /\ rev >= 1 /\ rev <= MaxCalls /\ made \in 1 .. stream.made
  /\ made = stream.made =>
       /\ rev <= stream.seq
       /\ stream.rec[k].rev = rev => stream.rec[k].val \subseteq val

\* A request expects nothing and replaces everything, expects no record, or
\* expects the revision of what it replaces.
Meant(m) ==
  /\ m.step # "idle"
  /\ m.step \in {"delete", "purge"} => m.val = {}
  /\ m.step \in {"put", "update", "create", "look", "again"} => m.val # {}
  /\ m.step \in {"create", "look"} => m.last = 0 /\ m.base = {} /\ m.made = 0
  /\ m.step \in Writes \ {"create"} =>
       \/ m.last = Unchecked /\ m.base = Id
       \/ Names(m.key, m.last, m.made, m.base)
  /\ m.empty => TRUE \in Empty

Sound(m) == m.id \in 1 .. calls /\ Meant(m)

Requests ==
  /\ \A m \in wire : Sound(m)
  /\ \A t \in Task : at[t] # Idle => Sound(at[t].req)

Entries ==
  \A t \in Task, k \in Key :
    entry[t][k] # NoEntry =>
      /\ entry[t][k].val # {}
      /\ Names(k, entry[t][k].rev, entry[t][k].made, entry[t][k].val)

\* A write is stored, refused for its revision or without a stream; create() is
\* told the revision of a record that has no value.
Replies ==
  \A t \in Task : \A r \in at[t].reply :
    /\ at[t].req.step \in Writes => r.kind \in {"ack", "wrong_last", "no_stream"}
    /\ r.kind = "deleted" => Names(at[t].req.key, r.rev, r.made, {})

Revisions == Types /\ Records /\ Requests /\ Entries /\ Replies

-----------------------------------------------------------------------------
(* A call has one request at a time, and none after it has stored.         *)

OneRequest ==
  /\ \A m, o \in wire : m.id = o.id => m = o
  /\ \A t, u \in Task : at[t] # Idle /\ at[u] # Idle /\ at[t].req.id = at[u].req.id => t = u
  /\ \A t \in Task : \A m \in wire :
       at[t] # Idle /\ m.id = at[t].req.id => m = at[t].req /\ at[t].reply = {}

\* Nothing is stored or told yet of a request that is under way.
UnderWay ==
  /\ \A m \in wire : applied[m.id] = 0 /\ told[m.id] \in {"nothing", "timeout"}
  /\ \A t \in Task : at[t] # Idle => told[at[t].req.id] = "nothing"
  /\ \A i \in Id : i > calls => applied[i] = 0 /\ told[i] = "nothing"

Answers ==
  \A t \in Task : \A r \in at[t].reply :
    applied[at[t].req.id] = IF at[t].req.step \in Writes /\ r.kind = "ack" THEN 1 ELSE 0

Once == OneRequest /\ UnderWay /\ Answers /\ AnswerTruthful

\* Every call stores one record at most and makes one stream at most.
Storing == {i \in Id : applied[i] = 1}
Spent == {i \in 1 .. calls :
            /\ \A m \in wire : m.id # i
            /\ \A t \in Task : at[t].req.id = i => at[t].req.step \notin {"create", "look", "key_value"}}
Bounded ==
  /\ stream.seq <= Cardinality(Storing) /\ stream.seq <= MaxCalls
  /\ stream.made <= 1 + Cardinality(Spent)

-----------------------------------------------------------------------------
(* What the watcher has yet to be told.                                    *)

Queued == 1 .. Len(watch.queue)
Pending(k) == {i \in Queued : watch.queue[i].rev # 0 /\ watch.queue[i].key = k}

Notes ==
  /\ watch.made <= stream.made /\ (watch.done => ~watch.on)
  /\ \A i \in Queued :
       /\ watch.queue[i].rev = 0 => watch.queue[i] = Marker
       /\ watch.queue[i].rev # 0 =>
            /\ watch.queue[i].val \in watch.seen[watch.queue[i].key] /\ ~watch.queue[i].empty
            /\ watch.queue[i].live <=> watch.queue[i].val # {}
  /\ \A k \in Key : ~stream.rec[k].empty
  /\ watch.on /\ watch.made = stream.made /\ stream.exists =>
       \A k \in Key : stream.rec[k].val \in watch.seen[k]

\* The last event of a key that is queued is its last record, and without one
\* the caller knows it.
Follows ==
  watch.on /\ ~watch.snapshot /\ watch.made = stream.made /\ stream.exists =>
    \A k \in Key : stream.rec[k].rev # 0 =>
      \/ Pending(k) = {} /\ watch.view[k] = stream.rec[k].val
      \/ \E i \in Pending(k) : /\ watch.queue[i] = Event(k, stream.rec[k])
                               /\ \A j \in Pending(k) : j <= i

\* Until the marker a key that has a value when the snapshot begins is known or comes.
Snapshots ==
  /\ watch.on /\ watch.snapshot =>
       \E p \in Queued :
         /\ watch.queue[p] = Marker /\ \A i \in 1 .. p - 1 : watch.queue[i].rev # 0
         /\ \A k \in Key : watch.view[k] \in watch.seen[k] \/ \E i \in Pending(k) : i < p
  /\ watch.done => \A k \in Key : watch.view[k] \in watch.seen[k]

Viewed == Notes /\ Follows /\ Snapshots

-----------------------------------------------------------------------------
(* What the steps do.                                                      *)

LEMMA IdsAre ==
  /\ MaxCalls \in Nat /\ Id \subseteq Nat /\ IsFiniteSet(Key) /\ Key # {}
  /\ Watches \subseteq BOOLEAN /\ Ttl \subseteq BOOLEAN /\ Empty \subseteq BOOLEAN
  /\ \A i \in Id : i >= 1 /\ i <= MaxCalls
<1>1. QED
  BY BucketConstants DEF Id

LEMMA SomeKey == (CHOOSE k \in Key : TRUE) \in Key
<1>1. QED
  BY BucketConstants

\* The fields of a request.
LEMMA RequestIs ==
  ASSUME NEW id \in Nat, NEW step \in Steps, NEW k \in Key, NEW last \in Int,
         NEW base \in SUBSET Id, NEW val \in SUBSET Id
  PROVE  /\ Request(id, step, k, last, base, val) \in Message
         /\ Request(id, step, k, last, base, val).id = id
         /\ Request(id, step, k, last, base, val).made = 0
<1>1. QED
  BY DEF Request, Message

LEMMA IdleIs ==
  /\ NoRequest \in Message /\ Idle \in State /\ NoEntry \in Entry /\ Missing \in Record
  /\ Idle.req = NoRequest /\ Idle.reply = {} /\ NoRequest.id = 0 /\ NoRequest.step = "idle"
<1>1. {} \in SUBSET Id /\ "idle" \in Steps
  BY DEF Steps
<1>2. NoRequest \in Message
  BY <1>1, SomeKey, RequestIs DEF NoRequest
<1>3. NoRequest.id = 0 /\ NoRequest.step = "idle"
  BY DEF NoRequest, Request
<1>4. Idle \in State /\ Idle.req = NoRequest /\ Idle.reply = {}
  BY <1>2 DEF Idle, State
<1>5. NoEntry \in Entry /\ Missing \in Record
  BY DEF NoEntry, Entry, Missing, Record
<1>6. QED
  BY <1>2, <1>3, <1>4, <1>5

\* A call that does not just read sends a request with the next identity.
LEMMA CallBegins ==
  ASSUME Types, Entries, NEW t \in Task, Call(t)
  PROVE  \/ \E k \in Key : GetEntry(t, k)
         \/ \E m \in Message : Begin(t, m) /\ m.id = calls + 1 /\ Meant(m) /\ cached' \in BOOLEAN
<1> DEFINE Goal == \E m \in Message : Begin(t, m) /\ m.id = calls + 1 /\ Meant(m) /\ cached' \in BOOLEAN
<1>1. /\ calls \in Nat /\ cached \in BOOLEAN /\ {} \in SUBSET Id /\ Id \in SUBSET Id
      /\ 0 \in Int /\ Unchecked \in Int
      /\ \A k \in Key : entry[t][k] \in Entry
  BY IdsAre DEF Types, Unchecked
<1>2. \A m : Begin(t, m) => calls + 1 \in Id /\ {calls + 1} \in SUBSET Id /\ calls + 1 \in Nat
  BY <1>1, IdsAre DEF Begin, Id
<1>3. \A k \in Key, ttl \in Ttl : ttl \in BOOLEAN
  BY IdsAre
<1>4. ASSUME NEW k \in Key, Put(t, k) PROVE Goal
  <2>1. PICK ttl \in Ttl, empty \in Empty :
          /\ Begin(t, [Request(calls + 1, "put", k, Unchecked, Id, {calls + 1})
                         EXCEPT !.ttl = ttl, !.empty = empty])
          /\ UNCHANGED cached
    BY <1>4 DEF Put
  <2> DEFINE q == Request(calls + 1, "put", k, Unchecked, Id, {calls + 1})
             m == [q EXCEPT !.ttl = ttl, !.empty = empty]
  <2>2. calls + 1 \in Nat /\ {calls + 1} \in SUBSET Id
    BY <1>2, <2>1
  <2>3. ttl \in BOOLEAN /\ empty \in BOOLEAN
    BY IdsAre
  <2>4. m \in Message
    <3>1. q \in Message
      BY <1>1, <2>2, RequestIs DEF Steps
    <3> HIDE DEF q
    <3>2. QED
      BY <2>3, <3>1 DEF Message
  <2>5. m.id = calls + 1 /\ m.step = "put" /\ m.val = {calls + 1} /\ m.last = Unchecked /\ m.base = Id
        /\ m.empty = empty
    BY DEF Request
  <2>6. Meant(m)
    BY <2>5, IdsAre DEF Meant, Writes
  <2> HIDE DEF m
  <2>7. QED
    BY <1>1, <2>1, <2>4, <2>5, <2>6 DEF m
<1>5. ASSUME NEW k \in Key, NEW e, e = entry[t][k], e # NoEntry
      PROVE  /\ e.rev \in Nat /\ e.val \in SUBSET Id /\ e.made \in Nat
             /\ e.val # {} /\ Names(k, e.rev, e.made, e.val)
  <2>1. e \in Entry
    BY <1>1, <1>5
  <2>2. QED
    BY <1>5, <2>1 DEF Entry, Entries
<1>6. ASSUME NEW k \in Key, Update(t, k) PROVE Goal
  <2> DEFINE e == entry[t][k]
  <2>1. PICK ttl \in Ttl :
          /\ e # NoEntry
          /\ Begin(t, [Request(calls + 1, "update", k, e.rev, e.val, e.val \cup {calls + 1})
                         EXCEPT !.ttl = ttl, !.made = e.made])
          /\ UNCHANGED cached
    BY <1>6 DEF Update
  <2>2. /\ e.rev \in Nat /\ e.val \in SUBSET Id /\ e.made \in Nat
        /\ e.val # {} /\ Names(k, e.rev, e.made, e.val)
    BY <1>5, <2>1
  <2> DEFINE q == Request(calls + 1, "update", k, e.rev, e.val, e.val \cup {calls + 1})
             m == [q EXCEPT !.ttl = ttl, !.made = e.made]
  <2> HIDE DEF e
  <2>3. calls + 1 \in Nat /\ e.val \cup {calls + 1} \in SUBSET Id /\ ttl \in BOOLEAN
    BY <1>2, <2>1, <2>2, IdsAre
  <2>4. m \in Message
    <3>1. q \in Message
      BY <2>2, <2>3, RequestIs DEF Steps
    <3> HIDE DEF q
    <3>2. QED
      BY <2>2, <2>3, <3>1 DEF Message
  <2>5. m.id = calls + 1 /\ m.step = "update" /\ m.val = e.val \cup {calls + 1} /\ m.last = e.rev
        /\ m.base = e.val /\ m.made = e.made /\ m.key = k /\ m.empty = FALSE
    BY DEF Request
  <2>6. Meant(m)
    BY <2>2, <2>5 DEF Meant, Writes
  <2> HIDE DEF m
  <2>7. QED
    BY <1>1, <2>1, <2>4, <2>5, <2>6 DEF m
<1>7. ASSUME NEW k \in Key, Create(t, k) PROVE Goal
  <2>1. PICK ttl \in Ttl :
          /\ Begin(t, [Request(calls + 1, "create", k, 0, {}, {calls + 1}) EXCEPT !.ttl = ttl])
          /\ UNCHANGED cached
    BY <1>7 DEF Create
  <2> DEFINE q == Request(calls + 1, "create", k, 0, {}, {calls + 1})
             m == [q EXCEPT !.ttl = ttl]
  <2>2. calls + 1 \in Nat /\ {calls + 1} \in SUBSET Id /\ ttl \in BOOLEAN
    BY <1>2, <2>1, IdsAre
  <2>4. m \in Message
    BY <1>1, <2>2 DEF Message, Steps, Request
  <2>5. m.id = calls + 1 /\ m.step = "create" /\ m.val = {calls + 1} /\ m.last = 0 /\ m.base = {}
        /\ m.made = 0 /\ m.empty = FALSE
    BY DEF Request
  <2>6. Meant(m)
    BY <2>5 DEF Meant, Writes
  <2> HIDE DEF m
  <2>7. QED
    BY <1>1, <2>1, <2>4, <2>5, <2>6 DEF m
<1>8. ASSUME NEW k \in Key, NEW step \in {"delete", "purge"},
             Begin(t, Request(calls + 1, step, k, Unchecked, Id, {})), UNCHANGED cached
      PROVE  Goal
  <2> DEFINE m == Request(calls + 1, step, k, Unchecked, Id, {})
  <2>1. calls + 1 \in Nat
    BY <1>1
  <2>4. m \in Message
    BY <1>1, <2>1, RequestIs DEF Steps
  <2>5. m.id = calls + 1 /\ m.step = step /\ m.val = {} /\ m.last = Unchecked /\ m.base = Id
        /\ m.empty = FALSE
    BY DEF Request
  <2>6. Meant(m)
    BY <2>5 DEF Meant, Writes
  <2> HIDE DEF m
  <2>7. QED
    BY <1>1, <1>8, <2>4, <2>5, <2>6 DEF m
<1>9. ASSUME NEW k \in Key, Delete(t, k) PROVE Goal
  <2> DEFINE e == entry[t][k]
  <2>1. CASE Begin(t, Request(calls + 1, "delete", k, Unchecked, Id, {})) /\ UNCHANGED cached
    BY <1>8, <2>1
  <2>2. CASE /\ e # NoEntry
             /\ Begin(t, [Request(calls + 1, "delete", k, e.rev, e.val, {}) EXCEPT !.made = e.made])
             /\ UNCHANGED cached
    <3>2. /\ e.rev \in Nat /\ e.val \in SUBSET Id /\ e.made \in Nat
          /\ e.val # {} /\ Names(k, e.rev, e.made, e.val)
      BY <1>5, <2>2
    <3> DEFINE q == Request(calls + 1, "delete", k, e.rev, e.val, {})
               m == [q EXCEPT !.made = e.made]
    <3> HIDE DEF e
    <3>3. calls + 1 \in Nat
      BY <1>1
    <3>4. m \in Message
      <4>1. q \in Message
        BY <1>1, <3>2, <3>3, RequestIs DEF Steps
      <4> HIDE DEF q
      <4>2. QED
        BY <3>2, <4>1 DEF Message
    <3>5. m.id = calls + 1 /\ m.step = "delete" /\ m.val = {} /\ m.last = e.rev
          /\ m.base = e.val /\ m.made = e.made /\ m.key = k /\ m.empty = FALSE
      BY DEF Request
    <3>6. Meant(m)
      BY <3>2, <3>5 DEF Meant, Writes
    <3> HIDE DEF m
    <3>7. QED
      BY <1>1, <2>2, <3>4, <3>5, <3>6 DEF m
  <2>3. QED
    BY <1>9, <2>1, <2>2 DEF Delete
<1>10. ASSUME NEW k \in Key, Purge(t, k) PROVE Goal
  BY <1>8, <1>10 DEF Purge
<1>11. ASSUME NEW step \in {"key_value", "delete_key_value"}, NEW ttl \in BOOLEAN,
              Begin(t, [Request(calls + 1, step, NoRequest.key, Unchecked, {}, {}) EXCEPT !.ttl = ttl]),
              cached' \in BOOLEAN
       PROVE  Goal
  <2> DEFINE q == Request(calls + 1, step, NoRequest.key, Unchecked, {}, {})
             m == [q EXCEPT !.ttl = ttl]
  <2>1. calls + 1 \in Nat /\ NoRequest.key \in Key
    BY <1>1, IdleIs DEF Message
  <2>4. m \in Message
    BY <1>1, <2>1 DEF Message, Steps, Request
  <2>5. m.id = calls + 1 /\ m.step = step /\ m.empty = FALSE
    <3>1. q.id = calls + 1 /\ q.step = step /\ q.empty = FALSE
      BY DEF Request
    <3>2. q \in Message
      BY <1>1, <2>1, RequestIs DEF Steps
    <3> HIDE DEF q
    <3>3. QED
      BY <3>1, <3>2 DEF Message
  <2>6. Meant(m)
    BY <2>5 DEF Meant, Writes
  <2> HIDE DEF m
  <2>7. QED
    BY <1>11, <2>4, <2>5, <2>6 DEF m
<1>12. ASSUME Open(t) PROVE Goal
  BY <1>1, <1>11, <1>12, IdsAre DEF Open
<1>13. ASSUME DeleteBucket(t) PROVE Goal
  <2> DEFINE q == Request(calls + 1, "delete_key_value", NoRequest.key, Unchecked, {}, {})
  <2>1. q = [q EXCEPT !.ttl = FALSE]
    <3>1. q.ttl = FALSE
      BY DEF Request
    <3>2. calls + 1 \in Nat /\ NoRequest.key \in Key
      BY <1>1, IdleIs DEF Message
    <3>3. q \in Message
      BY <1>1, <3>2, RequestIs DEF Steps
    <3> HIDE DEF q
    <3>4. QED
      BY <3>1, <3>3 DEF Message
  <2>2. Begin(t, q) /\ cached' = FALSE
    BY <1>13 DEF DeleteBucket
  <2>3. QED
    BY <1>11, <2>1, <2>2
<1>14. QED
  BY <1>4, <1>6, <1>7, <1>9, <1>10, <1>12, <1>13 DEF Call

\* Resume and Timeout end a call, or send its next request.
Ends(t, what) == at[t] # Idle /\ Return(t, what)
GoesOn(t, m) ==
  /\ Ask(t, m) /\ UNCHANGED told
  /\ at[t] # Idle /\ at[t].reply # {}
  /\ m \in Message /\ m.id = at[t].req.id /\ Meant(m)
  /\ \/ at[t].req.step = "create" /\ \E r \in at[t].reply : r.kind # "ack"
     \/ at[t].req.step \in {"look", "key_value"}

LEMMA ResumeDoes ==
  ASSUME Types, Requests, Replies, NEW t \in Task, Resume(t)
  PROVE  /\ UNCHANGED <<server, watch, calls, entry>> /\ cached' \in BOOLEAN
         /\ \/ \E m \in Message : GoesOn(t, m)
            \/ \E what \in Outcomes \ {"nothing"} :
                 /\ Ends(t, what)
                 /\ \E r \in at[t].reply :
                      /\ what = "stored" => at[t].req.step \in Writes /\ r.kind = "ack"
                      /\ what = "conflict" => ~(at[t].req.step \in Writes /\ r.kind = "ack")
<1> DEFINE q == at[t].req
<1>1. PICK r \in at[t].reply :
        /\ Written(t, r) \/ Created(t, r) \/ Looked(t, r) \/ Opened(t, r) \/ BucketDeleted(t, r)
        /\ UNCHANGED <<server, watch, calls>>
  BY DEF Resume
<1>2. at[t] \in State /\ at[t] # Idle /\ at[t].reply # {} /\ q \in Message /\ r \in Answered /\ cached \in BOOLEAN
  BY <1>1, IdleIs DEF Types, State
<1>3. Meant(q)
  BY <1>2 DEF Requests, Sound
<1> DEFINE Goal ==
      \/ \E m \in Message : GoesOn(t, m)
      \/ \E what \in Outcomes \ {"nothing"} :
           /\ Ends(t, what)
           /\ \E o \in at[t].reply :
                /\ what = "stored" => at[t].req.step \in Writes /\ o.kind = "ack"
                /\ what = "conflict" => ~(at[t].req.step \in Writes /\ o.kind = "ack")
<1>4. ASSUME NEW what \in Outcomes \ {"nothing"}, Return(t, what),
             what = "stored" => at[t].req.step \in Writes /\ r.kind = "ack",
             what = "conflict" => ~(at[t].req.step \in Writes /\ r.kind = "ack")
      PROVE  Goal
  BY <1>2, <1>4 DEF Ends
<1>5. ASSUME Written(t, r) PROVE Goal /\ UNCHANGED <<entry, cached>>
  <2>1. q.step \in {"put", "update", "delete", "purge", "again"} /\ UNCHANGED <<entry, cached>>
    BY <1>5 DEF Written
  <2> DEFINE what == CASE r.kind = "ack" -> "stored" [] r.kind = "wrong_last" -> "conflict"
                       [] r.kind = "no_stream" -> "failed"
  <2>2. Return(t, what)
    BY <1>5 DEF Written
  <2>3. q.step \in Writes
    BY <2>1 DEF Writes
  <2>4. r.kind \in {"ack", "wrong_last", "no_stream"}
    BY <1>2, <2>3 DEF Replies
  <2>5. what \in Outcomes \ {"nothing"} /\ (what = "stored" => r.kind = "ack") /\ (what = "conflict" => r.kind # "ack")
    <3>1. CASE r.kind = "ack"
      BY <3>1 DEF Outcomes
    <3>2. CASE r.kind = "wrong_last"
      BY <3>2 DEF Outcomes
    <3>3. CASE r.kind = "no_stream"
      BY <3>3 DEF Outcomes
    <3>4. QED
      BY <2>4, <3>1, <3>2, <3>3
  <2> HIDE DEF what
  <2>6. QED
    BY <1>4, <2>1, <2>2, <2>3, <2>5
<1>6. ASSUME NEW m, Ask(t, m), UNCHANGED told, m \in Message, m.id = q.id, Meant(m),
             \/ q.step = "create" /\ r.kind # "ack"
             \/ q.step \in {"look", "key_value"}
      PROVE  Goal
  BY <1>2, <1>6 DEF GoesOn
<1> HIDE DEF Goal
<1>7. ASSUME Created(t, r) PROVE Goal /\ UNCHANGED <<entry, cached>>
  <2>1. q.step = "create" /\ UNCHANGED <<entry, cached>>
    BY <1>7 DEF Created
  <2>2. CASE r.kind = "wrong_last"
    <3> DEFINE m == [q EXCEPT !.step = "look"]
    <3>1. Ask(t, m) /\ UNCHANGED told
      BY <1>7, <2>2 DEF Created
    <3>2. m \in Message /\ m.id = q.id /\ m.step = "look" /\ m.val = q.val /\ m.last = q.last
          /\ m.base = q.base /\ m.made = q.made /\ m.empty = q.empty /\ m.key = q.key
      BY <1>2 DEF Message, Steps
    <3> HIDE DEF m
    <3>3. Meant(m)
      BY <1>3, <2>1, <3>2 DEF Meant, Writes
    <3>4. QED
      BY <1>6, <2>1, <2>2, <3>1, <3>2, <3>3
  <2>3. CASE r.kind # "wrong_last"
    <3>1. Return(t, IF r.kind = "ack" THEN "stored" ELSE "failed")
      BY <1>7, <2>3 DEF Created
    <3>2. CASE r.kind = "ack"
      BY <1>4, <2>1, <3>1, <3>2 DEF Outcomes, Writes
    <3>3. CASE r.kind # "ack"
      <4>1. Return(t, "failed")
        BY <3>1, <3>3
      <4>2. QED
        BY <1>4, <2>1, <4>1 DEF Outcomes
    <3>4. QED
      BY <3>2, <3>3
  <2>4. QED
    BY <2>1, <2>2, <2>3
<1>8. ASSUME Looked(t, r) PROVE Goal /\ UNCHANGED <<entry, cached>>
  <2>1. q.step = "look" /\ UNCHANGED <<entry, cached>>
    BY <1>8 DEF Looked
  <2>2. CASE r.kind = "deleted"
    <3> DEFINE m == [q EXCEPT !.step = "again", !.last = r.rev, !.made = r.made]
    <3>1. Ask(t, m) /\ UNCHANGED told
      BY <1>8, <2>2 DEF Looked
    <3>2. r.rev \in Nat /\ r.made \in Nat /\ Names(q.key, r.rev, r.made, {})
      BY <1>2, <2>2 DEF Answered, Replies
    <3>3. m \in Message /\ m.id = q.id /\ m.step = "again" /\ m.val = q.val /\ m.last = r.rev
          /\ m.base = q.base /\ m.made = r.made /\ m.empty = q.empty /\ m.key = q.key
      <4>1. "again" \in Steps /\ r.rev \in Int
        BY <3>2 DEF Steps
      <4>2. QED
        BY <1>2, <3>2, <4>1 DEF Message
    <3> HIDE DEF m
    <3>4. Meant(m)
      BY <1>3, <2>1, <3>2, <3>3 DEF Meant, Writes
    <3>5. QED
      BY <1>6, <2>1, <3>1, <3>3, <3>4
  <2>3. CASE r.kind # "deleted"
    <3>1. Return(t, IF r.kind = "found" THEN "conflict" ELSE "failed")
      BY <1>8, <2>3 DEF Looked
    <3>2. q.step \notin Writes
      BY <2>1 DEF Writes
    <3>3. CASE r.kind = "found"
      <4>1. Return(t, "conflict")
        BY <3>1, <3>3
      <4>2. QED
        BY <1>4, <2>1, <3>2, <4>1 DEF Outcomes
    <3>4. CASE r.kind # "found"
      <4>1. Return(t, "failed")
        BY <3>1, <3>4
      <4>2. QED
        BY <1>4, <2>1, <4>1 DEF Outcomes
    <3>5. QED
      BY <3>3, <3>4
  <2>4. QED
    BY <2>1, <2>2, <2>3
<1>9. ASSUME Opened(t, r) PROVE Goal /\ UNCHANGED entry /\ cached' \in BOOLEAN
  <2>1. q.step \in {"key_value", "create_key_value"} /\ UNCHANGED entry
    BY <1>9 DEF Opened
  <2>2. CASE q.step = "key_value" /\ r.kind = "no_stream"
    <3> DEFINE m == [q EXCEPT !.step = "create_key_value"]
    <3>1. (Ask(t, m) /\ UNCHANGED told) \/ Return(t, "failed")
      BY <1>9, <2>2 DEF Opened
    <3>2. m \in Message /\ m.id = q.id /\ m.step = "create_key_value" /\ m.empty = q.empty
      BY <1>2 DEF Message, Steps
    <3> HIDE DEF m
    <3>3. Meant(m)
      BY <1>3, <3>2 DEF Meant, Writes
    <3>4. Ask(t, m) /\ UNCHANGED told => Goal
      BY <1>6, <2>2, <3>2, <3>3
    <3>5. Return(t, "failed") => Goal
      BY <1>4 DEF Outcomes
    <3>6. cached' = cached
      BY <1>9, <2>2 DEF Opened
    <3>7. QED
      BY <1>2, <2>1, <3>1, <3>4, <3>5, <3>6
  <2>3. CASE ~(q.step = "key_value" /\ r.kind = "no_stream")
    <3>1. Return(t, IF r.kind = "ack" THEN "done" ELSE "failed") /\ cached' \in BOOLEAN
      BY <1>9, <2>3 DEF Opened
    <3>2. CASE r.kind = "ack"
      <4>1. Return(t, "done")
        BY <3>1, <3>2
      <4>2. QED
        BY <1>4, <2>1, <3>1, <4>1 DEF Outcomes
    <3>3. CASE r.kind # "ack"
      <4>1. Return(t, "failed")
        BY <3>1, <3>3
      <4>2. QED
        BY <1>4, <2>1, <3>1, <4>1 DEF Outcomes
    <3>4. QED
      BY <3>2, <3>3
  <2>4. QED
    BY <2>2, <2>3
<1>10. ASSUME BucketDeleted(t, r) PROVE Goal /\ UNCHANGED <<entry, cached>>
  <2>1. Return(t, IF r.kind = "ack" THEN "done" ELSE "failed") /\ UNCHANGED <<entry, cached>>
    BY <1>10 DEF BucketDeleted
  <2>2. CASE r.kind = "ack"
    BY <1>4, <2>1, <2>2 DEF Outcomes
  <2>3. CASE r.kind # "ack"
    BY <1>4, <2>1, <2>3 DEF Outcomes
  <2>4. QED
    BY <2>1, <2>2, <2>3
<1>11. Goal /\ UNCHANGED entry /\ cached' \in BOOLEAN
  BY <1>1, <1>2, <1>5, <1>7, <1>8, <1>9, <1>10
<1>12. QED
  BY <1>1, <1>11 DEF Goal

\* What the server does with a request: what it answers, and what changes.
Fits(m, r) ==
  /\ r \in Answered
  /\ m.step \in Writes => r.kind \in {"ack", "wrong_last", "no_stream"}
  /\ r.kind = "deleted" => Names(m.key, r.rev, r.made, {})

Stores(m, r) ==
  /\ m.step \in Writes /\ stream.exists
  /\ m.last \in {Unchecked, stream.rec[m.key].rev}
  /\ r = [rev |-> stream.seq + 1, val |-> m.val, live |-> m.step \notin {"delete", "purge"},
          ttl |-> m.ttl, empty |-> m.empty]
  /\ stream' = [stream EXCEPT !.seq = @ + 1, !.rec[m.key] = r]
  /\ alive' = [alive EXCEPT ![m.key] = Intended(m)]
  /\ overrun' = IF Outdated(m) THEN overrun \cup (Intended(m) \ m.val) ELSE overrun
  /\ applied' = [applied EXCEPT ![m.id] = @ + 1]
  /\ Publish(m.key, r)
  /\ Answer(m, Reply("ack", r))

Makes(m) ==
  /\ m.step = "create_key_value" /\ ~stream.exists
  /\ stream' = [exists |-> TRUE, made |-> stream.made + 1, seq |-> 0, ttl |-> m.ttl,
                rec |-> [k \in Key |-> Missing]]
  /\ UNCHANGED <<alive, overrun, applied, watch>>

Deletes(m) ==
  /\ m.step = "delete_key_value"
  /\ stream' = [stream EXCEPT !.exists = FALSE, !.rec = [k \in Key |-> Missing]]
  /\ alive' = [k \in Key |-> {}] /\ UNCHANGED <<overrun, applied>>
  /\ Vanish(Key)

LEMMA ReplyIs ==
  ASSUME Types, NEW kind \in Kinds, NEW r \in Record
  PROVE  /\ Reply(kind, r) \in Answered /\ Reply(kind, r).kind = kind
         /\ Reply(kind, r).rev = r.rev /\ Reply(kind, r).made = stream.made
<1>1. stream.made \in Nat /\ r.rev \in Nat /\ r.val \in SUBSET Id
  BY DEF Types, Stream, Record
<1>2. QED
  BY <1>1 DEF Reply, Answered

LEMMA StreamIs ==
  ASSUME Types
  PROVE  /\ stream.exists \in BOOLEAN /\ stream.made \in Nat /\ stream.seq \in Nat /\ stream.ttl \in BOOLEAN
         /\ stream.rec \in [Key -> Record]
         /\ \A k \in Key : /\ stream.rec[k] \in Record /\ stream.rec[k].rev \in Nat
                           /\ stream.rec[k].val \in SUBSET Id /\ stream.rec[k].live \in BOOLEAN
                           /\ stream.rec[k].empty \in BOOLEAN
<1>1. stream.rec \in [Key -> Record] /\ stream.exists \in BOOLEAN /\ stream.made \in Nat
      /\ stream.seq \in Nat /\ stream.ttl \in BOOLEAN
  BY DEF Types, Stream
<1>2. QED
  BY <1>1 DEF Record

LEMMA MessageIs ==
  ASSUME Types, NEW m \in wire
  PROVE  /\ m \in Message /\ m.id \in Nat /\ m.step \in Steps /\ m.key \in Key /\ m.last \in Int
         /\ m.base \in SUBSET Id /\ m.val \in SUBSET Id /\ m.ttl \in BOOLEAN /\ m.empty \in BOOLEAN
         /\ m.made \in Nat
<1>1. m \in Message
  BY DEF Types
<1>2. QED
  BY <1>1 DEF Message

LEMMA ServeDoes ==
  ASSUME Types, Records, Bounded, Requests, Serve
  PROVE  \E m \in wire :
           /\ wire' = wire \ {m} /\ UNCHANGED <<entry, cached, calls, told>>
           /\ \E r \in Answered : Fits(m, r) /\ Answer(m, r)
           /\ \/ /\ UNCHANGED <<server, watch>>
                 /\ \E r \in Answered : Answer(m, r) /\ Fits(m, r) /\ (m.step \in Writes => r.kind # "ack")
              \/ \E r \in Record : Stores(m, r)
              \/ Makes(m)
              \/ Deletes(m)
<1>1. PICK m \in wire : /\ wire' = wire \ {m} /\ UNCHANGED <<entry, cached, calls, told>>
                        /\ Store(m) \/ Lookup(m) \/ Manage(m)
  BY DEF Serve
<1> DEFINE Goal ==
      /\ \E r \in Answered : Fits(m, r) /\ Answer(m, r)
      /\ \/ /\ UNCHANGED <<server, watch>>
            /\ \E r \in Answered : Answer(m, r) /\ Fits(m, r) /\ (m.step \in Writes => r.kind # "ack")
         \/ \E r \in Record : Stores(m, r)
         \/ Makes(m)
         \/ Deletes(m)
<1>2. Missing \in Record
  BY IdleIs
<1>3. ASSUME NEW kind \in Kinds, NEW r \in Record, kind # "deleted",
             m.step \in Writes => kind \in {"ack", "wrong_last", "no_stream"}
      PROVE  Reply(kind, r) \in Answered /\ Fits(m, Reply(kind, r)) /\ Reply(kind, r).kind = kind
  BY <1>3, ReplyIs DEF Fits
<1>4. ASSUME NEW kind \in Kinds, NEW r \in Record, kind # "deleted",
             m.step \in Writes => kind \in {"wrong_last", "no_stream"},
             UNCHANGED <<server, watch>>, Answer(m, Reply(kind, r))
      PROVE  Goal
  <2>1. Reply(kind, r) \in Answered /\ Fits(m, Reply(kind, r)) /\ Reply(kind, r).kind = kind
    BY <1>3, <1>4
  <2>2. m.step \in Writes => Reply(kind, r).kind # "ack"
    BY <1>4, <2>1
  <2>3. QED
    BY <1>4, <2>1, <2>2
<1>10. ASSUME NEW a \in Answered, Answer(m, a), Fits(m, a),
              (\E r \in Record : Stores(m, r)) \/ Makes(m) \/ Deletes(m)
       PROVE  Goal
  BY <1>10
<1>11. ASSUME NEW a \in Answered, Answer(m, a), Fits(m, a), UNCHANGED <<server, watch>>,
              m.step \in Writes => a.kind # "ack"
       PROVE  Goal
  BY <1>11
<1>12. SUFFICES Goal
  BY <1>1
<1> HIDE DEF Goal
<1>5. CASE Store(m)
  <2>1. m.step \in Writes
    BY <1>5 DEF Store
  <2>2. CASE ~stream.exists
    <3>1. Answer(m, Reply("no_stream", Missing)) /\ UNCHANGED <<server, watch>>
      BY <1>5, <2>2 DEF Store
    <3>2. QED
      BY <1>2, <1>4, <3>1 DEF Kinds
  <2>3. CASE stream.exists /\ m.last \notin {Unchecked, stream.rec[m.key].rev}
    <3>1. Answer(m, Reply("wrong_last", Missing)) /\ UNCHANGED <<server, watch>>
      BY <1>5, <2>3 DEF Store
    <3>2. QED
      BY <1>2, <1>4, <3>1 DEF Kinds
  <2>4. CASE stream.exists /\ m.last \in {Unchecked, stream.rec[m.key].rev}
    <3> DEFINE r == [rev |-> stream.seq + 1, val |-> m.val, live |-> m.step \notin {"delete", "purge"},
                     ttl |-> m.ttl, empty |-> m.empty]
    <3>1. Stores(m, r)
      BY <1>5, <2>1, <2>4 DEF Store, Stores
    <3>2. r \in Record
      BY StreamIs, MessageIs DEF Record
    <3> HIDE DEF r
    <3>3. Answer(m, Reply("ack", r)) /\ Reply("ack", r) \in Answered /\ Fits(m, Reply("ack", r))
      BY <1>3, <3>1, <3>2 DEF Kinds, Stores
    <3>4. QED
      BY <1>10, <3>1, <3>2, <3>3
  <2>5. QED
    BY <2>2, <2>3, <2>4
<1>6. CASE Lookup(m)
  <2> DEFINE r == stream.rec[m.key]
             a == CASE ~stream.exists -> Reply("no_stream", Missing)
                    [] stream.exists /\ r.rev = 0 -> Reply("none", r)
                    [] r.rev # 0 /\ ~r.live -> Reply("deleted", r)
                    [] r.rev # 0 /\ r.live -> Reply("found", r)
  <2>1. m.step = "look" /\ Answer(m, a) /\ UNCHANGED <<server, watch>>
    BY <1>6 DEF Lookup
  <2>2. m.step \notin Writes
    BY <2>1 DEF Writes
  <2>3. r \in Record /\ m.key \in Key /\ (~stream.exists => r.rev = 0)
    BY StreamIs, MessageIs DEF Records
  <2>4. CASE ~stream.exists
    <3>1. Answer(m, Reply("no_stream", Missing))
      BY <2>1, <2>3, <2>4
    <3>2. QED
      BY <1>2, <1>4, <2>1, <2>2, <3>1 DEF Kinds
  <2>5. CASE stream.exists /\ r.rev = 0
    <3>1. Answer(m, Reply("none", r))
      BY <2>1, <2>5
    <3>2. QED
      BY <1>4, <2>1, <2>2, <2>3, <3>1 DEF Kinds
  <2>6. CASE r.rev # 0 /\ ~r.live
    <3>1. a = Reply("deleted", r)
      BY <2>3, <2>6
    <3>2. a \in Answered /\ a.kind = "deleted" /\ a.rev = r.rev /\ a.made = stream.made
      BY <2>3, <3>1, ReplyIs DEF Kinds
    <3>3. Names(m.key, a.rev, a.made, {})
      <4>1. r.rev >= 1 /\ r.rev <= stream.seq /\ r.val = {} /\ stream.made >= 1
        BY <2>3, <2>6, StreamIs DEF Records
      <4>2. stream.seq <= MaxCalls
        BY DEF Bounded
      <4>3. QED
        BY <2>3, <3>2, <4>1, <4>2, StreamIs, IdsAre DEF Names
    <3>4. Fits(m, a) /\ (m.step \in Writes => a.kind # "ack")
      BY <2>2, <3>2, <3>3 DEF Fits
    <3> HIDE DEF a
    <3>5. QED
      BY <1>11, <2>1, <3>2, <3>4
  <2>7. CASE r.rev # 0 /\ r.live
    <3>1. Answer(m, Reply("found", r))
      BY <2>1, <2>3, <2>7
    <3>2. QED
      BY <1>4, <2>1, <2>2, <2>3, <3>1 DEF Kinds
  <2>8. r.live \in BOOLEAN
    BY <2>3 DEF Record
  <2>9. QED
    BY <2>3, <2>4, <2>5, <2>6, <2>7, <2>8, StreamIs
<1>7. CASE Manage(m)
  <2>1. CASE /\ m.step = "key_value"
             /\ Answer(m, Reply(IF stream.exists THEN "ack" ELSE "no_stream", Missing))
             /\ UNCHANGED <<server, watch>>
    <3>1. m.step \notin Writes
      BY <2>1 DEF Writes
    <3>2. CASE stream.exists
      <4>1. Answer(m, Reply("ack", Missing))
        BY <2>1, <3>2
      <4>2. QED
        BY <1>2, <1>4, <2>1, <3>1, <4>1 DEF Kinds
    <3>3. CASE ~stream.exists
      <4>1. Answer(m, Reply("no_stream", Missing))
        BY <2>1, <3>3
      <4>2. QED
        BY <1>2, <1>4, <2>1, <3>1, <4>1 DEF Kinds
    <3>4. QED
      BY <3>2, <3>3
  <2>2. CASE /\ m.step = "create_key_value"
             /\ Answer(m, Reply(IF stream.exists /\ stream.ttl # m.ttl THEN "refused" ELSE "ack", Missing))
             /\ stream' = IF stream.exists THEN stream
                          ELSE [exists |-> TRUE, made |-> stream.made + 1, seq |-> 0, ttl |-> m.ttl,
                                rec |-> [k \in Key |-> Missing]]
             /\ UNCHANGED <<alive, overrun, applied, watch>>
    <3>1. m.step \notin Writes
      BY <2>2 DEF Writes
    <3>2. CASE stream.exists
      <4>1. UNCHANGED <<server, watch>>
        BY <2>2, <3>2 DEF server
      <4>2. CASE stream.ttl # m.ttl
        <5>1. Answer(m, Reply("refused", Missing))
          BY <2>2, <3>2, <4>2
        <5>2. QED
          BY <1>2, <1>4, <3>1, <4>1, <5>1 DEF Kinds
      <4>3. CASE stream.ttl = m.ttl
        <5>1. Answer(m, Reply("ack", Missing))
          BY <2>2, <3>2, <4>3
        <5>2. QED
          BY <1>2, <1>4, <3>1, <4>1, <5>1 DEF Kinds
      <4>4. QED
        BY <4>2, <4>3
    <3>3. CASE ~stream.exists
      <4>1. Makes(m)
        BY <2>2, <3>3 DEF Makes
      <4>2. Answer(m, Reply("ack", Missing))
        BY <2>2, <3>3
      <4>3. Reply("ack", Missing) \in Answered /\ Fits(m, Reply("ack", Missing))
        BY <1>2, <1>3, <3>1 DEF Kinds
      <4>4. QED
        BY <1>10, <4>1, <4>2, <4>3
    <3>4. QED
      BY <3>2, <3>3
  <2>3. CASE /\ m.step = "delete_key_value"
             /\ Answer(m, Reply(IF stream.exists THEN "ack" ELSE "no_stream", Missing))
             /\ stream' = [stream EXCEPT !.exists = FALSE, !.rec = [k \in Key |-> Missing]]
             /\ alive' = [k \in Key |-> {}]
             /\ Vanish(Key)
             /\ UNCHANGED <<overrun, applied>>
    <3>1. m.step \notin Writes
      BY <2>3 DEF Writes
    <3>2. Deletes(m)
      BY <2>3 DEF Deletes
    <3> DEFINE kind == IF stream.exists THEN "ack" ELSE "no_stream"
    <3>3. kind \in Kinds /\ kind # "deleted"
      BY DEF Kinds
    <3>4. Answer(m, Reply(kind, Missing))
      BY <2>3
    <3> HIDE DEF kind
    <3>5. Reply(kind, Missing) \in Answered /\ Fits(m, Reply(kind, Missing))
      BY <1>2, <1>3, <3>1, <3>3
    <3>6. QED
      BY <1>10, <3>2, <3>4, <3>5
  <2>4. QED
    BY <1>7, <2>1, <2>2, <2>3 DEF Manage
<1>8. QED
  BY <1>1, <1>5, <1>6, <1>7

-----------------------------------------------------------------------------
(* What becomes of the stream.                                             *)

NoRecords == [k \in Key |-> Missing]

StreamStep ==
  \/ stream' = stream
  \/ \E k \in Key, r \in Record :
       /\ r.rev = stream.seq + 1 /\ (r.live <=> r.val # {}) /\ stream.exists
       /\ stream' = [stream EXCEPT !.seq = @ + 1, !.rec[k] = r]
  \/ \E k \in Key : stream' = [stream EXCEPT !.rec[k] = Missing]
  \/ \E ttl \in BOOLEAN :
       stream' = [exists |-> TRUE, made |-> stream.made + 1, seq |-> 0, ttl |-> ttl, rec |-> NoRecords]
  \/ stream' = [stream EXCEPT !.exists = FALSE, !.rec = NoRecords]

\* A later stream, or the same in which a record stays, is gone or has the next revision.
Later ==
  \/ stream'.made > stream.made
  \/ /\ stream'.made = stream.made /\ stream'.seq >= stream.seq
     /\ \A k \in Key : \/ stream'.rec[k] = stream.rec[k]
                       \/ stream'.rec[k].rev = 0
                       \/ stream'.rec[k].rev > stream.seq

LEMMA MissingIs ==
  /\ Missing \in Record /\ Missing.rev = 0 /\ Missing.val = {} /\ Missing.live = FALSE /\ Missing.empty = FALSE
  /\ NoRecords \in [Key -> Record] /\ \A k \in Key : NoRecords[k] = Missing
<1>1. Missing \in Record /\ Missing.rev = 0 /\ Missing.val = {} /\ Missing.live = FALSE /\ Missing.empty = FALSE
  BY IdleIs DEF Missing
<1>2. QED
  BY <1>1 DEF NoRecords

LEMMA StreamMoves ==
  ASSUME Types, Records, StreamStep
  PROVE  stream' \in Stream /\ Records' /\ Later
<1>1. /\ stream \in Stream /\ stream.made \in Nat /\ stream.seq \in Nat /\ stream.made >= 1
      /\ stream.rec \in [Key -> Record] /\ stream.exists \in BOOLEAN
      /\ \A k \in Key : /\ stream.rec[k] \in Record /\ stream.rec[k].rev \in Nat
                        /\ stream.rec[k].rev <= stream.seq
                        /\ stream.rec[k].rev = 0 => stream.rec[k] = Missing
                        /\ stream.rec[k].live <=> stream.rec[k].val # {}
                        /\ ~stream.exists => stream.rec[k].rev = 0
  BY StreamIs DEF Types, Records
<1>2. CASE stream' = stream
  BY <1>1, <1>2 DEF Records, Later
<1>3. ASSUME NEW k \in Key, NEW r \in Record,
             r.rev = stream.seq + 1, r.live <=> r.val # {}, stream.exists,
             stream' = [stream EXCEPT !.seq = @ + 1, !.rec[k] = r]
      PROVE  stream' \in Stream /\ Records' /\ Later
  <2>1. /\ stream'.exists = stream.exists /\ stream'.made = stream.made /\ stream'.seq = stream.seq + 1
        /\ stream'.rec = [stream.rec EXCEPT ![k] = r]
    BY <1>1, <1>3 DEF Stream
  <2>2. stream' \in Stream
    <3>1. [stream.rec EXCEPT ![k] = r] \in [Key -> Record] /\ stream.seq + 1 \in Nat
      BY <1>1
    <3>2. QED
      BY <1>1, <1>3, <3>1 DEF Stream
  <2>3. \A i \in Key : stream'.rec[i] = IF i = k THEN r ELSE stream.rec[i]
    BY <1>1, <2>1
  <2>4. Records'
    BY <1>1, <1>3, <2>1, <2>3 DEF Records
  <2>5. Later
    BY <1>1, <1>3, <2>1, <2>3 DEF Later
  <2>6. QED
    BY <2>2, <2>4, <2>5
<1>4. ASSUME NEW k \in Key, stream' = [stream EXCEPT !.rec[k] = Missing]
      PROVE  stream' \in Stream /\ Records' /\ Later
  <2>1. /\ stream'.exists = stream.exists /\ stream'.made = stream.made /\ stream'.seq = stream.seq
        /\ stream'.rec = [stream.rec EXCEPT ![k] = Missing]
    BY <1>1, <1>4 DEF Stream
  <2>2. stream' \in Stream
    <3>1. [stream.rec EXCEPT ![k] = Missing] \in [Key -> Record]
      BY <1>1, MissingIs
    <3>2. QED
      BY <1>1, <1>4, <3>1 DEF Stream
  <2>3. \A i \in Key : stream'.rec[i] = IF i = k THEN Missing ELSE stream.rec[i]
    BY <1>1, <2>1
  <2>4. Records'
    BY <1>1, <2>1, <2>3, MissingIs DEF Records
  <2>5. Later
    BY <1>1, <2>1, <2>3, MissingIs DEF Later
  <2>6. QED
    BY <2>2, <2>4, <2>5
<1>5. ASSUME NEW ttl \in BOOLEAN,
             stream' = [exists |-> TRUE, made |-> stream.made + 1, seq |-> 0, ttl |-> ttl, rec |-> NoRecords]
      PROVE  stream' \in Stream /\ Records' /\ Later
  <2>1. /\ stream'.exists = TRUE /\ stream'.made = stream.made + 1 /\ stream'.seq = 0 /\ stream'.rec = NoRecords
    BY <1>5
  <2>2. stream' \in Stream
    BY <1>1, <1>5, MissingIs DEF Stream
  <2>3. \A i \in Key : stream'.rec[i] = Missing
    BY <2>1, MissingIs
  <2>4. Records'
    BY <1>1, <2>1, <2>3, MissingIs DEF Records
  <2>5. Later
    BY <1>1, <2>1 DEF Later
  <2>6. QED
    BY <2>2, <2>4, <2>5
<1>6. ASSUME stream' = [stream EXCEPT !.exists = FALSE, !.rec = NoRecords]
      PROVE  stream' \in Stream /\ Records' /\ Later
  <2>1. /\ stream'.exists = FALSE /\ stream'.made = stream.made /\ stream'.seq = stream.seq
        /\ stream'.rec = NoRecords
    BY <1>1, <1>6 DEF Stream
  <2>2. stream' \in Stream
    BY <1>1, <1>6, MissingIs DEF Stream
  <2>3. \A i \in Key : stream'.rec[i] = Missing
    BY <2>1, MissingIs
  <2>4. Records'
    BY <1>1, <2>1, <2>3, MissingIs DEF Records
  <2>5. Later
    BY <1>1, <2>1, <2>3, MissingIs DEF Later
  <2>6. QED
    BY <2>2, <2>4, <2>5
<1>7. QED
  BY <1>2, <1>3, <1>4, <1>5, <1>6 DEF StreamStep

\* A revision goes on to stand for what it stood for when it was read.
LEMMA NamesKept ==
  ASSUME Types, Records, Later, stream' \in Stream
  PROVE  \A k \in Key, rev \in Nat, made \in Nat, val \in SUBSET Id :
           Names(k, rev, made, val) => Names(k, rev, made, val)'
<1>1. TAKE k \in Key, rev \in Nat, made \in Nat, val \in SUBSET Id
<1>2. HAVE Names(k, rev, made, val)
<1>3. /\ stream.made \in Nat /\ stream.seq \in Nat /\ stream.rec[k].rev \in Nat
      /\ stream'.made \in Nat /\ stream'.seq \in Nat /\ stream'.rec[k].rev \in Nat
  <2>1. stream'.rec[k] \in Record
    BY DEF Stream
  <2>2. QED
    BY <2>1, StreamIs DEF Stream, Record
<1>4. /\ rev >= 1 /\ rev <= MaxCalls /\ made \in 1 .. stream.made
      /\ made = stream.made =>
           /\ rev <= stream.seq
           /\ stream.rec[k].rev = rev => stream.rec[k].val \subseteq val
  BY <1>2 DEF Names
<1>5. CASE stream'.made > stream.made
  BY <1>3, <1>4, <1>5 DEF Names
<1>6. CASE /\ stream'.made = stream.made /\ stream'.seq >= stream.seq
           /\ \/ stream'.rec[k] = stream.rec[k]
              \/ stream'.rec[k].rev = 0
              \/ stream'.rec[k].rev > stream.seq
  <2>1. made \in 1 .. stream'.made
    BY <1>4, <1>6
  <2>2. made = stream'.made => rev <= stream'.seq
    BY <1>3, <1>4, <1>6
  <2>3. made = stream'.made /\ stream'.rec[k].rev = rev => stream'.rec[k].val \subseteq val
    BY <1>3, <1>4, <1>6
  <2>4. QED
    BY <1>4, <2>1, <2>2, <2>3 DEF Names
<1>7. QED
  BY <1>5, <1>6 DEF Later

LEMMA MeantKept ==
  ASSUME Types, Records, Later, stream' \in Stream
  PROVE  \A m \in Message : Meant(m) => Meant(m)'
<1>1. TAKE m \in Message
<1>2. HAVE Meant(m)
<1>3. m.key \in Key /\ m.last \in Int /\ m.made \in Nat /\ m.base \in SUBSET Id
  BY DEF Message
<1>4. Names(m.key, m.last, m.made, m.base) => Names(m.key, m.last, m.made, m.base)'
  <2>1. SUFFICES ASSUME Names(m.key, m.last, m.made, m.base)
                 PROVE  Names(m.key, m.last, m.made, m.base)'
    OBVIOUS
  <2>2. m.last \in Nat
    BY <1>3, <2>1 DEF Names
  <2>3. QED
    BY <1>3, <2>1, <2>2, NamesKept
<1>5. QED
  BY <1>2, <1>4 DEF Meant

-----------------------------------------------------------------------------
(* The inductive invariant, but for the watcher.                           *)

Inv == Revisions /\ Once /\ Bounded /\ NothingLost

LEMMA TaskIs ==
  ASSUME Types, NEW t \in Task
  PROVE  /\ at[t] \in State /\ at[t].req \in Message /\ at[t].req.id \in Nat
         /\ \A r \in at[t].reply : r \in Answered
<1>1. at[t] \in State
  BY DEF Types
<1>2. QED
  BY <1>1 DEF State, Message

LEMMA NamesSame ==
  ASSUME stream' = stream
  PROVE  \A k, rev, made, val : Names(k, rev, made, val)' <=> Names(k, rev, made, val)
<1>1. QED
  BY DEF Names

LEMMA MeantSame ==
  ASSUME stream' = stream
  PROVE  \A m : Meant(m)' <=> Meant(m)
<1>1. QED
  BY NamesSame DEF Meant

LEMMA SpentFinite ==
  ASSUME Types'
  PROVE  IsFiniteSet(Spent')
<1>1. Spent' \in SUBSET (1 .. calls') /\ calls' \in Int
  BY DEF Spent, Types
<1>2. IsFiniteSet(1 .. calls')
  BY <1>1, FS_Interval
<1>3. QED
  BY <1>1, <1>2, FS_Subset

\* The counts do not fall behind when no record is stored and no stream made.
LEMMA BoundKept ==
  ASSUME Bounded, Types', stream'.seq = stream.seq, stream'.made = stream.made, applied' = applied,
         Spent \subseteq Spent', stream.made \in Nat
  PROVE  Bounded'
<1>2. IsFiniteSet(Spent')
  BY SpentFinite
<1>3. Cardinality(Spent) <= Cardinality(Spent') /\ Cardinality(Spent) \in Nat /\ Cardinality(Spent') \in Nat
  BY <1>2, FS_Subset, FS_CardinalityType
<1>4. Storing' = Storing
  BY DEF Storing
<1>5. stream.seq <= Cardinality(Storing) /\ stream.seq <= MaxCalls /\ stream.made <= 1 + Cardinality(Spent)
  BY DEF Bounded
<1>6. stream'.made <= 1 + Cardinality(Spent')
  BY <1>3, <1>5
<1>7. QED
  BY <1>4, <1>5, <1>6 DEF Bounded

LEMMA InitInv == Init => Inv
<1> SUFFICES ASSUME Init PROVE Inv
  OBVIOUS
<1>1. PICK there \in BOOLEAN :
        stream = [exists |-> there, made |-> 1, seq |-> 0, ttl |-> FALSE, rec |-> NoRecords]
  BY DEF Init, NoRecords
<1>2. /\ wire = {} /\ at = [t \in Task |-> Idle]
      /\ entry = [t \in Task |-> [k \in Key |-> NoEntry]]
      /\ cached = FALSE /\ watch = NoWatch /\ calls = 0
      /\ alive = [k \in Key |-> {}] /\ overrun = {}
      /\ applied = [i \in Id |-> 0] /\ told = [i \in Id |-> "nothing"]
  BY DEF Init
<1>3. /\ stream.exists = there /\ stream.made = 1 /\ stream.seq = 0
      /\ stream.rec = NoRecords /\ \A k \in Key : stream.rec[k] = Missing
  BY <1>1, MissingIs
<1>4. Types
  <2>1. stream \in Stream
    BY <1>1, MissingIs DEF Stream
  <2>2. watch \in Watcher
    <3>1. <<>> \in Seq(Note)
      BY EmptySeq
    <3>2. [k \in Key |-> {}] \in [Key -> SUBSET Id] /\ [k \in Key |-> {}] \in [Key -> SUBSET SUBSET Id]
      OBVIOUS
    <3>3. QED
      BY <1>2, <3>1, <3>2 DEF NoWatch, Watcher
  <2>3. calls \in 0 .. MaxCalls /\ "nothing" \in Outcomes
    BY <1>2, IdsAre DEF Outcomes
  <2>4. /\ wire \in SUBSET Message /\ at \in [Task -> State] /\ entry \in [Task -> [Key -> Entry]]
        /\ cached \in BOOLEAN /\ alive \in [Key -> SUBSET Id] /\ overrun \in SUBSET Id
    BY <1>2, IdleIs
  <2>5. applied \in [Id -> Nat] /\ told \in [Id -> Outcomes]
    BY <1>2, <2>3
  <2>6. QED
    BY <2>1, <2>2, <2>3, <2>4, <2>5 DEF Types
<1>5. Records
  BY <1>3, MissingIs DEF Records
<1>6. /\ \A t \in Task : at[t] = Idle /\ at[t].reply = {}
      /\ \A t \in Task, k \in Key : entry[t][k] = NoEntry
      /\ \A i \in Id : applied[i] = 0 /\ told[i] = "nothing"
      /\ \A k \in Key : alive[k] = {}
  BY <1>2, IdleIs
<1>7. Requests /\ Entries /\ Replies /\ OneRequest /\ UnderWay /\ Answers
  BY <1>2, <1>6 DEF Requests, Entries, Replies, OneRequest, UnderWay, Answers
<1>8. AnswerTruthful
  BY <1>6 DEF AnswerTruthful
<1>9. Bounded
  <2>1. Storing = {}
    BY <1>6 DEF Storing
  <2>2. Spent = {}
    BY <1>2 DEF Spent
  <2>3. QED
    BY <1>3, <2>1, <2>2, FS_EmptySet, IdsAre DEF Bounded
<1>10. NothingLost
  BY <1>6 DEF NothingLost
<1>11. QED
  BY <1>4, <1>5, <1>7, <1>8, <1>9, <1>10 DEF Inv, Revisions, Once

LEMMA BeginInv ==
  ASSUME Inv, NEW t \in Task, NEW m \in Message,
         Begin(t, m), m.id = calls + 1, Meant(m), cached' \in BOOLEAN
  PROVE  Inv'
<1> DEFINE s == [req |-> m, reply |-> {}]
<1>1. /\ at[t] = Idle /\ calls < MaxCalls /\ calls' = calls + 1
      /\ at' = [at EXCEPT ![t] = s] /\ wire' = wire \cup {m}
      /\ UNCHANGED <<stream, alive, overrun, applied, entry, watch, told>>
  BY DEF Begin, Ask, server
<1>2. Types /\ Records /\ Requests /\ Entries /\ Replies /\ OneRequest /\ UnderWay /\ Answers
      /\ AnswerTruthful /\ Bounded /\ NothingLost
  BY DEF Inv, Revisions, Once
<1>3. /\ calls \in 0 .. MaxCalls /\ calls \in Nat /\ MaxCalls \in Nat /\ m.id \in Id
      /\ wire \subseteq Message /\ at \in [Task -> State]
  BY <1>1, <1>2, IdsAre DEF Types, Id
<1>4. s \in State /\ s.req = m /\ s.reply = {}
  BY DEF State
<1>5. \A u \in Task : at'[u] = IF u = t THEN s ELSE at[u]
  BY <1>1, <1>3
<1> HIDE DEF s
<1>6. Types'
  <2>1. calls' \in 0 .. MaxCalls
    BY <1>1, <1>3
  <2>2. at' \in [Task -> State] /\ wire' \in SUBSET Message
    BY <1>1, <1>3, <1>4
  <2>3. /\ stream' \in Stream /\ entry' \in [Task -> [Key -> Entry]] /\ watch' \in Watcher
        /\ alive' \in [Key -> SUBSET Id] /\ overrun' \in SUBSET Id /\ applied' \in [Id -> Nat] /\ told' \in [Id -> Outcomes]
    BY <1>1, <1>2 DEF Types
  <2>4. QED
    BY <2>1, <2>2, <2>3 DEF Types
<1>7. Records'
  BY <1>1, <1>2 DEF Records
<1>8. \A o \in wire : o.id \in 1 .. calls /\ o.id # m.id /\ o.id \in 1 .. calls' /\ Meant(o)'
  BY <1>1, <1>2, <1>3, MeantSame DEF Requests, Sound
<1>9. \A u \in Task : at[u] # Idle =>
        at[u].req.id \in 1 .. calls /\ at[u].req.id # m.id /\ at[u].req.id \in 1 .. calls' /\ Meant(at[u].req)
  BY <1>1, <1>2, <1>3 DEF Requests, Sound
<1>10. m.id \in 1 .. calls'
  BY <1>1, <1>3
<1>11. Requests'
  <2>1. \A o \in wire' : Sound(o)'
    BY <1>1, <1>8, <1>10, MeantSame DEF Sound
  <2>2. ASSUME NEW u \in Task, at'[u] # Idle PROVE Sound(at[u].req)'
    <3>1. CASE u = t
      BY <1>1, <1>4, <1>5, <1>10, <3>1, MeantSame DEF Sound
    <3>2. CASE u # t
      BY <1>1, <1>5, <1>9, <2>2, <3>2, MeantSame DEF Sound
    <3>3. QED
      BY <3>1, <3>2
  <2>3. QED
    BY <2>1, <2>2 DEF Requests
<1>12. Entries'
  BY <1>1, <1>2, NamesSame DEF Entries
<1>13. Replies'
  BY <1>1, <1>2, <1>4, <1>5, NamesSame DEF Replies
<1>14. OneRequest'
  <2>1. \A o, p \in wire' : o.id = p.id => o = p
    BY <1>1, <1>2, <1>8 DEF OneRequest
  <2>2. \A u, v \in Task : at'[u] # Idle /\ at'[v] # Idle /\ at'[u].req.id = at'[v].req.id => u = v
    BY <1>2, <1>4, <1>5, <1>9 DEF OneRequest
  <2>3. ASSUME NEW u \in Task, NEW o \in wire', at'[u] # Idle, o.id = at'[u].req.id
        PROVE  o = at'[u].req /\ at'[u].reply = {}
    <3>1. CASE u = t
      BY <1>1, <1>4, <1>5, <1>8, <2>3, <3>1
    <3>2. CASE u # t
      BY <1>1, <1>2, <1>5, <1>9, <2>3, <3>2 DEF OneRequest
    <3>3. QED
      BY <3>1, <3>2
  <2>4. QED
    BY <2>1, <2>2, <2>3 DEF OneRequest
<1>15. UnderWay'
  <2>1. applied[m.id] = 0 /\ told[m.id] = "nothing"
    BY <1>2, <1>3 DEF UnderWay
  <2>2. \A o \in wire' : applied[o.id] = 0 /\ told[o.id] \in {"nothing", "timeout"}
    BY <1>1, <1>2, <2>1 DEF UnderWay
  <2>3. \A u \in Task : at'[u] # Idle => told[at'[u].req.id] = "nothing"
    BY <1>2, <1>4, <1>5, <2>1 DEF UnderWay
  <2>4. \A i \in Id : i > calls' => applied[i] = 0 /\ told[i] = "nothing"
    <3>1. \A i \in Id : i > calls' => i > calls
      BY <1>1, <1>3, IdsAre
    <3>2. QED
      BY <1>2, <3>1 DEF UnderWay
  <2>5. QED
    BY <1>1, <2>2, <2>3, <2>4 DEF UnderWay
<1>16. Answers'
  BY <1>1, <1>2, <1>4, <1>5 DEF Answers
<1>17. AnswerTruthful' /\ NothingLost'
  BY <1>1, <1>2 DEF AnswerTruthful, NothingLost
<1>18. Bounded'
  <2>1. Spent \subseteq Spent'
    <3>1. SUFFICES ASSUME NEW i \in Spent PROVE i \in Spent'
      OBVIOUS
    <3>2. /\ i \in 1 .. calls /\ \A o \in wire : o.id # i
          /\ \A u \in Task : at[u].req.id = i => at[u].req.step \notin {"create", "look", "key_value"}
      BY <3>1 DEF Spent
    <3>3. i \in 1 .. calls' /\ i # m.id
      BY <1>1, <1>3, <3>2
    <3>4. QED
      BY <1>1, <1>4, <1>5, <3>2, <3>3 DEF Spent
  <2>2. QED
    BY <1>1, <1>2, <1>6, <2>1, BoundKept, StreamIs
<1>19. QED
  BY <1>6, <1>7, <1>11, <1>12, <1>13, <1>14, <1>15, <1>16, <1>17, <1>18 DEF Inv, Revisions, Once

LEMMA GetEntryInv ==
  ASSUME Inv, NEW t \in Task, NEW k \in Key, GetEntry(t, k)
  PROVE  Inv'
<1> DEFINE r == stream.rec[k]
           e == IF r.live THEN [rev |-> r.rev, val |-> r.val, made |-> stream.made] ELSE NoEntry
<1>1. /\ entry' = [entry EXCEPT ![t][k] = e]
      /\ UNCHANGED <<stream, alive, overrun, applied, wire, at, cached, watch, calls, told>>
  BY DEF GetEntry, server
<1>2. Types /\ Records /\ Requests /\ Entries /\ Replies /\ OneRequest /\ UnderWay /\ Answers
      /\ AnswerTruthful /\ Bounded /\ NothingLost
  BY DEF Inv, Revisions, Once
<1>3. /\ r \in Record /\ r.rev \in Nat /\ r.val \in SUBSET Id /\ stream.made \in Nat /\ stream.seq \in Nat
      /\ entry \in [Task -> [Key -> Entry]]
  BY <1>2, StreamIs DEF Types
<1>4. e \in Entry
  BY <1>3, IdleIs DEF Entry
<1>5. e # NoEntry => e.val # {} /\ Names(k, e.rev, e.made, e.val)
  <2>1. SUFFICES ASSUME r.live PROVE r.val # {} /\ Names(k, r.rev, stream.made, r.val)
    BY <1>3
  <2>2. r.val # {} /\ r.rev # 0 /\ r.rev <= stream.seq /\ stream.made >= 1 /\ stream.seq <= MaxCalls
    BY <1>2, <2>1, MissingIs DEF Records, Bounded
  <2>3. QED
    BY <1>3, <2>2, IdsAre DEF Names
<1> HIDE DEF e
<1>6. \A u \in Task, i \in Key : entry'[u][i] = IF u = t /\ i = k THEN e ELSE entry[u][i]
  BY <1>1, <1>3
<1>7. entry' \in [Task -> [Key -> Entry]]
  BY <1>1, <1>3, <1>4
<1>8. Types'
  BY <1>1, <1>2, <1>7 DEF Types
<1>9. Entries'
  BY <1>1, <1>2, <1>5, <1>6, NamesSame DEF Entries
<1>10. Records' /\ Requests' /\ Replies'
  <2>1. Records'
    BY <1>1, <1>2 DEF Records
  <2>2. Requests'
    BY <1>1, <1>2, MeantSame DEF Requests, Sound
  <2>3. Replies'
    BY <1>1, <1>2, NamesSame DEF Replies
  <2>4. QED
    BY <2>1, <2>2, <2>3
<1>11. OneRequest' /\ UnderWay' /\ Answers' /\ AnswerTruthful' /\ NothingLost'
  BY <1>1, <1>2 DEF OneRequest, UnderWay, Answers, AnswerTruthful, NothingLost
<1>12. Bounded'
  BY <1>1, <1>2 DEF Bounded, Storing, Spent
<1>13. QED
  BY <1>8, <1>9, <1>10, <1>11, <1>12 DEF Inv, Revisions, Once

\* Steps of the watcher alone.
LEMMA WatcherInv ==
  ASSUME Inv, UNCHANGED <<server, wire, at, entry, cached, calls, told>>, watch' \in Watcher
  PROVE  Inv'
<1>1. UNCHANGED <<stream, alive, overrun, applied, wire, at, entry, cached, calls, told>>
  BY DEF server
<1>2. Types /\ Records /\ Requests /\ Entries /\ Replies /\ OneRequest /\ UnderWay /\ Answers
      /\ AnswerTruthful /\ Bounded /\ NothingLost
  BY DEF Inv, Revisions, Once
<1>3. Types'
  BY <1>1, <1>2 DEF Types
<1>4. Records'
  BY <1>1, <1>2 DEF Records
<1>5. Requests'
  BY <1>1, <1>2, MeantSame DEF Requests, Sound
<1>6. Replies' /\ Entries'
  BY <1>1, <1>2, NamesSame DEF Replies, Entries
<1>7. OneRequest' /\ UnderWay' /\ Answers' /\ AnswerTruthful' /\ NothingLost'
  BY <1>1, <1>2 DEF OneRequest, UnderWay, Answers, AnswerTruthful, NothingLost
<1>8. Bounded'
  BY <1>1, <1>2 DEF Bounded, Storing, Spent
<1>9. QED
  BY <1>3, <1>4, <1>5, <1>6, <1>7, <1>8 DEF Inv, Revisions, Once

LEMMA GoesOnInv ==
  ASSUME Inv, NEW t \in Task, NEW m \in Message, GoesOn(t, m),
         UNCHANGED <<server, watch, calls, entry>>, cached' \in BOOLEAN
  PROVE  Inv'
<1> DEFINE s == [req |-> m, reply |-> {}]
<1>1. /\ at[t] # Idle /\ at[t].reply # {} /\ m.id = at[t].req.id /\ Meant(m)
      /\ at' = [at EXCEPT ![t] = s] /\ wire' = wire \cup {m}
      /\ UNCHANGED <<stream, alive, overrun, applied, entry, watch, told, calls>>
      /\ \/ at[t].req.step = "create" /\ \E r \in at[t].reply : r.kind # "ack"
         \/ at[t].req.step \in {"look", "key_value"}
  BY DEF GoesOn, Ask, server
<1>2. Types /\ Records /\ Requests /\ Entries /\ Replies /\ OneRequest /\ UnderWay /\ Answers
      /\ AnswerTruthful /\ Bounded /\ NothingLost
  BY DEF Inv, Revisions, Once
<1>3. wire \subseteq Message /\ at \in [Task -> State]
  BY <1>2 DEF Types
<1>4. s \in State /\ s.req = m /\ s.reply = {}
  BY DEF State
<1>5. \A u \in Task : at'[u] = IF u = t THEN s ELSE at[u]
  BY <1>1, <1>3
<1> HIDE DEF s
<1>6. Types'
  <2>1. at' \in [Task -> State] /\ wire' \in SUBSET Message
    BY <1>1, <1>3, <1>4
  <2>2. QED
    BY <1>1, <1>2, <2>1 DEF Types
<1>7. Records'
  BY <1>1, <1>2 DEF Records
<1>8. \A o \in wire : o.id # m.id /\ Sound(o)
  BY <1>1, <1>2 DEF Requests, OneRequest
<1>9. \A u \in Task : at[u] # Idle /\ u # t => at[u].req.id # m.id
  BY <1>1, <1>2 DEF OneRequest
<1>10. Sound(m)
  BY <1>1, <1>2 DEF Requests, Sound
<1>11. Requests'
  <2>1. \A o \in wire' : Sound(o)'
    BY <1>1, <1>8, <1>10, MeantSame DEF Sound
  <2>2. ASSUME NEW u \in Task, at'[u] # Idle PROVE Sound(at[u].req)'
    <3>1. CASE u = t
      BY <1>1, <1>4, <1>5, <1>10, <3>1, MeantSame DEF Sound
    <3>2. CASE u # t
      BY <1>1, <1>2, <1>5, <2>2, <3>2, MeantSame DEF Sound, Requests
    <3>3. QED
      BY <3>1, <3>2
  <2>3. QED
    BY <2>1, <2>2 DEF Requests
<1>12. Entries'
  BY <1>1, <1>2, NamesSame DEF Entries
<1>13. Replies'
  BY <1>1, <1>2, <1>4, <1>5, NamesSame DEF Replies
<1>14. OneRequest'
  <2>1. \A o, p \in wire' : o.id = p.id => o = p
    BY <1>1, <1>2, <1>8 DEF OneRequest
  <2>2. \A u, v \in Task : at'[u] # Idle /\ at'[v] # Idle /\ at'[u].req.id = at'[v].req.id => u = v
    BY <1>2, <1>4, <1>5, <1>9 DEF OneRequest
  <2>3. ASSUME NEW u \in Task, NEW o \in wire', at'[u] # Idle, o.id = at'[u].req.id
        PROVE  o = at'[u].req /\ at'[u].reply = {}
    <3>1. CASE u = t
      BY <1>1, <1>4, <1>5, <1>8, <2>3, <3>1
    <3>2. CASE u # t
      BY <1>1, <1>2, <1>5, <1>9, <2>3, <3>2 DEF OneRequest
    <3>3. QED
      BY <3>1, <3>2
  <2>4. QED
    BY <2>1, <2>2, <2>3 DEF OneRequest
<1>15. applied[m.id] = 0 /\ told[m.id] = "nothing"
  <2>1. told[m.id] = "nothing"
    BY <1>1, <1>2 DEF UnderWay
  <2>2. CASE at[t].req.step = "create" /\ \E r \in at[t].reply : r.kind # "ack"
    <3>1. PICK r \in at[t].reply : r.kind # "ack"
      BY <2>2
    <3>2. applied[at[t].req.id] = IF at[t].req.step \in Writes /\ r.kind = "ack" THEN 1 ELSE 0
      BY <1>2 DEF Answers
    <3>3. QED
      BY <1>1, <2>1, <3>1, <3>2
  <2>3. CASE at[t].req.step \in {"look", "key_value"}
    <3>1. at[t].req.step \notin Writes
      BY <2>3 DEF Writes
    <3>2. PICK r \in at[t].reply : TRUE
      BY <1>1
    <3>3. applied[at[t].req.id] = IF at[t].req.step \in Writes /\ r.kind = "ack" THEN 1 ELSE 0
      BY <1>2 DEF Answers
    <3>4. QED
      BY <1>1, <2>1, <3>1, <3>3
  <2>4. QED
    BY <1>1, <2>1, <2>2, <2>3
<1>16. UnderWay'
  BY <1>1, <1>2, <1>4, <1>5, <1>15 DEF UnderWay
<1>17. Answers'
  BY <1>1, <1>2, <1>4, <1>5 DEF Answers
<1>18. AnswerTruthful' /\ NothingLost'
  BY <1>1, <1>2 DEF AnswerTruthful, NothingLost
<1>19. Bounded'
  <2>1. Spent \subseteq Spent'
    <3>1. SUFFICES ASSUME NEW i \in Spent PROVE i \in Spent'
      OBVIOUS
    <3>2. /\ i \in 1 .. calls /\ \A o \in wire : o.id # i
          /\ \A u \in Task : at[u].req.id = i => at[u].req.step \notin {"create", "look", "key_value"}
      BY <3>1 DEF Spent
    <3>3. i # m.id
      BY <1>1, <3>2
    <3>4. QED
      BY <1>1, <1>4, <1>5, <3>2, <3>3 DEF Spent
  <2>2. QED
    BY <1>1, <1>2, <1>6, <2>1, BoundKept, StreamIs
<1>20. QED
  BY <1>6, <1>7, <1>11, <1>12, <1>13, <1>14, <1>16, <1>17, <1>18, <1>19 DEF Inv, Revisions, Once

\* A call returns: with what the answer says, or because none came in time.
LEMMA EndsInv ==
  ASSUME Inv, NEW t \in Task, NEW what \in Outcomes, Ends(t, what),
         UNCHANGED <<server, watch, calls, entry>>, cached' \in BOOLEAN,
         \/ what = "timeout"
         \/ /\ what # "nothing"
            /\ \E r \in at[t].reply :
                 /\ what = "stored" => at[t].req.step \in Writes /\ r.kind = "ack"
                 /\ what = "conflict" => ~(at[t].req.step \in Writes /\ r.kind = "ack")
  PROVE  Inv'
<1> DEFINE id == at[t].req.id
<1>1. /\ at[t] # Idle /\ told' = [told EXCEPT ![at[t].req.id] = what] /\ at' = [at EXCEPT ![t] = Idle]
      /\ UNCHANGED <<stream, alive, overrun, applied, wire, entry, watch, calls>>
  BY DEF Ends, Return, server
<1>2. Types /\ Records /\ Requests /\ Entries /\ Replies /\ OneRequest /\ UnderWay /\ Answers
      /\ AnswerTruthful /\ Bounded /\ NothingLost
  BY DEF Inv, Revisions, Once
<1>3. at \in [Task -> State] /\ told \in [Id -> Outcomes] /\ calls \in 0 .. MaxCalls
  BY <1>2 DEF Types
<1>4. id \in 1 .. calls /\ id \in Id
  BY <1>1, <1>2, <1>3, IdsAre DEF Requests, Sound, Id
<1>5. \A u \in Task : at'[u] = IF u = t THEN Idle ELSE at[u]
  BY <1>1, <1>3
<1>6. \A i \in Id : told'[i] = IF i = id THEN what ELSE told[i]
  BY <1>1, <1>3
<1>7. Idle.reply = {} /\ Idle.req.id = 0
  BY IdleIs
<1>8. \A u \in Task : at'[u] # Idle => u # t /\ at[u] # Idle /\ at[u].req.id # id /\ at[u].req.id \in Id
  <2>1. \A u \in Task : at'[u] # Idle => u # t /\ at[u] # Idle /\ at[u].req.id # id
    BY <1>1, <1>2, <1>5 DEF OneRequest
  <2>2. \A u \in Task : at[u] # Idle => at[u].req.id \in 1 .. calls
    BY <1>2 DEF Requests, Sound
  <2>3. 1 .. calls \subseteq Id
    BY <1>3, IdsAre DEF Id
  <2>4. QED
    BY <2>1, <2>2, <2>3
<1>9. \A o \in wire : o.id = id => what = "timeout"
  BY <1>1, <1>2 DEF OneRequest
<1>10. \A o \in wire : o.id \in Id
  BY <1>2, <1>3, IdsAre DEF Requests, Sound, Id
<1> HIDE DEF id
<1>11. Types'
  <2>1. at' \in [Task -> State] /\ told' \in [Id -> Outcomes]
    BY <1>1, <1>3, IdleIs
  <2>2. QED
    BY <1>1, <1>2, <2>1 DEF Types
<1>12. Records'
  BY <1>1, <1>2 DEF Records
<1>13. Requests'
  BY <1>1, <1>2, <1>5, <1>8, MeantSame DEF Requests, Sound
<1>14. Replies' /\ Entries'
  BY <1>1, <1>2, <1>5, <1>7, NamesSame DEF Replies, Entries
<1>15. OneRequest'
  BY <1>1, <1>2, <1>5, <1>8 DEF OneRequest
<1>16. UnderWay'
  <2>1. \A o \in wire : applied[o.id] = 0 /\ told'[o.id] \in {"nothing", "timeout"}
    BY <1>2, <1>6, <1>9, <1>10 DEF UnderWay
  <2>2. \A u \in Task : at'[u] # Idle => told'[at'[u].req.id] = "nothing"
    BY <1>2, <1>5, <1>6, <1>8 DEF UnderWay
  <2>3. \A i \in Id : i > calls => applied[i] = 0 /\ told'[i] = "nothing"
    <3>1. \A i \in Id : i > calls => i # id
      BY <1>3, <1>4, IdsAre
    <3>2. QED
      BY <1>2, <1>6, <3>1 DEF UnderWay
  <2>4. QED
    BY <1>1, <2>1, <2>2, <2>3 DEF UnderWay
<1>17. Answers'
  BY <1>1, <1>2, <1>5, <1>7 DEF Answers
<1>18. AnswerTruthful'
  <2>1. /\ what = "stored" => applied[id] = 1
        /\ what = "conflict" => applied[id] = 0
    <3>1. SUFFICES ASSUME NEW r \in at[t].reply,
                          what = "stored" => at[t].req.step \in Writes /\ r.kind = "ack",
                          what = "conflict" => ~(at[t].req.step \in Writes /\ r.kind = "ack")
                   PROVE  /\ what = "stored" => applied[id] = 1
                          /\ what = "conflict" => applied[id] = 0
      OBVIOUS
    <3>2. applied[id] = IF at[t].req.step \in Writes /\ r.kind = "ack" THEN 1 ELSE 0
      BY <1>2 DEF Answers, id
    <3>3. QED
      BY <3>1, <3>2
  <2>2. QED
    BY <1>1, <1>2, <1>6, <2>1 DEF AnswerTruthful
<1>19. NothingLost'
  BY <1>1, <1>2 DEF NothingLost
<1>20. Bounded'
  <2>1. Spent \subseteq Spent'
    BY <1>1, <1>5, <1>7 DEF Spent
  <2>2. QED
    BY <1>1, <1>2, <1>11, <2>1, BoundKept, StreamIs
<1>21. QED
  BY <1>11, <1>12, <1>13, <1>14, <1>15, <1>16, <1>17, <1>18, <1>19, <1>20 DEF Inv, Revisions, Once

LEMMA ExpireInv ==
  ASSUME Inv, Expire, watch' \in Watcher
  PROVE  Inv'
<1>1. PICK k \in Key :
        /\ stream' = [stream EXCEPT !.rec[k] = Missing]
        /\ alive' = [alive EXCEPT ![k] = {}]
        /\ UNCHANGED <<overrun, applied, wire, at, entry, cached, calls, told>>
  BY DEF Expire
<1>2. Types /\ Records /\ Requests /\ Entries /\ Replies /\ OneRequest /\ UnderWay /\ Answers
      /\ AnswerTruthful /\ Bounded /\ NothingLost
  BY DEF Inv, Revisions, Once
<1>3. stream' \in Stream /\ Records' /\ Later
  BY <1>1, <1>2, StreamMoves DEF StreamStep
<1>4. stream'.made = stream.made /\ stream'.seq = stream.seq /\ stream'.rec = [stream.rec EXCEPT ![k] = Missing]
  BY <1>1, <1>2 DEF Types, Stream
<1>5. \A i \in Key : /\ alive'[i] = IF i = k THEN {} ELSE alive[i]
                     /\ stream'.rec[i] = IF i = k THEN Missing ELSE stream.rec[i]
  BY <1>1, <1>2, <1>4, StreamIs DEF Types
<1>6. Types'
  <2>1. alive' \in [Key -> SUBSET Id]
    BY <1>1, <1>2 DEF Types
  <2>2. QED
    BY <1>1, <1>2, <1>3, <2>1 DEF Types
<1>7. Requests'
  <2>1. \A o \in wire : o \in Message
    BY <1>2, MessageIs
  <2>2. \A u \in Task : at[u].req \in Message
    BY <1>2, TaskIs
  <2>3. QED
    BY <1>1, <1>2, <1>3, <2>1, <2>2, MeantKept DEF Requests, Sound
<1>8. Entries'
  <2>1. \A u \in Task, i \in Key : /\ entry[u][i].rev \in Nat /\ entry[u][i].made \in Nat
                                   /\ entry[u][i].val \in SUBSET Id
    BY <1>2 DEF Types, Entry
  <2>2. QED
    BY <1>1, <1>2, <1>3, <2>1, NamesKept DEF Entries
<1>9. Replies'
  <2>1. ASSUME NEW u \in Task, NEW r \in at[u].reply
        PROVE  r.rev \in Nat /\ r.made \in Nat /\ at[u].req.key \in Key
    BY <1>2, TaskIs DEF Answered, Message
  <2>2. QED
    BY <1>1, <1>2, <1>3, <2>1, NamesKept DEF Replies
<1>10. OneRequest' /\ UnderWay' /\ Answers' /\ AnswerTruthful'
  BY <1>1, <1>2 DEF OneRequest, UnderWay, Answers, AnswerTruthful
<1>11. NothingLost'
  BY <1>1, <1>2, <1>5, MissingIs DEF NothingLost
<1>12. Bounded'
  <2>1. Spent \subseteq Spent'
    BY <1>1 DEF Spent
  <2>2. QED
    BY <1>1, <1>2, <1>4, <1>6, <2>1, BoundKept, StreamIs
<1>13. QED
  BY <1>3, <1>6, <1>7, <1>8, <1>9, <1>10, <1>11, <1>12 DEF Inv, Revisions, Once

\* What is the same whatever the server does with a request.
LEMMA ServedInv ==
  ASSUME Inv, NEW m \in wire, NEW r \in Answered,
         wire' = wire \ {m}, UNCHANGED <<entry, cached, calls, told>>,
         Answer(m, r), Fits(m, r),
         stream' \in Stream, Later, watch' \in Watcher, alive' \in [Key -> SUBSET Id], overrun' \in SUBSET Id,
         applied' = [applied EXCEPT ![m.id] = IF m.step \in Writes /\ r.kind = "ack" THEN 1 ELSE 0]
  PROVE  /\ Types' /\ Requests' /\ Entries' /\ Replies' /\ Once'
         /\ Spent \subseteq Spent' /\ m.id \in 1 .. calls /\ m.id \notin Spent
         /\ m.step = "create_key_value" => m.id \in Spent'
<1>1. Types /\ Records /\ Requests /\ Entries /\ Replies /\ OneRequest /\ UnderWay /\ Answers
      /\ AnswerTruthful /\ Bounded /\ NothingLost
  BY DEF Inv, Revisions, Once
<1>2. m \in Message /\ m.key \in Key /\ Sound(m) /\ m.id \in 1 .. calls
  BY <1>1, MessageIs DEF Requests, Sound
<1>3. calls \in 0 .. MaxCalls /\ applied \in [Id -> Nat] /\ at \in [Task -> State] /\ wire \subseteq Message
  BY <1>1 DEF Types
<1>4. 1 .. calls \subseteq Id /\ m.id \in Id /\ m.id # 0
  BY <1>2, <1>3, IdsAre DEF Id
<1> DEFINE n == IF m.step \in Writes /\ r.kind = "ack" THEN 1 ELSE 0
<1>5. n \in {0, 1} /\ \A i \in Id : applied'[i] = IF i = m.id THEN n ELSE applied[i]
  BY <1>3
<1>6. applied[m.id] = 0 /\ told[m.id] \in {"nothing", "timeout"}
  BY <1>1 DEF UnderWay
<1>7. \A u \in Task : /\ at'[u] \in State /\ at'[u].req = at[u].req
                      /\ at[u].req = m => at'[u].reply = {r}
                      /\ at[u].req # m => at'[u] = at[u]
  <2>1. at' = [u \in Task |-> IF at[u].req = m THEN [at[u] EXCEPT !.reply = {r}] ELSE at[u]]
    BY DEF Answer
  <2>2. TAKE u \in Task
  <2>3. at[u] \in State
    BY <1>3
  <2>4. CASE at[u].req = m
    <3>1. at'[u] = [at[u] EXCEPT !.reply = {r}]
      BY <2>1, <2>4
    <3>2. QED
      BY <2>3, <2>4, <3>1 DEF State
  <2>5. CASE at[u].req # m
    BY <2>1, <2>3, <2>5
  <2>6. QED
    BY <2>4, <2>5
<1>8. \A u \in Task : /\ at'[u] # Idle => at[u] # Idle
                      /\ at[u].req = m => at[u] # Idle
                      /\ at[u] # Idle /\ at[u].req.id = m.id => at[u].req = m
  BY <1>1, <1>2, <1>4, <1>7, IdleIs DEF OneRequest
<1>9. \A u \in Task : at'[u].reply # {} => at[u] # Idle
  BY <1>7, <1>8, IdleIs
<1>10. \A o \in wire' : o \in wire /\ o # m /\ o.id # m.id /\ o.id \in Id
  BY <1>1, <1>4 DEF OneRequest, Requests, Sound
<1>11. \A u \in Task : at[u] # Idle => at[u].req.id \in Id
  BY <1>1, <1>4 DEF Requests, Sound
<1> HIDE DEF n
<1>12. Types'
  <2>1. applied' \in [Id -> Nat]
    <3>1. applied' = [applied EXCEPT ![m.id] = n]
      BY DEF n
    <3>2. n \in Nat
      BY <1>5
    <3>3. QED
      BY <1>3, <3>1, <3>2
  <2>2. at' \in [Task -> State]
    BY <1>7 DEF Answer
  <2>3. wire' \in SUBSET Message
    BY <1>3
  <2>4. QED
    BY <1>1, <2>1, <2>2, <2>3 DEF Types
<1>13. Requests'
  <2>1. \A o \in wire : o \in Message
    BY <1>3
  <2>2. \A u \in Task : at[u].req \in Message
    BY <1>1, TaskIs
  <2>3. \A o \in wire' : o.id \in 1 .. calls' /\ Meant(o)'
    BY <1>1, <1>10, <2>1, MeantKept DEF Requests, Sound
  <2>4. \A u \in Task : at'[u] # Idle => at'[u].req.id \in 1 .. calls' /\ Meant(at[u].req)'
    BY <1>1, <1>7, <1>8, <2>2, MeantKept DEF Requests, Sound
  <2>5. QED
    BY <2>3, <2>4 DEF Requests, Sound
<1>14. Entries'
  <2>1. \A u \in Task, i \in Key : /\ entry[u][i].rev \in Nat /\ entry[u][i].made \in Nat
                                   /\ entry[u][i].val \in SUBSET Id
    BY <1>1 DEF Types, Entry
  <2>2. QED
    BY <1>1, <2>1, NamesKept DEF Entries
<1>15. Replies'
  <2>1. ASSUME NEW u \in Task, NEW a \in at'[u].reply
        PROVE  /\ at'[u].req.step \in Writes => a.kind \in {"ack", "wrong_last", "no_stream"}
               /\ a.kind = "deleted" => Names(at[u].req.key, a.rev, a.made, {})'
    <3>1. CASE at[u].req = m
      <4>1. a = r /\ at'[u].req = m
        BY <1>7, <2>1, <3>1
      <4>2. r.rev \in Nat /\ r.made \in Nat
        BY DEF Answered
      <4>3. r.kind = "deleted" => Names(m.key, r.rev, r.made, {})'
        BY <1>1, <1>2, <4>2, NamesKept DEF Fits
      <4>4. QED
        BY <4>1, <4>3 DEF Fits
    <3>2. CASE at[u].req # m
      <4>1. at'[u] = at[u] /\ a \in at[u].reply
        BY <1>7, <2>1, <3>2
      <4>2. a.rev \in Nat /\ a.made \in Nat /\ at[u].req.key \in Key
        BY <1>1, <4>1, TaskIs DEF Answered, Message
      <4>3. /\ at[u].req.step \in Writes => a.kind \in {"ack", "wrong_last", "no_stream"}
            /\ a.kind = "deleted" => Names(at[u].req.key, a.rev, a.made, {})
        BY <1>1, <4>1 DEF Replies
      <4>4. a.kind = "deleted" => Names(at[u].req.key, a.rev, a.made, {})'
        BY <1>1, <4>1, <4>2, <4>3, NamesKept
      <4>5. QED
        BY <4>1, <4>3, <4>4
    <3>3. QED
      BY <3>1, <3>2
  <2>2. QED
    BY <2>1 DEF Replies
<1>16. OneRequest'
  <2>1. \A o, p \in wire' : o.id = p.id => o = p
    BY <1>1, <1>10 DEF OneRequest
  <2>2. \A u, v \in Task : at'[u] # Idle /\ at'[v] # Idle /\ at'[u].req.id = at'[v].req.id => u = v
    BY <1>1, <1>7, <1>8 DEF OneRequest
  <2>3. ASSUME NEW u \in Task, NEW o \in wire', at'[u] # Idle, o.id = at'[u].req.id
        PROVE  o = at'[u].req /\ at'[u].reply = {}
    <3>1. at[u].req # m
      BY <1>7, <1>10, <2>3
    <3>2. QED
      BY <1>1, <1>7, <1>8, <1>10, <2>3, <3>1 DEF OneRequest
  <2>4. QED
    BY <2>1, <2>2, <2>3 DEF OneRequest
<1>17. UnderWay'
  <2>1. \A o \in wire' : applied'[o.id] = 0 /\ told[o.id] \in {"nothing", "timeout"}
    BY <1>1, <1>5, <1>10 DEF UnderWay
  <2>2. \A u \in Task : at'[u] # Idle => told[at'[u].req.id] = "nothing"
    BY <1>1, <1>7, <1>8 DEF UnderWay
  <2>3. \A i \in Id : i > calls => applied'[i] = 0 /\ told[i] = "nothing"
    <3>1. \A i \in Id : i > calls => i # m.id
      BY <1>2, <1>3, IdsAre
    <3>2. QED
      BY <1>1, <1>5, <3>1 DEF UnderWay
  <2>4. QED
    BY <2>1, <2>2, <2>3 DEF UnderWay
<1>18. Answers'
  <2>1. ASSUME NEW u \in Task, NEW a \in at'[u].reply
        PROVE  applied'[at'[u].req.id] = IF at'[u].req.step \in Writes /\ a.kind = "ack" THEN 1 ELSE 0
    <3>1. CASE at[u].req = m
      <4>1. a = r /\ at'[u].req = m
        BY <1>7, <2>1, <3>1
      <4>2. QED
        BY <1>4, <1>5, <4>1 DEF n
    <3>2. CASE at[u].req # m
      <4>1. at'[u] = at[u] /\ a \in at[u].reply /\ at[u] # Idle /\ at[u].req.id # m.id
        BY <1>7, <1>8, <1>9, <2>1, <3>2
      <4>2. applied'[at[u].req.id] = applied[at[u].req.id]
        BY <1>5, <1>11, <4>1
      <4>3. QED
        BY <1>1, <4>1, <4>2 DEF Answers
    <3>3. QED
      BY <3>1, <3>2
  <2>2. QED
    BY <2>1 DEF Answers
<1>19. AnswerTruthful'
  BY <1>1, <1>5, <1>6 DEF AnswerTruthful
<1>20. Spent \subseteq Spent'
  BY <1>7 DEF Spent
<1>21. m.id \notin Spent
  BY DEF Spent
<1>22. m.step = "create_key_value" => m.id \in Spent'
  <2>1. SUFFICES ASSUME m.step = "create_key_value" PROVE m.id \in Spent'
    OBVIOUS
  <2>2. \A o \in wire' : o.id # m.id
    BY <1>10
  <2>3. \A u \in Task : at'[u].req.id = m.id => at'[u].req.step \notin {"create", "look", "key_value"}
    <3>1. TAKE u \in Task
    <3>2. HAVE at'[u].req.id = m.id
    <3>3. at[u].req.id = m.id /\ at[u] # Idle
      BY <1>4, <1>7, <3>2, IdleIs
    <3>4. at'[u].req = m
      BY <1>7, <1>8, <3>3
    <3>5. QED
      BY <2>1, <3>4
  <2>4. QED
    BY <1>2, <2>2, <2>3 DEF Spent
<1>23. QED
  BY <1>2, <1>12, <1>13, <1>14, <1>15, <1>16, <1>17, <1>18, <1>19, <1>20, <1>21, <1>22 DEF Once

\* A write takes away what it is meant to take away, and no more, unless it goes by what
\* was read from an earlier bucket.
LEMMA IntendedIs ==
  ASSUME Inv, NEW m \in wire, NEW r \in Record, Stores(m, r)
  PROVE  Intended(m) \subseteq m.val \cup overrun' /\ overrun \subseteq overrun'
<1>1. Types /\ Records /\ Requests /\ NothingLost
  BY DEF Inv, Revisions
<1>2. /\ Meant(m) /\ m.key \in Key /\ m.last \in Int /\ m.made \in Nat /\ m.step \in Writes
      /\ m.last \in {Unchecked, stream.rec[m.key].rev}
      /\ stream.rec[m.key].rev \in Nat /\ stream.rec[m.key].val \in SUBSET Id
      /\ alive[m.key] \in SUBSET Id
  BY <1>1, MessageIs, StreamIs DEF Requests, Sound, Stores, Types
<1>3. alive[m.key] \subseteq stream.rec[m.key].val \cup overrun
  BY <1>1, <1>2 DEF NothingLost
<1>4. overrun' = IF Outdated(m) THEN overrun \cup (Intended(m) \ m.val) ELSE overrun
  BY DEF Stores
<1>5. CASE Outdated(m)
  BY <1>4, <1>5
<1>6. CASE ~Outdated(m)
  <2>1. Intended(m) = (alive[m.key] \ m.base) \cup m.val /\ overrun' = overrun
    BY <1>4, <1>6 DEF Intended
  <2>2. CASE m.step = "create"
    <3>1. m.last = 0
      BY <1>2, <2>2 DEF Meant
    <3>2. stream.rec[m.key].rev = 0
      BY <1>2, <3>1 DEF Unchecked
    <3>3. stream.rec[m.key].val = {}
      BY <1>1, <1>2, <3>2, MissingIs DEF Records
    <3>4. QED
      BY <1>3, <2>1, <3>3
  <2>3. CASE m.step # "create" /\ m.last = Unchecked /\ m.base = Id
    BY <1>2, <2>1, <2>3
  <2>4. CASE m.step # "create" /\ Names(m.key, m.last, m.made, m.base)
    <3>1. m.last >= 1 /\ m.made >= 1
      BY <1>2, <2>4 DEF Names
    <3>2. m.made = stream.made /\ stream.rec[m.key].rev = m.last
      BY <1>2, <1>6, <3>1 DEF Unchecked, Outdated
    <3>3. stream.rec[m.key].val \subseteq m.base
      BY <2>4, <3>2 DEF Names
    <3>4. QED
      BY <1>3, <2>1, <3>3
  <2>5. QED
    BY <1>2, <2>2, <2>3, <2>4 DEF Meant
<1>7. QED
  BY <1>5, <1>6

LEMMA StoresInv ==
  ASSUME Inv, NEW m \in wire, NEW r \in Record, Stores(m, r),
         wire' = wire \ {m}, UNCHANGED <<entry, cached, calls, told>>, watch' \in Watcher
  PROVE  Inv'
<1>1. Types /\ Records /\ Requests /\ UnderWay /\ Bounded /\ NothingLost
  BY DEF Inv, Revisions, Once
<1>2. /\ m.step \in Writes /\ stream.exists
      /\ stream' = [stream EXCEPT !.seq = @ + 1, !.rec[m.key] = r]
      /\ alive' = [alive EXCEPT ![m.key] = Intended(m)]
      /\ applied' = [applied EXCEPT ![m.id] = @ + 1]
      /\ Answer(m, Reply("ack", r))
  BY DEF Stores
<1>3. r.rev = stream.seq + 1 /\ r.val = m.val /\ r.live = (m.step \notin {"delete", "purge"})
  BY DEF Stores
<1>4. Meant(m) /\ m.key \in Key /\ m.id \in 1 .. calls /\ m.val \in SUBSET Id /\ m.step \in Steps
  BY <1>1, MessageIs DEF Requests, Sound
<1>5. r.live <=> r.val # {}
  BY <1>2, <1>3, <1>4 DEF Meant, Writes
<1>6. StreamStep
  BY <1>2, <1>3, <1>4, <1>5 DEF StreamStep
<1>7. stream' \in Stream /\ Records' /\ Later
  BY <1>1, <1>6, StreamMoves
<1>8. Reply("ack", r) \in Answered /\ Fits(m, Reply("ack", r)) /\ Reply("ack", r).kind = "ack"
  BY <1>1, ReplyIs DEF Fits, Kinds
<1>9. applied \in [Id -> Nat] /\ applied[m.id] = 0 /\ m.id \in Id /\ calls \in 0 .. MaxCalls
  BY <1>1, <1>4, IdsAre DEF UnderWay, Types, Id
<1>10. applied' = [applied EXCEPT ![m.id] = 1]
  BY <1>2, <1>9
<1>11. Intended(m) \subseteq m.val \cup overrun' /\ overrun \subseteq overrun'
  BY IntendedIs
<1>12. alive' \in [Key -> SUBSET Id] /\ overrun' \in SUBSET Id
  <2>1. Intended(m) \in SUBSET Id
    BY <1>1, <1>4 DEF Intended, Types
  <2>2. QED
    BY <1>1, <1>2, <1>4, <2>1 DEF Types, Stores
<1>13. /\ Types' /\ Requests' /\ Entries' /\ Replies' /\ Once' /\ Spent \subseteq Spent'
  BY <1>2, <1>7, <1>8, <1>10, <1>12, ServedInv
<1>14. /\ stream'.seq = stream.seq + 1 /\ stream'.made = stream.made
       /\ \A k \in Key : /\ stream'.rec[k] = IF k = m.key THEN r ELSE stream.rec[k]
                         /\ alive'[k] = IF k = m.key THEN Intended(m) ELSE alive[k]
  BY <1>1, <1>2, <1>4, StreamIs DEF Types, Stream
<1>15. NothingLost'
  BY <1>1, <1>3, <1>11, <1>14 DEF NothingLost
<1>16. Bounded'
  <2>1. Storing' = Storing \cup {m.id} /\ m.id \notin Storing
    <3>1. \A i \in Id : applied'[i] = IF i = m.id THEN 1 ELSE applied[i]
      BY <1>9, <1>10
    <3>2. QED
      BY <1>9, <3>1 DEF Storing
  <2>2. Storing \in SUBSET (1 .. MaxCalls) /\ Storing' \in SUBSET (1 .. MaxCalls) /\ MaxCalls \in Nat
    BY IdsAre DEF Storing, Id
  <2>3. IsFiniteSet(1 .. MaxCalls) /\ Cardinality(1 .. MaxCalls) = MaxCalls
    BY <2>2, FS_Interval
  <2>4. IsFiniteSet(Storing) /\ Cardinality(Storing') <= MaxCalls
    BY <2>2, <2>3, FS_Subset
  <2>5. Cardinality(Storing') = Cardinality(Storing) + 1 /\ Cardinality(Storing) \in Nat
    BY <2>1, <2>4, FS_AddElement, FS_CardinalityType
  <2>6. stream'.seq <= Cardinality(Storing') /\ stream'.seq <= MaxCalls
    BY <1>1, <1>14, <2>2, <2>4, <2>5, StreamIs DEF Bounded
  <2>7. IsFiniteSet(Spent')
    BY <1>13, SpentFinite
  <2>8. Cardinality(Spent) <= Cardinality(Spent') /\ Cardinality(Spent) \in Nat /\ Cardinality(Spent') \in Nat
    BY <1>13, <2>7, FS_Subset, FS_CardinalityType
  <2>9. stream'.made <= 1 + Cardinality(Spent')
    BY <1>1, <1>14, <2>8, StreamIs DEF Bounded
  <2>10. QED
    BY <2>6, <2>9 DEF Bounded
<1>17. QED
  BY <1>7, <1>13, <1>15, <1>16 DEF Inv, Revisions

LEMMA ServeInv ==
  ASSUME Inv, Serve, watch' \in Watcher
  PROVE  Inv'
<1>1. Types /\ Records /\ Requests /\ Entries /\ Replies /\ OneRequest /\ UnderWay /\ Answers
      /\ AnswerTruthful /\ Bounded /\ NothingLost
  BY DEF Inv, Revisions, Once
<1>2. PICK m \in wire :
        /\ wire' = wire \ {m} /\ UNCHANGED <<entry, cached, calls, told>>
        /\ \E r \in Answered : Fits(m, r) /\ Answer(m, r)
        /\ \/ /\ UNCHANGED <<server, watch>>
              /\ \E r \in Answered : Answer(m, r) /\ Fits(m, r) /\ (m.step \in Writes => r.kind # "ack")
           \/ \E r \in Record : Stores(m, r)
           \/ Makes(m)
           \/ Deletes(m)
  BY <1>1, ServeDoes
<1>3. /\ applied \in [Id -> Nat] /\ applied[m.id] = 0 /\ m.ttl \in BOOLEAN
      /\ stream \in Stream /\ alive \in [Key -> SUBSET Id] /\ overrun \in SUBSET Id
  BY <1>1, MessageIs DEF UnderWay, Types
<1>4. applied = [applied EXCEPT ![m.id] = 0]
  BY <1>3
<1>5. CASE UNCHANGED <<server, watch>>
           /\ \E r \in Answered : Answer(m, r) /\ Fits(m, r) /\ (m.step \in Writes => r.kind # "ack")
  <2>1. PICK r \in Answered : Answer(m, r) /\ Fits(m, r) /\ (m.step \in Writes => r.kind # "ack")
    BY <1>5
  <2>2. stream' = stream /\ alive' = alive /\ overrun' = overrun /\ applied' = applied
    BY <1>5 DEF server
  <2>3. stream' \in Stream /\ Records' /\ Later
    BY <1>1, <2>2, StreamMoves DEF StreamStep
  <2>4. applied' = [applied EXCEPT ![m.id] = IF m.step \in Writes /\ r.kind = "ack" THEN 1 ELSE 0]
    BY <1>4, <2>1, <2>2
  <2>5. /\ Types' /\ Requests' /\ Entries' /\ Replies' /\ Once' /\ Spent \subseteq Spent'
    BY <1>2, <1>3, <2>1, <2>2, <2>3, <2>4, ServedInv
  <2>6. NothingLost'
    BY <1>1, <2>2 DEF NothingLost
  <2>7. Bounded'
    BY <1>1, <2>2, <2>5, BoundKept, StreamIs
  <2>8. QED
    BY <2>3, <2>5, <2>6, <2>7 DEF Inv, Revisions
<1>6. CASE \E r \in Record : Stores(m, r)
  BY <1>2, <1>6, StoresInv
<1>7. ASSUME NEW r \in Answered, Answer(m, r), Fits(m, r), m.step \notin Writes,
             StreamStep, alive' \in [Key -> SUBSET Id], UNCHANGED <<overrun, applied>>
      PROVE  /\ Records' /\ Types' /\ Requests' /\ Entries' /\ Replies' /\ Once'
             /\ Spent \subseteq Spent' /\ m.id \in 1 .. calls /\ m.id \notin Spent
             /\ m.step = "create_key_value" => m.id \in Spent'
  <2>1. stream' \in Stream /\ Records' /\ Later
    BY <1>1, <1>7, StreamMoves
  <2>2. applied' = [applied EXCEPT ![m.id] = IF m.step \in Writes /\ r.kind = "ack" THEN 1 ELSE 0]
    BY <1>4, <1>7
  <2>3. QED
    BY <1>1, <1>2, <1>7, <2>1, <2>2, ServedInv DEF Types
<1>8. PICK a \in Answered : Fits(m, a) /\ Answer(m, a)
  BY <1>2
<1>9. CASE Makes(m)
  <2>1. /\ m.step = "create_key_value" /\ ~stream.exists /\ UNCHANGED <<alive, overrun, applied>>
        /\ stream' = [exists |-> TRUE, made |-> stream.made + 1, seq |-> 0, ttl |-> m.ttl, rec |-> NoRecords]
    BY <1>9 DEF Makes, NoRecords
  <2>2. StreamStep
    BY <1>3, <2>1 DEF StreamStep
  <2>3. m.step \notin Writes
    BY <2>1 DEF Writes
  <2>4. /\ Records' /\ Types' /\ Requests' /\ Entries' /\ Replies' /\ Once'
        /\ Spent \subseteq Spent' /\ m.id \in 1 .. calls /\ m.id \notin Spent /\ m.id \in Spent'
    BY <1>3, <1>7, <1>8, <2>1, <2>2, <2>3
  <2>5. stream'.made = stream.made + 1 /\ stream'.seq = 0 /\ \A k \in Key : stream'.rec[k] = Missing
    BY <2>1, MissingIs
  <2>6. NothingLost'
    <3>1. \A k \in Key : stream.rec[k].val = {}
      BY <1>1, <2>1, MissingIs DEF Records
    <3>2. QED
      BY <1>1, <2>1, <2>5, <3>1 DEF NothingLost
  <2>7. Bounded'
    <3>2. IsFiniteSet(Spent')
      BY <2>4, SpentFinite
    <3>3. Spent \cup {m.id} \in SUBSET Spent'
      BY <2>4
    <3>4. IsFiniteSet(Spent) /\ Cardinality(Spent \cup {m.id}) <= Cardinality(Spent')
      BY <2>4, <3>2, <3>3, FS_Subset
    <3>5. Cardinality(Spent \cup {m.id}) = Cardinality(Spent) + 1
      BY <2>4, <3>4, FS_AddElement
    <3>6. Cardinality(Spent) \in Nat /\ Cardinality(Spent') \in Nat
      BY <3>2, <3>4, FS_CardinalityType
    <3>7. stream'.made <= 1 + Cardinality(Spent')
      BY <1>1, <2>5, <3>4, <3>5, <3>6, StreamIs DEF Bounded
    <3>8. Storing' \in SUBSET (1 .. MaxCalls) /\ MaxCalls \in Nat
      BY IdsAre DEF Storing, Id
    <3>9. Cardinality(Storing') \in Nat
      <4>1. IsFiniteSet(1 .. MaxCalls)
        BY <3>8, FS_Interval
      <4>2. IsFiniteSet(Storing')
        BY <3>8, <4>1, FS_Subset
      <4>3. QED
        BY <4>2, FS_CardinalityType
    <3>10. QED
      BY <2>5, <3>7, <3>8, <3>9 DEF Bounded
  <2>8. QED
    BY <2>4, <2>6, <2>7 DEF Inv, Revisions
<1>10. CASE Deletes(m)
  <2>1. /\ m.step = "delete_key_value" /\ alive' = [k \in Key |-> {}] /\ UNCHANGED <<overrun, applied>>
        /\ stream' = [stream EXCEPT !.exists = FALSE, !.rec = NoRecords]
    BY <1>10 DEF Deletes, NoRecords
  <2>2. StreamStep
    BY <2>1 DEF StreamStep
  <2>3. m.step \notin Writes
    BY <2>1 DEF Writes
  <2>4. alive' \in [Key -> SUBSET Id]
    BY <2>1
  <2>5. /\ Records' /\ Types' /\ Requests' /\ Entries' /\ Replies' /\ Once' /\ Spent \subseteq Spent'
    BY <1>7, <1>8, <2>1, <2>2, <2>3, <2>4
  <2>6. stream'.made = stream.made /\ stream'.seq = stream.seq
    BY <1>3, <2>1 DEF Stream
  <2>7. NothingLost'
    BY <2>1 DEF NothingLost
  <2>8. Bounded'
    BY <1>1, <2>1, <2>5, <2>6, BoundKept, StreamIs
  <2>9. QED
    BY <2>5, <2>7, <2>8 DEF Inv, Revisions
<1>11. QED
  BY <1>2, <1>5, <1>6, <1>9, <1>10

-----------------------------------------------------------------------------
(* The watcher.                                                            *)

LEMMA WatchIs ==
  ASSUME Types
  PROVE  /\ watch.on \in BOOLEAN /\ watch.snapshot \in BOOLEAN /\ watch.made \in Nat
         /\ watch.queue \in Seq(Note) /\ Len(watch.queue) \in Nat /\ watch.done \in BOOLEAN
         /\ watch.seen \in [Key -> SUBSET SUBSET Id] /\ watch.view \in [Key -> SUBSET Id]
         /\ watch \in Watcher
         /\ \A i \in 1 .. Len(watch.queue) :
              /\ watch.queue[i] \in Note /\ watch.queue[i].key \in Key /\ watch.queue[i].rev \in Nat
              /\ watch.queue[i].val \in SUBSET Id
<1>1. watch \in Watcher
  BY DEF Types
<1>2. watch.queue \in Seq(Note)
  BY <1>1 DEF Watcher
<1>3. \A i \in 1 .. Len(watch.queue) : watch.queue[i] \in Note
  BY <1>2
<1>4. \A n \in Note : n.key \in Key /\ n.rev \in Nat /\ n.val \in SUBSET Id
  BY DEF Note
<1>5. QED
  BY <1>1, <1>2, <1>3, <1>4 DEF Watcher

LEMMA EventIs ==
  ASSUME NEW k \in Key, NEW r \in Record
  PROVE  /\ Event(k, r) \in Note /\ Event(k, r).key = k /\ Event(k, r).rev = r.rev
         /\ Event(k, r).val = r.val /\ Event(k, r).live = r.live /\ Event(k, r).empty = r.empty
<1>1. QED
  BY DEF Event, Note, Record

LEMMA MarkerIs == Marker \in Note /\ Marker.rev = 0
<1>1. QED
  BY SomeKey, MissingIs, EventIs DEF Marker

\* What a watcher that follows the bucket becomes when a record is stored.
LEMMA PublishIs ==
  ASSUME Types, NEW k \in Key, NEW r \in Record, Publish(k, r),
         watch.on, watch.made = stream.made, stream.exists
  PROVE  /\ watch' \in Watcher
         /\ watch'.on = watch.on /\ watch'.snapshot = watch.snapshot /\ watch'.made = watch.made
         /\ watch'.view = watch.view /\ watch'.done = watch.done
         /\ watch'.queue = IF watch.snapshot /\ ~r.live THEN watch.queue
                           ELSE Append(watch.queue, Event(k, r))
         /\ \A i \in Key : watch'.seen[i] = IF i = k THEN watch.seen[i] \cup {r.val} ELSE watch.seen[i]
<1> DEFINE q == IF watch.snapshot /\ ~r.live THEN watch.queue ELSE Append(watch.queue, Event(k, r))
           s == [watch.seen EXCEPT ![k] = @ \cup {r.val}]
<1>1. watch \in Watcher /\ watch.queue \in Seq(Note) /\ watch.seen \in [Key -> SUBSET SUBSET Id]
  BY WatchIs
<1>2. q \in Seq(Note)
  BY <1>1, EventIs
<1>3. r.val \in SUBSET Id
  BY DEF Record
<1>4. s \in [Key -> SUBSET SUBSET Id]
  BY <1>1, <1>3
<1>5. \A i \in Key : s[i] = IF i = k THEN watch.seen[i] \cup {r.val} ELSE watch.seen[i]
  BY <1>1
<1>6. watch' = [watch EXCEPT !.queue = q, !.seen = s]
  BY <1>1 DEF Publish, Watcher
<1> HIDE DEF q, s
<1>7. watch'.queue = q /\ watch'.seen = s /\ watch' \in Watcher
      /\ watch'.on = watch.on /\ watch'.snapshot = watch.snapshot /\ watch'.made = watch.made
      /\ watch'.view = watch.view /\ watch'.done = watch.done
  BY <1>1, <1>2, <1>4, <1>6 DEF Watcher
<1>8. QED
  BY <1>5, <1>7 DEF q

\* Records that vanish only add to what a snapshot may say.
LEMMA VanishIs ==
  ASSUME Types, NEW gone \in SUBSET Key, Vanish(gone)
  PROVE  /\ watch' \in Watcher
         /\ watch'.on = watch.on /\ watch'.snapshot = watch.snapshot /\ watch'.made = watch.made
         /\ watch'.view = watch.view /\ watch'.done = watch.done /\ watch'.queue = watch.queue
         /\ \A i \in Key : watch'.seen[i] = IF i \in gone THEN watch.seen[i] \cup {{}} ELSE watch.seen[i]
<1> DEFINE s == [k \in Key |-> IF k \in gone THEN watch.seen[k] \cup {{}} ELSE watch.seen[k]]
<1>1. watch \in Watcher /\ watch.seen \in [Key -> SUBSET SUBSET Id]
  BY WatchIs
<1>2. s \in [Key -> SUBSET SUBSET Id]
  <2>1. ASSUME NEW k \in Key PROVE s[k] \in SUBSET SUBSET Id
    BY <1>1
  <2>2. QED
    BY <2>1
<1>3. watch' = [watch EXCEPT !.seen = s]
  BY DEF Vanish
<1>4. \A i \in Key : s[i] = IF i \in gone THEN watch.seen[i] \cup {{}} ELSE watch.seen[i]
  OBVIOUS
<1> HIDE DEF s
<1>5. watch'.seen = s /\ watch' \in Watcher
      /\ watch'.on = watch.on /\ watch'.snapshot = watch.snapshot /\ watch'.made = watch.made
      /\ watch'.view = watch.view /\ watch'.done = watch.done /\ watch'.queue = watch.queue
  BY <1>1, <1>2, <1>3 DEF Watcher
<1>6. QED
  BY <1>4, <1>5

\* What a watcher is sent first: every last record once.
LEMMA ReplayIs ==
  ASSUME Types, NEW snapshot \in BOOLEAN, NEW q \in Replays(snapshot)
  PROVE  /\ q \in Seq(Note)
         /\ \A i \in 1 .. Len(q) : \E k \in Key :
              /\ q[i] = Event(k, stream.rec[k]) /\ stream.rec[k].rev # 0
              /\ snapshot => stream.rec[k].live
         /\ \A k \in Key : stream.rec[k].rev # 0 /\ (snapshot => stream.rec[k].live) =>
              \E i \in 1 .. Len(q) : q[i] = Event(k, stream.rec[k])
         /\ \A i, j \in 1 .. Len(q) : q[i] = q[j] => i = j
<1> DEFINE K == {i \in Key : stream.rec[i].rev # 0 /\ (snapshot => stream.rec[i].live)}
           S == Replayed(snapshot)
           n == Cardinality(S)
           f == [k \in K |-> Event(k, stream.rec[k])]
<1>1. S = {Event(k, stream.rec[k]) : k \in K}
  BY DEF Replayed
<1>2. IsFiniteSet(K)
  BY IdsAre, FS_Subset
<1>3. f \in Surjection(K, S)
  BY <1>1 DEF Surjection
<1>4. IsFiniteSet(S)
  BY <1>2, <1>3, FS_Surjection
<1>5. n \in Nat
  BY <1>4, FS_CardinalityType
<1>6. q \in [1 .. n -> S] /\ \A i, j \in DOMAIN q : i < j => q[i].rev < q[j].rev
  BY DEF Replays
<1>7. S \subseteq Note
  BY <1>1, StreamIs, EventIs
<1>8. \A i \in 1 .. n : q[i] \in S /\ q[i].rev \in Nat
  BY <1>6, <1>7 DEF Note
<1> HIDE DEF S, n, f, K
<1>9. \A i, j \in 1 .. n : q[i] = q[j] => i = j
  <2>1. SUFFICES ASSUME NEW i \in 1 .. n, NEW j \in 1 .. n, q[i] = q[j], i # j PROVE FALSE
    OBVIOUS
  <2>2. i < j \/ j < i
    BY <1>5, <2>1
  <2>3. q[i].rev < q[j].rev \/ q[j].rev < q[i].rev
    BY <1>6, <2>2
  <2>4. QED
    BY <1>8, <2>1, <2>3
<1>10. q \in Injection(1 .. n, S)
  BY <1>6, <1>9 DEF Injection, IsInjective
<1>11. Cardinality(1 .. n) = n
  BY <1>5, FS_Interval
<1>12. q \in Surjection(1 .. n, S)
  BY <1>4, <1>10, <1>11, FS_Injection DEF n
<1>13. \A e \in S : \E i \in 1 .. n : q[i] = e
  BY <1>12 DEF Surjection
<1>14. q \in Seq(Note) /\ Len(q) = n
  <2>1. q \in [1 .. n -> Note]
    BY <1>6, <1>7
  <2>2. QED
    BY <1>5, <2>1, SeqDef
<1>15. \A i \in 1 .. n : \E k \in K : q[i] = Event(k, stream.rec[k])
  BY <1>1, <1>8
<1>16. \A k \in K : \E i \in 1 .. n : q[i] = Event(k, stream.rec[k])
  BY <1>1, <1>13
<1>17. QED
  BY <1>9, <1>14, <1>15, <1>16 DEF K

\* What the steps of the watcher do.
LEMMA NoWatchIs ==
  /\ NoWatch \in Watcher /\ NoWatch.on = FALSE /\ NoWatch.snapshot = FALSE /\ NoWatch.made = 0
  /\ NoWatch.queue = <<>> /\ NoWatch.done = FALSE
  /\ \A k \in Key : NoWatch.seen[k] = {} /\ NoWatch.view[k] = {}
<1>1. <<>> \in Seq(Note) /\ 0 \in Nat
  OBVIOUS
<1>2. [k \in Key |-> {}] \in [Key -> SUBSET SUBSET Id] /\ [k \in Key |-> {}] \in [Key -> SUBSET Id]
  OBVIOUS
<1>3. QED
  BY <1>1, <1>2 DEF NoWatch, Watcher

LEMMA WatchBegins ==
  ASSUME Types, Watch
  PROVE  /\ watch' \in Watcher /\ watch = NoWatch /\ stream.exists
         /\ \E snapshot \in BOOLEAN : \E q \in Replays(snapshot) :
              /\ watch'.on = TRUE /\ watch'.snapshot = snapshot /\ watch'.made = stream.made
              /\ watch'.queue = Append(q, Marker) /\ watch'.done = FALSE
              /\ \A k \in Key : watch'.seen[k] = {stream.rec[k].val} /\ watch'.view[k] = {}
<1> DEFINE Starts(snapshot, q) ==
             [NoWatch EXCEPT !.on = TRUE, !.snapshot = snapshot, !.made = stream.made,
                             !.queue = Append(q, Marker), !.seen = [k \in Key |-> {stream.rec[k].val}]]
<1>0. PICK snapshot \in Watches : \E q \in Replays(snapshot) :
        watch = NoWatch /\ stream.exists /\ watch' = Starts(snapshot, q)
  BY DEF Watch
<1>1. PICK q \in Replays(snapshot) :
        watch = NoWatch /\ stream.exists /\ watch' = Starts(snapshot, q)
  BY <1>0
<1>2. snapshot \in BOOLEAN
  BY IdsAre
<1>3. q \in Seq(Note)
  BY <1>2, ReplayIs
<1> DEFINE a == Append(q, Marker)
           s == [k \in Key |-> {stream.rec[k].val}]
<1>4. a \in Seq(Note)
  BY <1>3, MarkerIs
<1>5. s \in [Key -> SUBSET SUBSET Id] /\ \A k \in Key : s[k] = {stream.rec[k].val}
  <2>1. \A k \in Key : stream.rec[k].val \in SUBSET Id
    BY StreamIs
  <2>2. QED
    BY <2>1
<1>6. stream.made \in Nat
  BY StreamIs
<1> HIDE DEF a, s
<1>7. watch' = [NoWatch EXCEPT !.on = TRUE, !.snapshot = snapshot, !.made = stream.made,
                               !.queue = a, !.seen = s]
  BY <1>1 DEF a, s
<1>8. /\ watch' \in Watcher /\ watch'.on = TRUE /\ watch'.snapshot = snapshot
      /\ watch'.made = stream.made /\ watch'.queue = a /\ watch'.seen = s
      /\ watch'.done = NoWatch.done /\ watch'.view = NoWatch.view
  BY <1>2, <1>4, <1>5, <1>6, <1>7, NoWatchIs DEF Watcher
<1>9. /\ watch'.on = TRUE /\ watch'.snapshot = snapshot /\ watch'.made = stream.made
      /\ watch'.queue = Append(q, Marker) /\ watch'.done = FALSE
      /\ \A k \in Key : watch'.seen[k] = {stream.rec[k].val} /\ watch'.view[k] = {}
  BY <1>5, <1>8, NoWatchIs DEF a
<1>10. QED
  BY <1>1, <1>2, <1>8, <1>9

LEMMA IterateIs ==
  ASSUME Types, Iterate
  PROVE  /\ watch' \in Watcher /\ watch.on /\ watch.queue # <<>>
         /\ watch'.snapshot = watch.snapshot /\ watch'.made = watch.made /\ watch'.seen = watch.seen
         /\ watch'.queue = Tail(watch.queue)
         /\ \/ /\ Head(watch.queue) = Marker /\ ~watch.snapshot
               /\ watch'.on = watch.on /\ watch'.done = watch.done /\ watch'.view = watch.view
            \/ /\ Head(watch.queue) = Marker /\ watch.snapshot
               /\ watch'.on = FALSE /\ watch'.done = TRUE /\ watch'.view = watch.view
            \/ /\ Head(watch.queue) # Marker
               /\ watch'.on = watch.on /\ watch'.done = watch.done
               /\ \A k \in Key :
                    watch'.view[k] = IF k = Head(watch.queue).key
                                       THEN IF Head(watch.queue).live /\ ~Head(watch.queue).empty
                                              THEN Head(watch.queue).val ELSE {}
                                     ELSE watch.view[k]
<1> DEFINE e == Head(watch.queue)
           q == Tail(watch.queue)
           v == View(e)
           rest == [watch EXCEPT !.queue = Tail(@)]
<1>1. watch \in Watcher /\ watch.queue \in Seq(Note) /\ watch.queue # <<>> /\ watch.on
      /\ watch.view \in [Key -> SUBSET Id]
  BY WatchIs DEF Iterate
<1>2. e \in Note /\ q \in Seq(Note)
  BY <1>1
<1>3. v \in [Key -> SUBSET Id]
      /\ \A k \in Key : v[k] = IF k = e.key THEN IF e.live /\ ~e.empty THEN e.val ELSE {}
                               ELSE watch.view[k]
  <2>1. e.key \in Key /\ e.val \in SUBSET Id
    BY <1>2 DEF Note
  <2> HIDE DEF e
  <2>2. QED
    BY <1>1, <2>1 DEF View
<1>4. watch' = IF e = Marker
                 THEN IF watch.snapshot THEN [rest EXCEPT !.on = FALSE, !.done = TRUE] ELSE rest
                 ELSE [rest EXCEPT !.view = v]
  BY DEF Iterate
<1>5. rest = [watch EXCEPT !.queue = q]
  BY <1>1 DEF Watcher
<1> HIDE DEF e, q, v
<1>6. /\ rest \in Watcher /\ rest.queue = q /\ rest.on = watch.on /\ rest.snapshot = watch.snapshot
      /\ rest.made = watch.made /\ rest.seen = watch.seen /\ rest.view = watch.view /\ rest.done = watch.done
  BY <1>1, <1>2, <1>5 DEF Watcher
<1> HIDE DEF rest
<1>7. CASE e = Marker /\ ~watch.snapshot
  BY <1>1, <1>4, <1>6, <1>7 DEF e, q
<1>8. CASE e = Marker /\ watch.snapshot
  <2>1. watch' = [rest EXCEPT !.on = FALSE, !.done = TRUE]
    BY <1>4, <1>8
  <2>2. /\ watch' \in Watcher /\ watch'.on = FALSE /\ watch'.done = TRUE /\ watch'.view = rest.view
        /\ watch'.snapshot = rest.snapshot /\ watch'.made = rest.made /\ watch'.seen = rest.seen
        /\ watch'.queue = rest.queue
    BY <1>6, <2>1 DEF Watcher
  <2>3. QED
    BY <1>1, <1>6, <1>8, <2>2 DEF e, q
<1>9. CASE e # Marker
  <2>1. watch' = [rest EXCEPT !.view = v]
    BY <1>4, <1>9
  <2>2. /\ watch' \in Watcher /\ watch'.on = rest.on /\ watch'.done = rest.done /\ watch'.view = v
        /\ watch'.snapshot = rest.snapshot /\ watch'.made = rest.made /\ watch'.seen = rest.seen
        /\ watch'.queue = rest.queue
    BY <1>3, <1>6, <2>1 DEF Watcher
  <2>3. \A k \in Key : watch'.view[k] = IF k = e.key THEN IF e.live /\ ~e.empty THEN e.val ELSE {}
                                        ELSE watch.view[k]
    BY <1>3, <2>2
  <2>4. QED
    BY <1>1, <1>6, <1>9, <2>2, <2>3 DEF e, q
<1>10. QED
  BY <1>7, <1>8, <1>9

LEMMA AbandonIs ==
  ASSUME Types, Abandon
  PROVE  /\ watch' \in Watcher /\ watch.on /\ watch'.on = FALSE /\ watch'.queue = <<>>
         /\ watch'.snapshot = watch.snapshot /\ watch'.made = watch.made /\ watch'.seen = watch.seen
         /\ watch'.view = watch.view /\ watch'.done = watch.done
<1>1. watch \in Watcher /\ <<>> \in Seq(Note)
  BY WatchIs
<1>2. QED
  BY <1>1 DEF Abandon, Watcher

\* Every step is one of those above, or leaves everything the same.
LEMMA StepIs ==
  ASSUME Inv, [Next]_vars
  PROVE  \/ UNCHANGED vars
         \/ \E t \in Task, k \in Key : GetEntry(t, k)
         \/ \E t \in Task, m \in Message : Begin(t, m) /\ m.id = calls + 1 /\ Meant(m) /\ cached' \in BOOLEAN
         \/ \E t \in Task : Resume(t) \/ Timeout(t)
         \/ Serve \/ Expire \/ Watch \/ Iterate \/ Abandon
<1>1. Types /\ Entries
  BY DEF Inv, Revisions
<1>2. ASSUME NEW t \in Task, Call(t)
      PROVE  \/ \E k \in Key : GetEntry(t, k)
             \/ \E m \in Message : Begin(t, m) /\ m.id = calls + 1 /\ Meant(m) /\ cached' \in BOOLEAN
  BY <1>1, <1>2, CallBegins
<1>3. QED
  BY <1>2 DEF Next

\* The server writes to the watcher what it does to the records.
LEMMA PublishType ==
  ASSUME Types, NEW k \in Key, NEW r \in Record, Publish(k, r)
  PROVE  watch' \in Watcher
<1>1. CASE watch.on /\ watch.made = stream.made /\ stream.exists
  BY <1>1, PublishIs
<1>2. CASE ~(watch.on /\ watch.made = stream.made /\ stream.exists)
  BY <1>2, WatchIs DEF Publish
<1>3. QED
  BY <1>1, <1>2

LEMMA WatcherType ==
  ASSUME Inv, [Next]_vars
  PROVE  watch' \in Watcher
<1>1. Types /\ Records /\ Bounded /\ Requests /\ watch \in Watcher
  BY WatchIs DEF Inv, Revisions
<1>2. CASE UNCHANGED watch
  BY <1>1, <1>2
<1>3. CASE Serve
  <2>1. PICK m \in wire :
          \/ UNCHANGED watch
          \/ \E r \in Record : Stores(m, r)
          \/ Makes(m)
          \/ Deletes(m)
    BY <1>1, <1>3, ServeDoes
  <2>2. ASSUME NEW r \in Record, Stores(m, r) PROVE watch' \in Watcher
    <3>1. m.key \in Key /\ Publish(m.key, r)
      BY <1>1, <2>2, MessageIs DEF Stores
    <3>2. QED
      BY <1>1, <3>1, PublishType
  <2>3. CASE Makes(m)
    BY <1>1, <2>3 DEF Makes
  <2>4. CASE Deletes(m)
    BY <1>1, <2>4, VanishIs DEF Deletes
  <2>5. QED
    BY <1>1, <2>1, <2>2, <2>3, <2>4
<1>4. CASE Expire
  <2>1. PICK k \in Key : Vanish({k})
    BY <1>4 DEF Expire
  <2>2. QED
    BY <1>1, <2>1, VanishIs
<1>5. CASE Watch
  BY <1>1, <1>5, WatchBegins
<1>6. CASE Iterate
  BY <1>1, <1>6, IterateIs
<1>7. CASE Abandon
  BY <1>1, <1>7, AbandonIs
<1>8. CASE UNCHANGED vars
  BY <1>2, <1>8 DEF vars
<1>9. CASE \E t \in Task, k \in Key : GetEntry(t, k)
  BY <1>2, <1>9 DEF GetEntry
<1>10. CASE \E t \in Task, m \in Message : Begin(t, m) /\ m.id = calls + 1 /\ Meant(m) /\ cached' \in BOOLEAN
  BY <1>2, <1>10 DEF Begin
<1>11. CASE \E t \in Task : Resume(t) \/ Timeout(t)
  BY <1>2, <1>11 DEF Resume, Timeout
<1>12. QED
  BY <1>3, <1>4, <1>5, <1>6, <1>7, <1>8, <1>9, <1>10, <1>11, StepIs

-----------------------------------------------------------------------------
(* The invariant of the server and the calls.                              *)

LEMMA Inductive ==
  ASSUME Inv, [Next]_vars
  PROVE  Inv'
<1>1. watch' \in Watcher
  BY WatcherType
<1>2. Types /\ Requests /\ Replies
  BY DEF Inv, Revisions
<1>3. CASE UNCHANGED vars
  <2>1. UNCHANGED <<server, wire, at, entry, cached, calls, told>>
    BY <1>3 DEF vars
  <2>2. QED
    BY <1>1, <2>1, WatcherInv
<1>4. CASE \E t \in Task, k \in Key : GetEntry(t, k)
  BY <1>4, GetEntryInv
<1>5. CASE \E t \in Task, m \in Message : Begin(t, m) /\ m.id = calls + 1 /\ Meant(m) /\ cached' \in BOOLEAN
  BY <1>5, BeginInv
<1>6. ASSUME NEW t \in Task, Resume(t) PROVE Inv'
  <2>1. /\ UNCHANGED <<server, watch, calls, entry>> /\ cached' \in BOOLEAN
        /\ \/ \E m \in Message : GoesOn(t, m)
           \/ \E what \in Outcomes \ {"nothing"} :
                /\ Ends(t, what)
                /\ \E r \in at[t].reply :
                     /\ what = "stored" => at[t].req.step \in Writes /\ r.kind = "ack"
                     /\ what = "conflict" => ~(at[t].req.step \in Writes /\ r.kind = "ack")
    BY <1>2, <1>6, ResumeDoes
  <2>2. CASE \E m \in Message : GoesOn(t, m)
    BY <2>1, <2>2, GoesOnInv
  <2>3. ASSUME NEW what \in Outcomes \ {"nothing"}, Ends(t, what),
               \E r \in at[t].reply :
                 /\ what = "stored" => at[t].req.step \in Writes /\ r.kind = "ack"
                 /\ what = "conflict" => ~(at[t].req.step \in Writes /\ r.kind = "ack")
        PROVE  Inv'
    BY <2>1, <2>3, EndsInv
  <2>4. QED
    BY <2>1, <2>2, <2>3
<1>7. ASSUME NEW t \in Task, Timeout(t) PROVE Inv'
  <2>1. Ends(t, "timeout") /\ UNCHANGED <<server, watch, calls, entry>> /\ cached' \in BOOLEAN
    BY <1>2, <1>7 DEF Timeout, Ends, Types
  <2>2. "timeout" \in Outcomes
    BY DEF Outcomes
  <2>3. QED
    BY <2>1, <2>2, EndsInv
<1>8. CASE Watch \/ Iterate \/ Abandon
  <2>1. UNCHANGED <<server, wire, at, entry, cached, calls, told>>
    BY <1>8 DEF Watch, Iterate, Abandon
  <2>2. QED
    BY <1>1, <2>1, WatcherInv
<1>9. QED
  BY <1>1, <1>3, <1>4, <1>5, <1>6, <1>7, <1>8, StepIs, ServeInv, ExpireInv

LEMMA InvHolds == Spec => []Inv
<1>1. QED
  BY InitInv, Inductive, PTL DEF Spec

-----------------------------------------------------------------------------
(* What the watcher's caller knows.                                        *)

\* What is pending, position by position.
LEMMA PendingIs ==
  /\ \A k, i : i \in Pending(k) <=> i \in 1 .. Len(watch.queue) /\ watch.queue[i].rev # 0 /\ watch.queue[i].key = k
  /\ \A k, i : i \in Pending(k)' <=>
       i \in 1 .. Len(watch'.queue) /\ watch'.queue[i].rev # 0 /\ watch'.queue[i].key = k
<1>1. QED
  BY DEF Pending, Queued

LEMMA ViewedInit == ASSUME Init PROVE Viewed
<1>1. /\ watch = NoWatch /\ stream.made = 1
      /\ \A k \in Key : stream.rec[k] = Missing
  BY DEF Init
<1>2. watch.on = FALSE /\ watch.done = FALSE /\ watch.made = 0 /\ Queued = {}
  BY <1>1, NoWatchIs DEF Queued
<1>3. QED
  BY <1>1, <1>2, MissingIs DEF Viewed, Notes, Follows, Snapshots

LEMMA ViewedSame ==
  ASSUME Viewed, stream' = stream, watch' = watch
  PROVE  Viewed'
<1>1. Notes' /\ Queued' = Queued /\ \A k : Pending(k)' = Pending(k)
  BY DEF Viewed, Notes, Queued, Pending
<1>2. Follows'
  BY <1>1 DEF Viewed, Follows
<1>3. Snapshots'
  BY <1>1 DEF Viewed, Snapshots
<1>4. QED
  BY <1>1, <1>2, <1>3 DEF Viewed

\* Nothing is owed to a watcher of a stream that is no more.
LEMMA Unfollowed ==
  ASSUME Viewed, Types, watch' = watch, stream'.made \in Nat, stream'.made >= stream.made,
         ~(watch.on /\ watch.made = stream'.made /\ stream'.exists),
         \A k \in Key : ~stream'.rec[k].empty
  PROVE  Viewed'
<1>1. Queued' = Queued /\ \A k : Pending(k)' = Pending(k)
  BY DEF Queued, Pending
<1>2. watch.made <= stream'.made
  BY WatchIs, StreamIs DEF Viewed, Notes
<1>3. Notes'
  BY <1>1, <1>2 DEF Viewed, Notes
<1>4. Follows'
  BY DEF Follows
<1>5. Snapshots'
  BY <1>1 DEF Viewed, Snapshots
<1>6. QED
  BY <1>3, <1>4, <1>5 DEF Viewed

LEMMA Published ==
  ASSUME Viewed, Types, NEW k \in Key, NEW r \in Record, Publish(k, r),
         watch.on, watch.made = stream.made, stream.exists,
         r.rev # 0, ~r.empty, r.live <=> r.val # {},
         stream'.made = stream.made, stream'.exists = stream.exists,
         \A i \in Key : stream'.rec[i] = IF i = k THEN r ELSE stream.rec[i]
  PROVE  Viewed'
<1> DEFINE n == Len(watch.queue)
           e == Event(k, r)
<1>1. /\ watch'.on = watch.on /\ watch'.snapshot = watch.snapshot /\ watch'.made = watch.made
      /\ watch'.view = watch.view /\ watch'.done = watch.done
      /\ watch'.queue = IF watch.snapshot /\ ~r.live THEN watch.queue ELSE Append(watch.queue, Event(k, r))
      /\ \A i \in Key : watch'.seen[i] = IF i = k THEN watch.seen[i] \cup {r.val} ELSE watch.seen[i]
  BY PublishIs
<1>2. /\ n \in Nat /\ watch.queue \in Seq(Note)
      /\ \A i \in 1 .. n : watch.queue[i].key \in Key
  BY WatchIs
<1>3. e \in Note /\ e.key = k /\ e.rev = r.rev /\ e.val = r.val /\ e.live = r.live /\ e.empty = r.empty
  BY EventIs
<1>4. \A i \in 1 .. n : i \in 1 .. Len(watch'.queue) /\ watch'.queue[i] = watch.queue[i]
  BY <1>1, <1>2, <1>3
<1>5. \A i \in 1 .. Len(watch'.queue) : i \in 1 .. n \/ (i = n + 1 /\ watch'.queue[i] = e)
  BY <1>1, <1>2, <1>3
<1>6. ~watch.snapshot => n + 1 \in 1 .. Len(watch'.queue) /\ watch'.queue[n + 1] = e
  BY <1>1, <1>2, <1>3
<1> HIDE DEF e, n
<1>7. Notes /\ Follows /\ Snapshots
  BY DEF Viewed
<1>8. Notes'
  <2>1. watch'.made <= stream'.made /\ (watch'.done => ~watch'.on)
    BY <1>1, <1>7 DEF Notes
  <2>2. ASSUME NEW i \in 1 .. Len(watch'.queue)
        PROVE  /\ watch'.queue[i].rev = 0 => watch'.queue[i] = Marker
               /\ watch'.queue[i].rev # 0 =>
                    /\ watch'.queue[i].val \in watch'.seen[watch'.queue[i].key] /\ ~watch'.queue[i].empty
                    /\ watch'.queue[i].live <=> watch'.queue[i].val # {}
    <3>1. CASE i \in 1 .. n
      <4>1. /\ watch.queue[i].rev = 0 => watch.queue[i] = Marker
            /\ watch.queue[i].rev # 0 =>
                 /\ watch.queue[i].val \in watch.seen[watch.queue[i].key] /\ ~watch.queue[i].empty
                 /\ watch.queue[i].live <=> watch.queue[i].val # {}
        BY <1>7, <3>1 DEF Notes, Queued, n
      <4>2. watch'.queue[i] = watch.queue[i] /\ watch.queue[i].key \in Key
        BY <1>2, <1>4, <3>1
      <4>3. \A v : v \in watch.seen[watch.queue[i].key] => v \in watch'.seen[watch.queue[i].key]
        BY <1>1, <4>2
      <4>4. QED
        BY <4>1, <4>2, <4>3
    <3>2. CASE i = n + 1 /\ watch'.queue[i] = e
      BY <1>1, <1>3, <3>2
    <3>3. QED
      BY <1>5, <3>1, <3>2
  <2>3. \A i \in Key : ~stream'.rec[i].empty
    BY <1>7 DEF Notes
  <2>4. \A i \in Key : stream'.rec[i].val \in watch'.seen[i]
    BY <1>1, <1>7 DEF Notes
  <2>5. QED
    BY <2>1, <2>2, <2>3, <2>4 DEF Notes, Queued
<1>9. Follows'
  <2>1. SUFFICES ASSUME ~watch.snapshot, NEW i \in Key, stream'.rec[i].rev # 0
                 PROVE  \/ Pending(i)' = {} /\ watch'.view[i] = stream'.rec[i].val
                        \/ \E j \in Pending(i)' : /\ watch'.queue[j] = Event(i, stream'.rec[i])
                                                  /\ \A l \in Pending(i)' : l <= j
    BY <1>1 DEF Follows
  <2>2. CASE i = k
    <3>1. n + 1 \in Pending(i)' /\ watch'.queue[n + 1] = Event(i, stream'.rec[i])
      BY <1>3, <1>6, <2>1, <2>2, PendingIs DEF e
    <3>2. \A l \in Pending(i)' : l <= n + 1
      BY <1>2, <1>5, PendingIs
    <3>3. QED
      BY <3>1, <3>2
  <2>3. CASE i # k
    <3>1. \A j : j \in Pending(i)' <=> j \in Pending(i)
      BY <1>3, <1>4, <1>5, <2>3, PendingIs DEF n
    <3>2. Pending(i)' = Pending(i)
      BY <3>1
    <3>3. stream'.rec[i] = stream.rec[i] /\ watch'.view[i] = watch.view[i]
      BY <1>1, <2>3
    <3>4. \A j \in Pending(i) : watch'.queue[j] = watch.queue[j]
      BY <1>4, PendingIs DEF n
    <3>5. \/ Pending(i) = {} /\ watch.view[i] = stream.rec[i].val
          \/ \E j \in Pending(i) : /\ watch.queue[j] = Event(i, stream.rec[i])
                                   /\ \A l \in Pending(i) : l <= j
      BY <1>7, <2>1, <3>3 DEF Follows
    <3>6. QED
      BY <3>2, <3>3, <3>4, <3>5
  <2>4. QED
    BY <2>2, <2>3
<1>10. Snapshots'
  <2>1. \A i \in Key : \A j \in Pending(i) : j \in Pending(i)'
    BY <1>4, PendingIs DEF n
  <2>2. \A i \in Key : watch.view[i] \in watch.seen[i] => watch'.view[i] \in watch'.seen[i]
    BY <1>1
  <2>3. watch'.done => \A i \in Key : watch'.view[i] \in watch'.seen[i]
    BY <1>1, <1>7, <2>2 DEF Snapshots
  <2>4. ASSUME watch.snapshot
        PROVE  \E p \in Queued' :
                 /\ watch'.queue[p] = Marker /\ \A i \in 1 .. p - 1 : watch'.queue[i].rev # 0
                 /\ \A i \in Key : watch'.view[i] \in watch'.seen[i] \/ \E j \in Pending(i)' : j < p
    <3>1. PICK p \in Queued :
            /\ watch.queue[p] = Marker /\ \A i \in 1 .. p - 1 : watch.queue[i].rev # 0
            /\ \A i \in Key : watch.view[i] \in watch.seen[i] \/ \E j \in Pending(i) : j < p
      BY <1>7, <2>4 DEF Snapshots
    <3>2. p \in 1 .. n
      BY DEF Queued, n
    <3>3. p \in Queued' /\ watch'.queue[p] = Marker
      BY <1>4, <3>1, <3>2 DEF Queued
    <3>4. \A i \in 1 .. p - 1 : i \in 1 .. n
      BY <1>2, <3>2
    <3>5. \A i \in 1 .. p - 1 : watch'.queue[i].rev # 0
      BY <1>4, <3>1, <3>4
    <3>6. \A i \in Key : watch'.view[i] \in watch'.seen[i] \/ \E j \in Pending(i)' : j < p
      BY <2>1, <2>2, <3>1
    <3>7. QED
      BY <3>3, <3>5, <3>6
  <2>5. QED
    BY <1>1, <2>3, <2>4 DEF Snapshots
<1>11. QED
  BY <1>8, <1>9, <1>10 DEF Viewed

LEMMA Vanished ==
  ASSUME Viewed, Types, NEW gone \in SUBSET Key, Vanish(gone),
         stream'.made = stream.made, stream'.exists => stream.exists,
         \A k \in Key : stream'.rec[k] = IF k \in gone THEN Missing ELSE stream.rec[k]
  PROVE  Viewed'
<1>1. /\ watch'.on = watch.on /\ watch'.snapshot = watch.snapshot /\ watch'.made = watch.made
      /\ watch'.view = watch.view /\ watch'.done = watch.done /\ watch'.queue = watch.queue
      /\ \A i \in Key : watch'.seen[i] = IF i \in gone THEN watch.seen[i] \cup {{}} ELSE watch.seen[i]
  BY VanishIs
<1>2. Queued' = Queued /\ \A k : Pending(k)' = Pending(k)
  BY <1>1 DEF Queued, Pending
<1>3. Notes /\ Follows /\ Snapshots
  BY DEF Viewed
<1>4. \A k \in Key : \A v : v \in watch.seen[k] => v \in watch'.seen[k]
  BY <1>1
<1>5. \A i \in Queued : watch.queue[i].key \in Key
  BY WatchIs DEF Queued
<1>6. Notes'
  <2>1. \A k \in Key : ~stream'.rec[k].empty
    BY <1>3, MissingIs DEF Notes
  <2>2. watch'.on /\ watch'.made = stream'.made /\ stream'.exists =>
          \A k \in Key : stream'.rec[k].val \in watch'.seen[k]
    <3>1. SUFFICES ASSUME watch.on, watch.made = stream.made, stream.exists, NEW k \in Key
                   PROVE  stream'.rec[k].val \in watch'.seen[k]
      BY <1>1
    <3>2. stream.rec[k].val \in watch.seen[k]
      BY <1>3, <3>1 DEF Notes
    <3>3. CASE k \in gone
      BY <1>1, <3>3, MissingIs
    <3>4. CASE k \notin gone
      BY <1>1, <3>2, <3>4
    <3>5. QED
      BY <3>3, <3>4
  <2>3. \A i \in Queued' :
          /\ watch'.queue[i].rev = 0 => watch'.queue[i] = Marker
          /\ watch'.queue[i].rev # 0 =>
               /\ watch'.queue[i].val \in watch'.seen[watch'.queue[i].key] /\ ~watch'.queue[i].empty
               /\ watch'.queue[i].live <=> watch'.queue[i].val # {}
    BY <1>1, <1>2, <1>3, <1>4, <1>5 DEF Notes
  <2>4. watch'.made <= stream'.made /\ (watch'.done => ~watch'.on)
    BY <1>1, <1>3 DEF Notes
  <2>5. QED
    BY <2>1, <2>2, <2>3, <2>4 DEF Notes
<1>7. Follows'
  <2>1. SUFFICES ASSUME watch.on, ~watch.snapshot, watch.made = stream.made, stream.exists,
                        NEW k \in Key, stream'.rec[k].rev # 0
                 PROVE  \/ Pending(k)' = {} /\ watch'.view[k] = stream'.rec[k].val
                        \/ \E i \in Pending(k)' : /\ watch'.queue[i] = Event(k, stream'.rec[k])
                                                  /\ \A j \in Pending(k)' : j <= i
    BY <1>1 DEF Follows
  <2>2. stream'.rec[k] = stream.rec[k]
    BY <2>1, MissingIs
  <2>3. QED
    BY <1>1, <1>2, <1>3, <2>1, <2>2 DEF Follows
<1>8. Snapshots'
  <2>1. \A k \in Key : watch.view[k] \in watch.seen[k] => watch'.view[k] \in watch'.seen[k]
    BY <1>1, <1>4
  <2>2. QED
    BY <1>1, <1>2, <1>3, <2>1 DEF Snapshots
<1>9. QED
  BY <1>6, <1>7, <1>8 DEF Viewed

LEMMA Begun ==
  ASSUME Viewed, Types, Records, Watch, stream' = stream
  PROVE  Viewed'
<1>1. PICK snapshot \in BOOLEAN : \E q \in Replays(snapshot) :
        /\ watch'.on = TRUE /\ watch'.snapshot = snapshot /\ watch'.made = stream.made
        /\ watch'.queue = Append(q, Marker) /\ watch'.done = FALSE
        /\ \A k \in Key : watch'.seen[k] = {stream.rec[k].val} /\ watch'.view[k] = {}
  BY WatchBegins
<1>2. PICK q \in Replays(snapshot) :
        /\ watch'.on = TRUE /\ watch'.snapshot = snapshot /\ watch'.made = stream.made
        /\ watch'.queue = Append(q, Marker) /\ watch'.done = FALSE
        /\ \A k \in Key : watch'.seen[k] = {stream.rec[k].val} /\ watch'.view[k] = {}
  BY <1>1
<1> DEFINE n == Len(q)
           last(k) == Event(k, stream.rec[k])
<1>3. /\ q \in Seq(Note)
      /\ \A i \in 1 .. n : \E k \in Key :
           q[i] = last(k) /\ stream.rec[k].rev # 0 /\ (snapshot => stream.rec[k].live)
      /\ \A k \in Key : stream.rec[k].rev # 0 /\ (snapshot => stream.rec[k].live) =>
           \E i \in 1 .. n : q[i] = last(k)
      /\ \A i, j \in 1 .. n : q[i] = q[j] => i = j
  BY ReplayIs
<1>4. /\ n \in Nat /\ Len(watch'.queue) = n + 1 /\ watch'.queue[n + 1] = Marker
      /\ \A i \in 1 .. n : watch'.queue[i] = q[i]
  BY <1>2, <1>3, MarkerIs
<1>5. \A k \in Key : /\ last(k).key = k /\ last(k).rev = stream.rec[k].rev /\ last(k).val = stream.rec[k].val
                     /\ last(k).live = stream.rec[k].live /\ last(k).empty = stream.rec[k].empty
  BY StreamIs, EventIs
<1> HIDE DEF n, last
<1>6. \A i \in 1 .. Len(watch'.queue) : i \in 1 .. n \/ i = n + 1
  BY <1>4
<1>12. \A i \in 1 .. n : \E k \in Key : q[i] = last(k) /\ stream.rec[k].rev # 0
  BY <1>3
<1>13. \A i \in 1 .. n : \E k \in Key : watch'.queue[i] = last(k)
  BY <1>4, <1>12
<1>7. \A i \in 1 .. n : watch'.queue[i].rev # 0
  BY <1>4, <1>5, <1>12
<1>8. \A k \in Key : ~stream.rec[k].empty /\ (stream.rec[k].live <=> stream.rec[k].val # {})
  BY DEF Viewed, Notes, Records
<1>9. Notes'
  <2>1. ASSUME NEW i \in 1 .. Len(watch'.queue)
        PROVE  /\ watch'.queue[i].rev = 0 => watch'.queue[i] = Marker
               /\ watch'.queue[i].rev # 0 =>
                    /\ watch'.queue[i].val \in watch'.seen[watch'.queue[i].key] /\ ~watch'.queue[i].empty
                    /\ watch'.queue[i].live <=> watch'.queue[i].val # {}
    <3>1. CASE i \in 1 .. n
      <4>1. PICK k \in Key : watch'.queue[i] = last(k)
        BY <1>13, <3>1
      <4>2. QED
        BY <1>2, <1>5, <1>7, <1>8, <3>1, <4>1
    <3>2. CASE i = n + 1
      BY <1>4, <3>2, MarkerIs
    <3>3. QED
      BY <1>6, <3>1, <3>2
  <2>2. watch'.made <= stream'.made /\ ~watch'.done
    BY <1>2, StreamIs
  <2>3. \A k \in Key : stream'.rec[k].val \in watch'.seen[k]
    BY <1>2
  <2>4. QED
    BY <1>8, <2>1, <2>2, <2>3 DEF Notes, Queued
<1>10. Follows'
  <2>1. SUFFICES ASSUME ~snapshot, NEW k \in Key, stream.rec[k].rev # 0
                 PROVE  \E i \in Pending(k)' : /\ watch'.queue[i] = last(k)
                                               /\ \A j \in Pending(k)' : j <= i
    BY <1>2 DEF Follows, last
  <2>2. PICK i \in 1 .. n : q[i] = last(k)
    BY <1>3, <2>1
  <2>3. i \in Pending(k)' /\ watch'.queue[i] = last(k)
    BY <1>4, <1>5, <2>1, <2>2, PendingIs
  <2>4. ASSUME NEW j \in Pending(k)' PROVE j = i
    <3>1. j \in 1 .. n /\ watch'.queue[j].key = k
      BY <1>4, <1>6, <2>4, MarkerIs, PendingIs
    <3>2. PICK l \in Key : watch'.queue[j] = last(l)
      BY <1>13, <3>1
    <3>3. l = k
      BY <1>5, <3>1, <3>2
    <3>4. QED
      BY <1>3, <1>4, <2>2, <3>1, <3>2, <3>3
  <2>5. i <= i
    BY <1>4
  <2>6. QED
    BY <2>3, <2>4, <2>5
<1>11. Snapshots'
  <2>1. ASSUME snapshot
        PROVE  \A k \in Key : watch'.view[k] \in watch'.seen[k] \/ \E i \in Pending(k)' : i < n + 1
    <3>1. SUFFICES ASSUME NEW k \in Key, stream.rec[k].val # {}
                   PROVE  \E i \in Pending(k)' : i < n + 1
      BY <1>2
    <3>2. stream.rec[k].live /\ stream.rec[k].rev # 0
      BY <1>8, <3>1, MissingIs DEF Records
    <3>3. PICK i \in 1 .. n : q[i] = last(k)
      BY <1>3, <3>2
    <3>4. i \in Pending(k)'
      BY <1>4, <1>5, <3>2, <3>3, PendingIs
    <3>5. QED
      BY <1>4, <3>4
  <2>2. n + 1 \in Queued' /\ \A i \in 1 .. (n + 1) - 1 : watch'.queue[i].rev # 0
    BY <1>4, <1>7 DEF Queued
  <2>3. QED
    BY <1>2, <1>4, <2>1, <2>2 DEF Snapshots
<1>14. QED
  BY <1>9, <1>10, <1>11 DEF Viewed

LEMMA Iterated ==
  ASSUME Viewed, Types, Records, Iterate, stream' = stream
  PROVE  Viewed'
<1> DEFINE n == Len(watch.queue)
           e == Head(watch.queue)
<1>1. /\ watch.on /\ watch.queue # <<>>
      /\ watch'.snapshot = watch.snapshot /\ watch'.made = watch.made /\ watch'.seen = watch.seen
      /\ watch'.queue = Tail(watch.queue)
      /\ \/ /\ e = Marker /\ ~watch.snapshot
            /\ watch'.on = watch.on /\ watch'.done = watch.done /\ watch'.view = watch.view
         \/ /\ e = Marker /\ watch.snapshot
            /\ watch'.on = FALSE /\ watch'.done = TRUE /\ watch'.view = watch.view
         \/ /\ e # Marker
            /\ watch'.on = watch.on /\ watch'.done = watch.done
            /\ \A k \in Key :
                 watch'.view[k] = IF k = e.key THEN IF e.live /\ ~e.empty THEN e.val ELSE {}
                                  ELSE watch.view[k]
  BY IterateIs
<1>2. watch.queue \in Seq(Note)
  BY WatchIs
<1>3. /\ n \in Nat \ {0} /\ e = watch.queue[1] /\ Len(watch'.queue) = n - 1
      /\ \A i \in 1 .. n - 1 : watch'.queue[i] = watch.queue[i + 1]
  BY <1>1, <1>2, HeadTailProperties, EmptySeq
<1>4. Notes /\ Follows /\ Snapshots /\ Queued = 1 .. n
  BY DEF Viewed, Queued
<1> HIDE DEF n, e
<1>5. 1 \in Queued /\ \A i \in 1 .. n - 1 : i + 1 \in Queued
  BY <1>3, <1>4
<1>6. \A k : \A i \in Pending(k)' : i + 1 \in Pending(k) /\ i \in 1 .. n - 1
  <2>1. SUFFICES ASSUME NEW k, NEW i \in Pending(k)' PROVE i + 1 \in Pending(k) /\ i \in 1 .. n - 1
    OBVIOUS
  <2>2. i \in 1 .. n - 1 /\ watch'.queue[i].rev # 0 /\ watch'.queue[i].key = k
    BY <1>3, PendingIs
  <2>3. i + 1 \in 1 .. Len(watch.queue) /\ watch'.queue[i] = watch.queue[i + 1]
    BY <1>3, <2>2 DEF n
  <2>4. QED
    BY <2>2, <2>3, PendingIs
<1>7. \A k : \A i \in Pending(k) : i \in 1 .. n /\ (i = 1 \/ i - 1 \in Pending(k)')
  <2>1. SUFFICES ASSUME NEW k, NEW i \in Pending(k), i # 1 PROVE i - 1 \in Pending(k)'
    BY PendingIs DEF n
  <2>2. i \in 1 .. n /\ watch.queue[i].rev # 0 /\ watch.queue[i].key = k
    BY PendingIs DEF n
  <2>3. i - 1 \in 1 .. n - 1 /\ (i - 1) + 1 = i
    BY <1>3, <2>1, <2>2
  <2>4. watch'.queue[i - 1] = watch.queue[i]
    BY <1>3, <2>3
  <2>5. QED
    BY <1>3, <2>2, <2>3, <2>4, PendingIs
<1>8. e # Marker => e.rev # 0 /\ e.val \in watch.seen[e.key] /\ ~e.empty /\ (e.live <=> e.val # {})
  BY <1>3, <1>4, <1>5 DEF Notes
<1>9. e # Marker => \A k \in Key : watch'.view[k] = IF k = e.key THEN e.val ELSE watch.view[k]
  BY <1>1, <1>8
<1>10. e = Marker => watch'.view = watch.view
  BY <1>1
<1>11. \A k : 1 \in Pending(k) <=> e.rev # 0 /\ e.key = k
  BY <1>3, PendingIs DEF n
<1>12. Notes'
  <2>1. \A i \in Queued' : watch'.queue[i] = watch.queue[i + 1] /\ i + 1 \in Queued
    BY <1>3, <1>5 DEF Queued
  <2>2. \A i \in Queued' :
          /\ watch'.queue[i].rev = 0 => watch'.queue[i] = Marker
          /\ watch'.queue[i].rev # 0 =>
               /\ watch'.queue[i].val \in watch'.seen[watch'.queue[i].key] /\ ~watch'.queue[i].empty
               /\ watch'.queue[i].live <=> watch'.queue[i].val # {}
    <3>1. SUFFICES ASSUME NEW i \in Queued'
                   PROVE  /\ watch'.queue[i].rev = 0 => watch'.queue[i] = Marker
                          /\ watch'.queue[i].rev # 0 =>
                               /\ watch'.queue[i].val \in watch'.seen[watch'.queue[i].key] /\ ~watch'.queue[i].empty
                               /\ watch'.queue[i].live <=> watch'.queue[i].val # {}
      OBVIOUS
    <3>2. PICK j \in Queued : watch'.queue[i] = watch.queue[j]
      BY <2>1
    <3>3. /\ watch.queue[j].rev = 0 => watch.queue[j] = Marker
          /\ watch.queue[j].rev # 0 =>
               /\ watch.queue[j].val \in watch.seen[watch.queue[j].key] /\ ~watch.queue[j].empty
               /\ watch.queue[j].live <=> watch.queue[j].val # {}
      BY <1>4 DEF Notes
    <3>4. QED
      BY <1>1, <3>2, <3>3
  <2>3. watch'.done => ~watch'.on
    BY <1>1, <1>4 DEF Notes
  <2>4. watch'.made <= stream'.made
    BY <1>1, <1>4 DEF Notes
  <2>5. \A k \in Key : ~stream'.rec[k].empty
    BY <1>4 DEF Notes
  <2>6. watch'.on /\ watch'.made = stream'.made /\ stream'.exists =>
          \A k \in Key : stream'.rec[k].val \in watch'.seen[k]
    BY <1>1, <1>4 DEF Notes
  <2>7. QED
    BY <2>2, <2>3, <2>4, <2>5, <2>6 DEF Notes
<1>13. Follows'
  <2>1. SUFFICES ASSUME ~watch.snapshot, watch.made = stream.made, stream.exists,
                        NEW k \in Key, stream.rec[k].rev # 0
                 PROVE  \/ Pending(k)' = {} /\ watch'.view[k] = stream.rec[k].val
                        \/ \E i \in Pending(k)' : /\ watch'.queue[i] = Event(k, stream.rec[k])
                                                  /\ \A j \in Pending(k)' : j <= i
    BY <1>1 DEF Follows
  <2>2. CASE Pending(k) = {} /\ watch.view[k] = stream.rec[k].val
    <3>1. Pending(k)' = {}
      BY <1>6, <2>2
    <3>2. e # Marker => k # e.key
      BY <1>8, <1>11, <2>2
    <3>3. watch'.view[k] = watch.view[k]
      BY <1>9, <1>10, <3>2
    <3>4. QED
      BY <2>2, <3>1, <3>3
  <2>3. ASSUME NEW i \in Pending(k), watch.queue[i] = Event(k, stream.rec[k]), \A j \in Pending(k) : j <= i
        PROVE  \/ Pending(k)' = {} /\ watch'.view[k] = stream.rec[k].val
               \/ \E l \in Pending(k)' : /\ watch'.queue[l] = Event(k, stream.rec[k])
                                         /\ \A j \in Pending(k)' : j <= l
    <3>1. CASE i = 1
      <4>1. ~(\E j \in Pending(k)' : TRUE)
        <5>1. SUFFICES ASSUME NEW j \in Pending(k)' PROVE FALSE
          OBVIOUS
        <5>2. j + 1 <= 1 /\ j \in 1 .. n - 1
          BY <1>6, <2>3, <3>1
        <5>3. QED
          BY <1>3, <5>2
      <4>2. e = Event(k, stream.rec[k]) /\ e.key = k /\ e.rev # 0 /\ e.val = stream.rec[k].val
        BY <1>3, <2>1, <2>3, <3>1, StreamIs, EventIs
      <4>3. watch'.view[k] = stream.rec[k].val
        BY <1>9, <4>2, MarkerIs
      <4>4. QED
        BY <4>1, <4>3
    <3>2. CASE i # 1
      <4>1. i - 1 \in Pending(k)' /\ i \in 1 .. n
        BY <1>7, <2>3, <3>2
      <4>2. i - 1 \in 1 .. n - 1 /\ (i - 1) + 1 = i
        BY <1>3, <3>2, <4>1
      <4>3. watch'.queue[i - 1] = Event(k, stream.rec[k])
        BY <1>3, <2>3, <4>2
      <4>4. ASSUME NEW j \in Pending(k)' PROVE j <= i - 1
        <5>1. j + 1 <= i /\ j \in 1 .. n - 1
          BY <1>6, <2>3
        <5>2. QED
          BY <1>3, <4>1, <5>1
      <4>5. QED
        BY <4>1, <4>3, <4>4
    <3>3. QED
      BY <3>1, <3>2
  <2>4. QED
    BY <1>1, <1>4, <2>1, <2>2, <2>3 DEF Follows
<1>14. Snapshots'
  <2>1. ASSUME watch.snapshot
        PROVE  \E p \in Queued :
                 /\ watch.queue[p] = Marker /\ \A i \in 1 .. p - 1 : watch.queue[i].rev # 0
                 /\ \A k \in Key : watch.view[k] \in watch.seen[k] \/ \E i \in Pending(k) : i < p
    BY <1>1, <1>4, <2>1 DEF Snapshots
  <2>2. watch'.done => \A k \in Key : watch'.view[k] \in watch'.seen[k]
    <3>1. SUFFICES ASSUME e = Marker, watch.snapshot
                   PROVE  \A k \in Key : watch.view[k] \in watch.seen[k]
      BY <1>1, <1>4 DEF Notes
    <3>2. PICK p \in Queued :
            /\ \A i \in 1 .. p - 1 : watch.queue[i].rev # 0
            /\ \A k \in Key : watch.view[k] \in watch.seen[k] \/ \E i \in Pending(k) : i < p
      BY <2>1, <3>1
    <3>3. ~(1 \in 1 .. p - 1)
      BY <1>3, <3>1, <3>2, MarkerIs
    <3>4. p = 1
      BY <1>3, <1>4, <3>2, <3>3
    <3>5. \A k : \A i \in Pending(k) : ~(i < 1)
      BY <1>3, <1>7
    <3>6. QED
      BY <3>2, <3>4, <3>5
  <2>3. ASSUME watch'.on, watch.snapshot
        PROVE  \E p \in Queued' :
                 /\ watch'.queue[p] = Marker /\ \A i \in 1 .. p - 1 : watch'.queue[i].rev # 0
                 /\ \A k \in Key : watch'.view[k] \in watch'.seen[k] \/ \E i \in Pending(k)' : i < p
    <3>1. PICK p \in Queued :
            /\ watch.queue[p] = Marker /\ \A i \in 1 .. p - 1 : watch.queue[i].rev # 0
            /\ \A k \in Key : watch.view[k] \in watch.seen[k] \/ \E i \in Pending(k) : i < p
      BY <2>1, <2>3
    <3>2. e # Marker
      BY <1>1, <2>3
    <3>3. p # 1
      BY <1>3, <3>1, <3>2
    <3>4. p \in 1 .. n /\ p - 1 \in 1 .. n - 1 /\ (p - 1) + 1 = p
      BY <1>3, <1>4, <3>3
    <3>5. p - 1 \in Queued' /\ watch'.queue[p - 1] = Marker
      BY <1>3, <3>1, <3>4 DEF Queued
    <3>6. ASSUME NEW i \in 1 .. (p - 1) - 1 PROVE watch'.queue[i].rev # 0
      <4>1. i + 1 \in 1 .. p - 1 /\ i \in 1 .. n - 1
        BY <1>3, <3>4, <3>6
      <4>2. QED
        BY <1>3, <3>1, <4>1
    <3>7. ASSUME NEW k \in Key PROVE watch'.view[k] \in watch'.seen[k] \/ \E i \in Pending(k)' : i < p - 1
      <4>1. CASE k = e.key
        BY <1>1, <1>8, <1>9, <3>2, <4>1
      <4>2. CASE k # e.key
        <5>1. watch'.view[k] = watch.view[k]
          BY <1>9, <3>2, <4>2
        <5>2. CASE watch.view[k] \in watch.seen[k]
          BY <1>1, <5>1, <5>2
        <5>3. ASSUME NEW i \in Pending(k), i < p PROVE \E j \in Pending(k)' : j < p - 1
          <6>1. i # 1
            BY <1>11, <4>2
          <6>2. i - 1 \in Pending(k)' /\ i \in 1 .. n
            BY <1>7, <6>1
          <6>3. i - 1 < p - 1
            BY <1>3, <3>4, <5>3, <6>2
          <6>4. QED
            BY <6>2, <6>3
        <5>4. QED
          BY <3>1, <5>2, <5>3
      <4>3. QED
        BY <4>1, <4>2
    <3>8. QED
      BY <3>5, <3>6, <3>7
  <2>4. QED
    BY <1>1, <2>2, <2>3 DEF Snapshots
<1>15. QED
  BY <1>12, <1>13, <1>14 DEF Viewed

LEMMA Abandoned ==
  ASSUME Viewed, Types, Abandon, stream' = stream
  PROVE  Viewed'
<1>1. /\ watch'.on = FALSE /\ watch'.queue = <<>>
      /\ watch'.made = watch.made /\ watch'.seen = watch.seen
      /\ watch'.view = watch.view /\ watch'.done = watch.done
  BY AbandonIs
<1>2. Queued' = {}
  BY <1>1 DEF Queued
<1>3. Notes'
  BY <1>1, <1>2 DEF Viewed, Notes
<1>4. Follows'
  BY <1>1 DEF Follows
<1>5. Snapshots'
  BY <1>1 DEF Viewed, Snapshots
<1>6. QED
  BY <1>3, <1>4, <1>5 DEF Viewed

LEMMA ViewedKept ==
  ASSUME TRUE \notin Empty, Inv, Viewed, [Next]_vars
  PROVE  Viewed'
<1>1. Types /\ Records /\ Bounded /\ Requests /\ Notes
  BY DEF Inv, Revisions, Viewed
<1>2. CASE UNCHANGED <<stream, watch>>
  BY <1>2, ViewedSame
<1>3. CASE Serve
  <2>1. PICK m \in wire :
          \/ UNCHANGED <<server, watch>>
          \/ \E r \in Record : Stores(m, r)
          \/ Makes(m)
          \/ Deletes(m)
    BY <1>1, <1>3, ServeDoes
  <2>2. ASSUME NEW r \in Record, Stores(m, r) PROVE Viewed'
    <3>1. /\ m.step \in Writes /\ stream.exists /\ Publish(m.key, r)
          /\ r.rev = stream.seq + 1 /\ r.val = m.val /\ r.empty = m.empty
          /\ r.live = (m.step \notin {"delete", "purge"})
          /\ stream' = [stream EXCEPT !.seq = @ + 1, !.rec[m.key] = r]
      BY <2>2 DEF Stores
    <3>2. m.key \in Key /\ m.empty \in BOOLEAN /\ Meant(m)
      BY <1>1, MessageIs DEF Requests, Sound
    <3>3. r.rev # 0
      BY <1>1, <3>1, StreamIs
    <3>4. ~r.empty
      BY <3>1, <3>2 DEF Meant
    <3>5. r.live <=> r.val # {}
      BY <3>1, <3>2 DEF Meant, Writes
    <3>6. /\ stream'.made = stream.made /\ stream'.exists = stream.exists
          /\ \A i \in Key : stream'.rec[i] = IF i = m.key THEN r ELSE stream.rec[i]
      BY <1>1, <3>1, <3>2 DEF Types, Stream
    <3>7. CASE watch.on /\ watch.made = stream.made
      BY <1>1, <3>1, <3>2, <3>3, <3>4, <3>5, <3>6, <3>7, Published
    <3>8. CASE ~(watch.on /\ watch.made = stream.made)
      <4>1. watch' = watch
        BY <3>1, <3>8 DEF Publish
      <4>2. stream'.made \in Nat /\ stream'.made >= stream.made
        BY <1>1, <3>6, StreamIs
      <4>3. \A i \in Key : ~stream'.rec[i].empty
        BY <1>1, <3>4, <3>6 DEF Notes
      <4>4. QED
        BY <1>1, <3>6, <3>8, <4>1, <4>2, <4>3, Unfollowed
    <3>9. QED
      BY <3>7, <3>8
  <2>3. CASE Makes(m)
    <3>1. stream'.made = stream.made + 1 /\ watch' = watch /\ \A k \in Key : stream'.rec[k] = Missing
      BY <2>3 DEF Makes
    <3>2. /\ stream'.made \in Nat /\ stream'.made >= stream.made
          /\ watch.made # stream'.made
      BY <1>1, <3>1, StreamIs, WatchIs DEF Notes
    <3>3. QED
      BY <1>1, <3>1, <3>2, MissingIs, Unfollowed
  <2>4. CASE Deletes(m)
    <3>1. stream' = [stream EXCEPT !.exists = FALSE, !.rec = NoRecords] /\ Vanish(Key)
      BY <2>4 DEF Deletes, NoRecords
    <3>2. stream'.made = stream.made /\ stream'.exists = FALSE /\ stream'.rec = NoRecords
      BY <1>1, <3>1 DEF Types, Stream
    <3>3. QED
      BY <1>1, <3>1, <3>2, MissingIs, Vanished
  <2>5. QED
    BY <1>2, <2>1, <2>2, <2>3, <2>4 DEF server
<1>4. CASE Expire
  <2>1. PICK k \in Key : Vanish({k}) /\ stream' = [stream EXCEPT !.rec[k] = Missing]
    BY <1>4 DEF Expire
  <2>2. /\ stream'.made = stream.made /\ stream'.exists = stream.exists
        /\ \A i \in Key : stream'.rec[i] = IF i \in {k} THEN Missing ELSE stream.rec[i]
    BY <1>1, <2>1 DEF Types, Stream
  <2>3. QED
    BY <1>1, <2>1, <2>2, Vanished
<1>5. CASE Watch \/ Iterate \/ Abandon
  <2>1. stream' = stream
    BY <1>5 DEF Watch, Iterate, Abandon, server
  <2>2. QED
    BY <1>1, <1>5, <2>1, Begun, Iterated, Abandoned
<1>6. CASE UNCHANGED vars
  BY <1>2, <1>6 DEF vars, server
<1>7. CASE \E t \in Task, k \in Key : GetEntry(t, k)
  BY <1>2, <1>7 DEF GetEntry, server
<1>8. CASE \E t \in Task, m \in Message : Begin(t, m) /\ m.id = calls + 1 /\ Meant(m) /\ cached' \in BOOLEAN
  BY <1>2, <1>8 DEF Begin, server
<1>9. CASE \E t \in Task : Resume(t) \/ Timeout(t)
  BY <1>2, <1>9 DEF Resume, Timeout, server
<1>10. QED
  BY <1>3, <1>4, <1>5, <1>6, <1>7, <1>8, <1>9, StepIs

-----------------------------------------------------------------------------
(* The theorems.                                                           *)

\* The types of the variables, and that there are no more revisions than calls
\* nor streams than calls that make one: what keeps revisions apart.
THEOREM TypeCorrect == Spec => []TypeOK
<1>1. Inv => TypeOK
  <2>1. SUFFICES ASSUME Inv PROVE TypeOK
    OBVIOUS
  <2>2. /\ Types /\ Records /\ Requests /\ Entries /\ Replies /\ OneRequest /\ UnderWay /\ Bounded
    BY <2>1 DEF Inv, Revisions, Once
  <2>3. calls \in Nat /\ calls <= MaxCalls /\ MaxCalls \in Nat
    BY <2>2, IdsAre DEF Types
  <2>4. Cardinality(Spent) \in Nat /\ Cardinality(Spent) <= MaxCalls
    <3>1. Spent \in SUBSET (1 .. calls)
      BY DEF Spent
    <3>2. IsFiniteSet(1 .. calls) /\ Cardinality(1 .. calls) = calls
      BY <2>3, FS_Interval
    <3>3. IsFiniteSet(Spent) /\ Cardinality(Spent) <= calls
      BY <3>1, <3>2, FS_Subset
    <3>4. Cardinality(Spent) \in Nat
      BY <3>3, FS_CardinalityType
    <3>5. QED
      BY <2>3, <3>3, <3>4
  <2>5. stream.seq \in 0 .. MaxCalls /\ stream.made \in 1 .. MaxCalls + 1
    BY <2>2, <2>3, <2>4, StreamIs DEF Bounded, Records
  <2>6. \A k \in Key : /\ stream.rec[k].rev \in 0 .. stream.seq /\ stream.rec[k].val \subseteq Id
                       /\ alive[k] \subseteq Id
    <3>1. SUFFICES ASSUME NEW k \in Key
                   PROVE  /\ stream.rec[k].rev \in 0 .. stream.seq /\ stream.rec[k].val \subseteq Id
                          /\ alive[k] \subseteq Id
      OBVIOUS
    <3>2. stream.rec[k].rev \in 0 .. stream.seq
      BY <2>2, StreamIs DEF Records
    <3>3. stream.rec[k].val \subseteq Id /\ alive[k] \subseteq Id
      BY <2>2, StreamIs DEF Types
    <3>4. QED
      BY <3>2, <3>3
  <2>7. \A m \in wire : m.step \in Steps \ {"idle"} /\ m.id \in 1 .. calls
    BY <2>2, MessageIs DEF Requests, Sound, Meant
  <2>8. \A t \in Task : \A r \in at[t].reply : r.kind \in Kinds /\ at[t].req \notin wire
    <3>1. SUFFICES ASSUME NEW t \in Task, NEW r \in at[t].reply
                   PROVE  r.kind \in Kinds /\ at[t].req \notin wire
      OBVIOUS
    <3>2. r.kind \in Kinds
      BY <2>2, TaskIs DEF Answered
    <3>3. at[t] # Idle
      BY IdleIs
    <3>4. QED
      BY <2>2, <3>2, <3>3 DEF OneRequest
  <2>9. \A t \in Task : at[t] # Idle => told[at[t].req.id] = "nothing"
    BY <2>2 DEF UnderWay
  <2>10. \A t \in Task, k \in Key : entry[t][k] # NoEntry =>
           /\ entry[t][k].rev \in 1 .. MaxCalls /\ entry[t][k].val \in (SUBSET Id) \ {{}}
           /\ entry[t][k].made \in 1 .. stream.made
    <3>1. SUFFICES ASSUME NEW t \in Task, NEW k \in Key, entry[t][k] # NoEntry
                   PROVE  /\ entry[t][k].rev \in 1 .. MaxCalls /\ entry[t][k].val \in (SUBSET Id) \ {{}}
                          /\ entry[t][k].made \in 1 .. stream.made
      OBVIOUS
    <3>2. entry[t][k] \in Entry
      BY <2>2 DEF Types
    <3>3. entry[t][k].rev \in Nat /\ entry[t][k].val \in SUBSET Id
      BY <3>2 DEF Entry
    <3>4. entry[t][k].val # {} /\ Names(k, entry[t][k].rev, entry[t][k].made, entry[t][k].val)
      BY <2>2, <3>1 DEF Entries
    <3>5. entry[t][k].rev \in 1 .. MaxCalls /\ entry[t][k].made \in 1 .. stream.made
      <4> DEFINE e == entry[t][k]
      <4>1. e.rev \in Nat /\ e.rev >= 1 /\ e.rev <= MaxCalls /\ e.made \in 1 .. stream.made
        BY <3>3, <3>4 DEF Names
      <4> HIDE DEF e
      <4>2. e.rev \in 1 .. MaxCalls
        BY <2>3, <4>1
      <4>3. QED
        BY <4>1, <4>2 DEF e
    <3>6. QED
      BY <3>3, <3>4, <3>5
  <2>11. cached \in BOOLEAN /\ overrun \subseteq Id
         /\ told \in [Id -> {"nothing", "done", "stored", "conflict", "failed", "timeout"}]
    BY <2>2 DEF Types, Outcomes
  <2>12. QED
    BY <2>5, <2>6, <2>7, <2>8, <2>9, <2>10, <2>11 DEF TypeOK
<1>2. QED
  BY <1>1, InvHolds, PTL

\* No write is lost to an update(), a create() or a delete(revision) that knew an older record
\* of this bucket, whatever the server gets late; one that knew a record of a bucket of this name
\* that was deleted is accounted for in `overrun'.
THEOREM WritesKept == Spec => []NothingLost
<1>1. Inv => NothingLost
  BY DEF Inv
<1>2. QED
  BY <1>1, InvHolds, PTL

\* No request is about the stream as a whole.
OneStream ==
  /\ stream.made = 1
  /\ \A m \in wire : m.step \notin {"key_value", "create_key_value", "delete_key_value"}
  /\ \A t \in Task : at[t].req.step \notin {"key_value", "create_key_value", "delete_key_value"}

LEMMA OneStreamBegins ==
  ASSUME Types, OneStream, NEW t \in Task, NEW m, Ask(t, m), stream' = stream,
         m.step \notin {"key_value", "create_key_value", "delete_key_value"}
  PROVE  OneStream'
<1>1. \A u \in Task : at'[u].req = IF u = t THEN m ELSE at[u].req
  BY DEF Ask, Types
<1>2. wire' = wire \cup {m}
  BY DEF Ask
<1>3. QED
  BY <1>1, <1>2 DEF OneStream

\* If no bucket is opened or deleted, update(), create() and delete(revision) replace only what
\* their caller has read.
THEOREM OnlyReadReplaced ==
  ASSUME ~Opens
  PROVE  Spec => []NeverOverrun
<1> DEFINE J == OneStream /\ NeverOverrun
<1>1. Init => J
  BY IdleIs DEF Init, OneStream, NeverOverrun
<1>2. Inv /\ J /\ [Next]_vars => J'
  <2> SUFFICES ASSUME Inv, J, [Next]_vars PROVE J'
    OBVIOUS
  <2>1. Types /\ Records /\ Requests /\ Entries /\ Replies /\ Bounded
    BY DEF Inv, Revisions
  <2>2. CASE UNCHANGED vars
    BY <2>2 DEF vars, server, OneStream, NeverOverrun
  <2>3. ASSUME NEW t \in Task, Call(t) PROVE J'
    <3>1. CASE \E k \in Key : GetEntry(t, k)
      BY <3>1 DEF GetEntry, server, OneStream, NeverOverrun
    <3>2. CASE \E k \in Key : Put(t, k) \/ Update(t, k) \/ Create(t, k) \/ Delete(t, k) \/ Purge(t, k)
      <4>1. PICK m : Begin(t, m) /\ m.step \in Writes
        <5>1. CASE \E k \in Key : Put(t, k)
          <6>1. PICK k \in Key, ttl \in Ttl, empty \in Empty :
                  Begin(t, [Request(calls + 1, "put", k, Unchecked, Id, {calls + 1})
                              EXCEPT !.ttl = ttl, !.empty = empty])
            BY <5>1 DEF Put
          <6>2. [Request(calls + 1, "put", k, Unchecked, Id, {calls + 1})
                   EXCEPT !.ttl = ttl, !.empty = empty].step = "put"
            BY DEF Request
          <6>3. QED
            BY <6>1, <6>2 DEF Writes
        <5>2. CASE \E k \in Key : Update(t, k)
          <6>1. PICK k \in Key, ttl \in Ttl :
                  Begin(t, [Request(calls + 1, "update", k, entry[t][k].rev, entry[t][k].val,
                                    entry[t][k].val \cup {calls + 1})
                              EXCEPT !.ttl = ttl, !.made = entry[t][k].made])
            BY <5>2 DEF Update
          <6>2. [Request(calls + 1, "update", k, entry[t][k].rev, entry[t][k].val,
                         entry[t][k].val \cup {calls + 1})
                   EXCEPT !.ttl = ttl, !.made = entry[t][k].made].step = "update"
            BY DEF Request
          <6>3. QED
            BY <6>1, <6>2 DEF Writes
        <5>3. CASE \E k \in Key : Create(t, k)
          BY <5>3 DEF Create, Request, Writes
        <5>4. CASE \E k \in Key : Delete(t, k)
          BY <5>4 DEF Delete, Request, Writes
        <5>5. CASE \E k \in Key : Purge(t, k)
          BY <5>5 DEF Purge, Request, Writes
        <5>6. QED
          BY <3>2, <5>1, <5>2, <5>3, <5>4, <5>5
      <4>2. m.step \notin {"key_value", "create_key_value", "delete_key_value"}
        BY <4>1 DEF Writes
      <4>3. stream' = stream /\ overrun' = overrun /\ Ask(t, m)
        BY <4>1 DEF Begin, server
      <4>4. QED
        BY <2>1, <4>2, <4>3, OneStreamBegins DEF NeverOverrun
    <3>3. QED
      BY <2>3, <3>1, <3>2 DEF Call, Open, DeleteBucket
  <2>4. ASSUME NEW t \in Task, Resume(t) PROVE J'
    <3>1. stream' = stream /\ overrun' = overrun
      BY <2>4 DEF Resume, server
    <3>2. ASSUME NEW what, Return(t, what) PROVE J'
      <4>1. \A u \in Task : at'[u] = IF u = t THEN Idle ELSE at[u]
        BY <2>1, <3>2 DEF Return, Types
      <4>2. wire' = wire
        BY <3>2 DEF Return
      <4>3. QED
        BY <3>1, <4>1, <4>2, IdleIs DEF OneStream, NeverOverrun
    <3>3. ASSUME NEW m, Ask(t, m), m.step \in {"look", "again"} PROVE J'
      BY <2>1, <3>1, <3>3, OneStreamBegins DEF NeverOverrun
    <3>4. at[t].req \in Message
      BY <2>1, TaskIs
    <3>5. PICK r \in at[t].reply : Written(t, r) \/ Created(t, r) \/ Looked(t, r)
      BY <2>4 DEF Resume, Opened, BucketDeleted, OneStream
    <3>6. CASE Written(t, r)
      BY <3>2, <3>6 DEF Written
    <3>7. CASE Created(t, r)
      <4>1. [at[t].req EXCEPT !.step = "look"].step = "look"
        BY <3>4 DEF Message
      <4>2. QED
        BY <3>2, <3>3, <3>7, <4>1 DEF Created
    <3>8. CASE Looked(t, r)
      <4>1. [at[t].req EXCEPT !.step = "again", !.last = r.rev, !.made = r.made].step = "again"
        BY <3>4 DEF Message
      <4>2. QED
        BY <3>2, <3>3, <3>8, <4>1 DEF Looked
    <3>9. QED
      BY <3>5, <3>6, <3>7, <3>8
  <2>5. ASSUME NEW t \in Task, Timeout(t) PROVE J'
    <3>1. /\ \A u \in Task : at'[u] = IF u = t THEN Idle ELSE at[u]
          /\ UNCHANGED <<wire, stream, overrun>>
      BY <2>1, <2>5 DEF Timeout, Return, server, Types
    <3>2. QED
      BY <3>1, IdleIs DEF OneStream, NeverOverrun
  <2>6. CASE Serve
    <3>1. PICK m \in wire :
            /\ wire' = wire \ {m}
            /\ \E r \in Answered : Answer(m, r)
            /\ \/ UNCHANGED server
               \/ \E r \in Record : Stores(m, r)
               \/ Makes(m)
               \/ Deletes(m)
      BY <2>1, <2>6, ServeDoes
    <3>2. \A u \in Task : at'[u].req = at[u].req
      <4>1. PICK r \in Answered : Answer(m, r)
        BY <3>1
      <4>2. QED
        BY <2>1, <4>1, TaskIs DEF Answer, State
    <3>3. stream'.made = stream.made /\ overrun' = overrun => J'
      BY <3>1, <3>2 DEF OneStream, NeverOverrun
    <3>4. CASE UNCHANGED server
      BY <3>3, <3>4 DEF server
    <3>5. CASE Makes(m) \/ Deletes(m)
      BY <3>5 DEF Makes, Deletes, OneStream
    <3>6. ASSUME NEW r \in Record, Stores(m, r) PROVE J'
      <4>1. /\ Meant(m) /\ m.key \in Key /\ m.made \in Nat /\ m.step \in Writes
            /\ alive[m.key] \in SUBSET Id /\ stream.made = 1
        BY <2>1, <3>6, MessageIs, StreamIs DEF Requests, Sound, Stores, Types, OneStream
      <4>2. stream'.made = stream.made
        BY <2>1, <3>6 DEF Stores, Types, Stream
      <4>3. overrun' = IF Outdated(m) THEN overrun \cup (Intended(m) \ m.val) ELSE overrun
        BY <3>6 DEF Stores
      <4>4. Outdated(m) => m.last = Unchecked /\ m.base = Id
        BY <4>1 DEF Outdated, Meant, Names
      <4>5. Outdated(m) => Intended(m) \ m.val = {}
        BY <4>1, <4>4 DEF Intended
      <4>6. QED
        BY <3>3, <4>2, <4>3, <4>5
    <3>7. QED
      BY <3>1, <3>4, <3>5, <3>6
  <2>7. CASE Expire
    <3>1. PICK k \in Key : /\ stream' = [stream EXCEPT !.rec[k] = Missing]
                           /\ UNCHANGED <<overrun, wire, at>>
      BY <2>7 DEF Expire
    <3>2. QED
      BY <2>1, <3>1 DEF OneStream, NeverOverrun, Types, Stream
  <2>8. CASE Watch \/ Iterate \/ Abandon
    BY <2>8 DEF Watch, Iterate, Abandon, server, OneStream, NeverOverrun
  <2>9. QED
    BY <2>2, <2>3, <2>4, <2>5, <2>6, <2>7, <2>8 DEF Next
<1>3. J => NeverOverrun
  OBVIOUS
<1>4. QED
  BY <1>1, <1>2, <1>3, InvHolds, PTL DEF Spec

\* A call stores once at most, and what its caller is told of that is true.
THEOREM AnswersTruthful == Spec => []AnswerTruthful
<1>1. Inv => AnswerTruthful
  BY DEF Inv, Once
<1>2. QED
  BY <1>1, InvHolds, PTL

\* A watcher that is up to date knows the last records, and a snapshot is one of each key at
\* some time since it began, unless values are empty: b"" is told as a deletion.
THEOREM ViewsTrue ==
  ASSUME TRUE \notin Empty
  PROVE  Spec => []ViewTrue
<1>1. Init => Viewed
  BY ViewedInit
<1>2. Inv /\ Viewed /\ [Next]_vars => Viewed'
  BY ViewedKept
<1>3. Viewed => ViewTrue
  <2>1. SUFFICES ASSUME Viewed PROVE ViewTrue
    OBVIOUS
  <2>2. Follows /\ Snapshots
    BY <2>1 DEF Viewed
  <2>3. ASSUME watch.queue = <<>> PROVE \A k \in Key : Pending(k) = {}
    BY <2>3 DEF Pending, Queued
  <2>4. watch.on /\ ~watch.snapshot /\ watch.queue = <<>> /\ watch.made = stream.made /\ stream.exists
          => \A k \in Key : stream.rec[k].rev # 0 => watch.view[k] = stream.rec[k].val
    BY <2>2, <2>3 DEF Follows
  <2>5. watch.done => \A k \in Key : watch.view[k] \in watch.seen[k]
    BY <2>2 DEF Snapshots
  <2>6. QED
    BY <2>4, <2>5 DEF ViewTrue
<1>4. QED
  BY <1>1, <1>2, <1>3, InvHolds, PTL DEF Spec
=============================================================================
