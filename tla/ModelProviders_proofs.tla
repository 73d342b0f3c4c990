------------------------ MODULE ModelProviders_proofs ------------------------
(* A run keeps its model, and a workspace one default provider and the keys it  *)
(* was given, for any number of administrators, providers, runs and calls.      *)
EXTENDS ModelProviders, SequenceTheorems, FiniteSetTheorems, TLAPS

RunShape == [pin: Nat, start: Nat, pc: {"ready", "calling", "recording", "failed"}, attempt: Nat, calls: Nat,
             used: SUBSET Nat, recorded: SUBSET Nat]

Pending == [op: {"create", "update"}, id: Nat, new: Provider, clear: SUBSET Nat, sole: BOOLEAN,
            read: Seq(Provider), late: BOOLEAN]

TypeInv == /\ providers \in Seq(Provider) /\ runs \in Seq(RunShape)
           /\ request \in [Clients -> Pending \cup {NoRequest}] /\ raced \in BOOLEAN

\* A run names the provider it was started with, and its calls used no other.
Faithful(run) == run.pin = run.start /\ run.used \cup run.recorded \subseteq {run.start}

RunInv == \A r \in DOMAIN runs : Faithful(runs[r])

-----------------------------------------------------------------------------
(* The runs. *)

LEMMA UsableRows ==
    TypeInv => /\ Usable \subseteq Nat /\ Enabled \subseteq Nat
               /\ \A pin \in Nat, named \in BOOLEAN : Resolved(pin, named) \subseteq Nat
  <1>. SUFFICES ASSUME TypeInv
                PROVE  /\ Usable \subseteq Nat /\ Enabled \subseteq Nat
                       /\ \A pin \in Nat, named \in BOOLEAN : Resolved(pin, named) \subseteq Nat
    OBVIOUS
  <1>1. DOMAIN providers \subseteq Nat
    BY LenProperties DEF TypeInv
  <1>2. Usable \subseteq Nat /\ Enabled \subseteq Nat
    BY <1>1 DEF Usable, Enabled, Rows
  <1>3. QED
    BY <1>2 DEF Resolved

\* The provider of a run is resolved to itself or not at all, since a run without
\* one always comes to that of the environment.
LEMMA ResolvedToItself == \A pin \in Nat : Resolved(pin, TRUE) \subseteq {pin}
  BY DEF Resolved

LEMMA NewRunKept ==
    ASSUME TypeInv, RunInv, NEW p \in Nat, NEW q \in Nat, p = q, NewRun(p, q)
    PROVE  runs' \in Seq(RunShape) /\ RunInv'
  <1>. DEFINE new == [pin |-> p, start |-> q, pc |-> "ready",
                      attempt |-> 0, calls |-> 0, used |-> {}, recorded |-> {}]
  <1>1. new \in RunShape /\ Faithful(new)
    <2>1. new \in RunShape
      BY DEF RunShape
    <2>2. new.pin = p /\ new.start = p /\ new.used = {} /\ new.recorded = {}
      OBVIOUS
    <2>. HIDE DEF new
    <2>3. QED
      BY <2>1, <2>2 DEF Faithful
  <1>2. runs' = Append(runs, new)
    BY DEF NewRun
  <1>. HIDE DEF new
  <1>3. runs' \in Seq(RunShape)
    BY <1>1, <1>2, AppendProperties DEF TypeInv
  <1>4. \A r \in DOMAIN runs' : (r \in DOMAIN runs /\ runs'[r] = runs[r]) \/ runs'[r] = new
    BY <1>1, <1>2, AppendProperties, LenProperties DEF TypeInv
  <1>5. QED
    BY <1>1, <1>3, <1>4 DEF RunInv

LEMMA StepKept ==
    ASSUME TypeInv, RunInv, NEW r \in DOMAIN runs, NEW new \in RunShape, Faithful(new), Step(r, new)
    PROVE  runs' \in Seq(RunShape) /\ RunInv'
  <1>1. runs' = [runs EXCEPT ![r] = new]
    BY DEF Step
  <1>2. runs' \in Seq(RunShape)
    BY <1>1, ExceptSeq DEF TypeInv
  <1>3. QED
    BY <1>1, <1>2 DEF RunInv

\* What a call changes of its run leaves it faithful.
LEMMA FaithfulRun ==
    ASSUME NEW run \in RunShape, NEW new, Faithful(run), new.pin = run.pin, new.start = run.start,
           new.used \cup new.recorded \subseteq run.used \cup run.recorded \cup {run.start}
    PROVE  Faithful(new)
  BY DEF Faithful

LEMMA RunsOfCall ==
    ASSUME TypeInv, RunInv, NEW r \in DOMAIN runs, BeginCall(r) \/ Attempt(r) \/ RecordCall(r)
    PROVE  runs' \in Seq(RunShape) /\ RunInv'
  <1>. DEFINE run == runs[r]
  <1>1. run \in RunShape /\ Faithful(run)
    BY ElementOfSeq DEF TypeInv, RunInv
  <1>2. run.pin \in Nat /\ run.start \in Nat /\ run.used \subseteq Nat /\ run.recorded \subseteq Nat
    BY <1>1 DEF RunShape
  <1>3. Fails(run) \in RunShape /\ Faithful(Fails(run))
    <2>1. /\ Fails(run) \in RunShape
          /\ Fails(run).pin = run.pin /\ Fails(run).start = run.start
          /\ Fails(run).used = run.used /\ Fails(run).recorded = run.recorded
      BY <1>1 DEF Fails, RunShape
    <2>2. QED
      BY <1>1, <2>1, FaithfulRun
  <1>4. \A p \in Resolved(run.pin, Named(r)) : p = run.start /\ p \in Nat
    BY <1>1, <1>2, ResolvedToItself DEF Named, Faithful
  <1>5. CASE BeginCall(r)
    <2>. DEFINE new(p) == [run EXCEPT !.pc = "calling", !.attempt = 1, !.calls = @ + 1,
                                      !.used = @ \cup {p}]
    <2>1. ASSUME NEW p \in Resolved(run.pin, Named(r)) PROVE new(p) \in RunShape /\ Faithful(new(p))
      <3>1. p = run.start /\ p \in Nat
        BY <1>4
      <3>2. new(p) \in RunShape
        <4>1. run.used \cup {p} \in SUBSET Nat /\ run.calls + 1 \in Nat
          BY <1>1, <1>2, <3>1 DEF RunShape
        <4>2. PICK U \in SUBSET Nat : U = run.used \cup {p}
          BY <4>1
        <4>3. [run EXCEPT !.pc = "calling", !.attempt = 1, !.calls = @ + 1, !.used = U] \in RunShape
          BY <1>1, <4>1 DEF RunShape
        <4>4. QED
          BY <4>2, <4>3
      <3>3. /\ new(p).pin = run.pin /\ new(p).start = run.start
            /\ new(p).used = run.used \cup {p} /\ new(p).recorded = run.recorded
        BY <1>1, SMTT(60) DEF RunShape
      <3>. HIDE DEF new, run
      <3>4. QED
        BY <1>1, <3>1, <3>2, <3>3, FaithfulRun
    <2>2. Step(r, Fails(run)) \/ \E p \in Resolved(run.pin, Named(r)) : Step(r, new(p))
      BY <1>5 DEF BeginCall
    <2>. HIDE DEF new, run
    <2>3. QED
      BY <1>3, <2>1, <2>2, StepKept
  <1>6. CASE Attempt(r)
    <2>. DEFINE again == [run EXCEPT !.attempt = @ + 1]
                done == [run EXCEPT !.pc = "recording"]
    <2>1. /\ again \in RunShape /\ done \in RunShape
          /\ again.pin = run.pin /\ again.start = run.start
          /\ again.used = run.used /\ again.recorded = run.recorded
          /\ done.pin = run.pin /\ done.start = run.start
          /\ done.used = run.used /\ done.recorded = run.recorded
      BY <1>1 DEF RunShape
    <2>2. Step(r, Fails(run)) \/ Step(r, again) \/ Step(r, done)
      BY <1>6 DEF Attempt
    <2>. HIDE DEF again, done, run
    <2>3. Faithful(again) /\ Faithful(done)
      BY <1>1, <2>1, FaithfulRun
    <2>4. QED
      BY <1>3, <2>1, <2>2, <2>3, StepKept
  <1>7. CASE RecordCall(r)
    <2>. DEFINE new(p) == [run EXCEPT !.pc = "ready", !.attempt = 0, !.recorded = @ \cup {p}]
    <2>1. ASSUME NEW p \in Resolved(run.pin, Named(r)) PROVE new(p) \in RunShape /\ Faithful(new(p))
      <3>1. p = run.start /\ p \in Nat
        BY <1>4
      <3>2. new(p) \in RunShape
        BY <1>1, <3>1 DEF RunShape
      <3>3. /\ new(p).pin = run.pin /\ new(p).start = run.start
            /\ new(p).recorded = run.recorded \cup {p} /\ new(p).used = run.used
        BY <1>1 DEF RunShape
      <3>. HIDE DEF new, run
      <3>4. QED
        BY <1>1, <3>1, <3>2, <3>3, FaithfulRun
    <2>2. Step(r, Fails(run)) \/ \E p \in Resolved(run.pin, Named(r)) : Step(r, new(p))
      BY <1>7 DEF RecordCall
    <2>. HIDE DEF new, run
    <2>3. QED
      BY <1>3, <2>1, <2>2, StepKept
  <1>8. QED
    BY <1>5, <1>6, <1>7

LEMMA RunsOfStep == TypeInv /\ RunInv /\ [Next]_vars => runs' \in Seq(RunShape) /\ RunInv'
  <1>. SUFFICES ASSUME TypeInv, RunInv, [Next]_vars PROVE runs' \in Seq(RunShape) /\ RunInv'
    OBVIOUS
  <1>1. ASSUME UNCHANGED runs PROVE runs' \in Seq(RunShape) /\ RunInv'
    BY <1>1 DEF TypeInv, RunInv
  <1>2. CASE Start
    <2>1. PICK asked \in {0} \cup DOMAIN providers : \E p \in Resolved(asked, FALSE) : NewRun(p, p)
      BY <1>2 DEF Start
    <2>2. asked \in Nat
      BY LenProperties DEF TypeInv
    <2>3. PICK p \in Resolved(asked, FALSE) : NewRun(p, p)
      BY <2>1
    <2>4. QED
      BY <2>2, <2>3, UsableRows, NewRunKept
  <1>3. CASE Rerun
    <2>1. PICK r \in DOMAIN runs : NewRun(runs[r].pin, runs[r].start)
      BY <1>3 DEF Rerun
    <2>2. runs[r] \in RunShape /\ runs[r].pin = runs[r].start
      BY ElementOfSeq DEF TypeInv, RunInv, Faithful
    <2>3. QED
      BY <2>1, <2>2, NewRunKept DEF RunShape
  <1>4. CASE \E r \in DOMAIN runs : BeginCall(r) \/ Attempt(r) \/ RecordCall(r)
    BY <1>4, RunsOfCall, SMTT(60)
  <1>5. CASE Delete \/ (\E c \in Clients : BeginCreate(c) \/ BeginUpdate(c) \/ Commit(c))
    BY <1>1, <1>5, ZenonT(90) DEF Delete, BeginCreate, BeginUpdate, Begin, Commit
  <1>6. QED
    BY <1>1, <1>2, <1>3, <1>4, <1>5 DEF Next, vars

-----------------------------------------------------------------------------
(* The rows. *)

\* What a request read stands at the places it had, and is current unless late.
ReadsInPlace(q) ==
    /\ Len(q.read) <= Len(providers)
    /\ q.clear \subseteq Defaults(q.read)
    /\ q.op = "update" => q.id \in Rows(q.read) \ q.clear
    /\ ~q.late => q.read = providers

\* A form keeps the key of the row it read, and makes nothing a default without
\* clearing the others.
FormOf(q, old) ==
    /\ old.config.key => q.new.config.key
    /\ q.new.given => old.given \/ q.new.config.key
    /\ q.sole => /\ q.new.config.default /\ q.new.enabled
                 /\ q.clear = Defaults(q.read) \ {q.id}
    /\ ~q.sole => /\ q.clear = {}
                  /\ q.new.config.default => old.config.default /\ (old.enabled => q.new.enabled)

Form(q) ==
    /\ q.op = "update" => FormOf(q, q.read[q.id])
    /\ q.op = "create" => q.id = 0 /\ q.new.row /\ FormOf(q, Gone)

\* A key of a row that was read is still there, unless the row was written over.
KeysRead(q) ==
    \A p \in DOMAIN q.read :
        providers[p].row /\ ~providers[p].stale =>
            /\ q.read[p].given => q.read[p].config.key
            /\ q.read[p].config.key => providers[p].config.key

RequestInv == \A c \in Clients : ~Idle(c) =>
                 ReadsInPlace(request[c]) /\ Form(request[c]) /\ KeysRead(request[c])

KeysKept == \A p \in Rows(providers) :
                providers[p].given /\ ~providers[p].stale => providers[p].config.key

OneDefault == /\ \A p, q \in Defaults(providers) : p = q
              /\ \A p \in Defaults(providers) : providers[p].enabled

SettingsInv == RequestInv /\ KeysKept /\ (~raced => OneDefault)

\* What writing a row leaves in it.
LEMMA WrittenRow ==
    ASSUME NEW now \in Provider, NEW read \in Provider, NEW new \in Provider
    PROVE  LET w == Written(now, read, new)
           IN  /\ w \in Provider /\ w.row = now.row
               /\ w.enabled = (IF new.enabled # read.enabled THEN new.enabled ELSE now.enabled)
               /\ w.config = (IF new.config # read.config THEN new.config ELSE now.config)
               /\ w.given => now.given \/ new.given
               /\ ~w.stale => ~now.stale /\ (new.config = read.config \/ now.config = read.config)
  <1>. DEFINE e == IF new.enabled # read.enabled THEN new.enabled ELSE now.enabled
              k == IF new.config # read.config THEN new.config ELSE now.config
              g == now.given \/ new.given
              s == now.stale \/ (new.config # read.config /\ now.config # read.config)
  <1>1. e \in BOOLEAN /\ k \in Config /\ g \in BOOLEAN /\ s \in BOOLEAN
    BY DEF Provider
  <1>2. PICK f \in BOOLEAN, t \in BOOLEAN : f = g /\ t = s
    BY <1>1
  <1>3. Written(now, read, new) = [now EXCEPT !.enabled = e, !.config = k, !.given = f, !.stale = t]
    BY <1>2 DEF Written
  <1>4. (f => g) /\ (~t => ~s)
    BY <1>2
  <1>. HIDE DEF e, k
  <1>5. LET w == Written(now, read, new)
        IN  w \in Provider /\ w.row = now.row /\ w.enabled = e /\ w.config = k /\ w.given = f /\ w.stale = t
    BY <1>1, <1>2, <1>3 DEF Provider
  <1>6. QED
    BY <1>4, <1>5 DEF e, k

\* The row a request writes keeps a key that was entered.
LEMMA KeyWritten ==
    ASSUME NEW now \in Provider, NEW read \in Provider, NEW new \in Provider,
           now.row /\ ~now.stale => /\ read.given => read.config.key
                                    /\ read.config.key => now.config.key
                                    /\ now.given => now.config.key,
           read.config.key => new.config.key,
           new.given => read.given \/ new.config.key
    PROVE  LET w == Written(now, read, new)
           IN  w.row /\ ~w.stale => /\ ~now.stale
                                    /\ now.config.key => w.config.key
                                    /\ w.given => w.config.key
  <1>1. PICK w : w = Written(now, read, new)
    OBVIOUS
  <1>2. /\ w \in Provider /\ w.row = now.row
        /\ w.config = (IF new.config # read.config THEN new.config ELSE now.config)
        /\ w.given => now.given \/ new.given
        /\ ~w.stale => ~now.stale /\ (new.config = read.config \/ now.config = read.config)
    BY <1>1, WrittenRow
  <1>3. QED
    BY <1>1, <1>2

LEMMA ClearedRow ==
    ASSUME NEW read \in Provider
    PROVE  /\ Cleared(read) \in Provider /\ Cleared(read).row = read.row
           /\ Cleared(read).enabled = read.enabled /\ Cleared(read).given = read.given
           /\ Cleared(read).config.key = read.config.key /\ ~Cleared(read).config.default
  <1>1. PICK k : k = [read.config EXCEPT !.default = FALSE]
    OBVIOUS
  <1>2. k \in Config /\ k.key = read.config.key /\ ~k.default
    BY <1>1 DEF Provider, Config
  <1>3. Cleared(read) = [read EXCEPT !.config = k]
    BY <1>1 DEF Cleared
  <1>4. QED
    BY <1>2, <1>3 DEF Provider

LEMMA PendingRequest ==
    ASSUME TypeInv, NEW c \in Clients
    PROVE  /\ Idle(c) \/ request[c] \in Pending
           /\ \A q \in Pending : q # NoRequest
           /\ DOMAIN providers = 1..Len(providers) /\ Len(providers) \in Nat
  <1>1. \A q \in Pending : q # NoRequest
    <2>1. \A q \in Pending : q.op # "idle"
      BY DEF Pending
    <2>2. NoRequest.op = "idle"
      BY DEF NoRequest
    <2>3. QED
      BY <2>1, <2>2
  <1>2. QED
    BY <1>1, LenProperties DEF TypeInv, Idle

\* The row of p after request r has been committed.
After(r, p) == CASE p \in (IF r.op = "create" THEN {} ELSE {r.id}) ->
                        Written(providers[p], r.read[p], r.new)
                 [] p \in r.clear -> Written(providers[p], r.read[p], Cleared(r.read[p]))
                 [] OTHER -> providers[p]

LEMMA AfterCases ==
    ASSUME TypeInv, NEW r \in Pending, ReadsInPlace(r), NEW p \in DOMAIN providers
    PROVE  /\ r.op = "update" /\ p = r.id =>
                After(r, p) = Written(providers[p], r.read[p], r.new) /\ p \in DOMAIN r.read
           /\ p \in r.clear =>
                /\ After(r, p) = Written(providers[p], r.read[p], Cleared(r.read[p]))
                /\ p \in DOMAIN r.read
           /\ ~(r.op = "update" /\ p = r.id) /\ p \notin r.clear => After(r, p) = providers[p]
  <1>1. r.op \in {"create", "update"}
    BY DEF Pending
  <1>2. QED
    BY <1>1 DEF After, ReadsInPlace, Rows, Defaults

\* What a commit does to the row of p.
Sound(old, w) == /\ w \in Provider /\ w.row = old.row
                 /\ w.row /\ ~w.stale => /\ ~old.stale
                                         /\ old.config.key => w.config.key
                                         /\ w.given => w.config.key

LEMMA RowCommitted ==
    ASSUME TypeInv, KeysKept, NEW r \in Pending, ReadsInPlace(r), Form(r), KeysRead(r),
           NEW p \in DOMAIN providers
    PROVE  Sound(providers[p], After(r, p))
  <1>1. providers[p] \in Provider
    BY ElementOfSeq, LenProperties DEF TypeInv
  <1>2. providers[p].row /\ ~providers[p].stale /\ providers[p].given => providers[p].config.key
    BY DEF KeysKept, Rows
  <1>3. ASSUME p \in DOMAIN r.read
        PROVE  /\ r.read[p] \in Provider
               /\ providers[p].row /\ ~providers[p].stale =>
                     /\ r.read[p].given => r.read[p].config.key
                     /\ r.read[p].config.key => providers[p].config.key
    BY <1>3, ElementOfSeq, LenProperties DEF KeysRead, Pending
  <1>4. CASE r.op = "update" /\ p = r.id
    <2>1. /\ p \in DOMAIN r.read /\ After(r, p) = Written(providers[p], r.read[p], r.new)
          /\ r.new \in Provider
          /\ r.read[p].config.key => r.new.config.key
          /\ r.new.given => r.read[p].given \/ r.new.config.key
      BY <1>4, AfterCases DEF Form, FormOf, Pending
    <2>2. QED
      BY <1>1, <1>2, <1>3, <2>1, KeyWritten, WrittenRow, SMTT(60) DEF Sound
  <1>5. CASE p \in r.clear
    <2>1. p \in DOMAIN r.read /\ After(r, p) = Written(providers[p], r.read[p], Cleared(r.read[p]))
      BY <1>5, AfterCases
    <2>2. PICK new \in Provider : new = Cleared(r.read[p])
      BY <1>3, <2>1, ClearedRow
    <2>3. new.config.key = r.read[p].config.key /\ new.given = r.read[p].given
      BY <1>3, <2>1, <2>2, ClearedRow
    <2>4. QED
      BY <1>1, <1>2, <1>3, <2>1, <2>2, <2>3, KeyWritten, WrittenRow DEF Sound
  <1>6. CASE ~(r.op = "update" /\ p = r.id) /\ p \notin r.clear
    BY <1>1, <1>2, <1>6, AfterCases DEF Sound
  <1>7. QED
    BY <1>4, <1>5, <1>6

\* The rows after a commit, and the new one of a creation.
Committed(r) ==
    /\ providers' \in Seq(Provider)
    /\ Len(providers') = Len(providers) + (IF r.op = "create" THEN 1 ELSE 0)
    /\ \A p \in DOMAIN providers : providers'[p] = After(r, p)
    /\ r.op = "create" => providers'[Len(providers) + 1] = r.new

LEMMA CommitWrites ==
    ASSUME TypeInv, SettingsInv, NEW c \in Clients, Commit(c)
    PROVE  /\ ~Idle(c) /\ request[c] \in Pending
           /\ \/ providers' = providers /\ raced' = raced
                 /\ request' = [request EXCEPT ![c] = NoRequest]
              \/ /\ Committed(request[c]) /\ request' = Overtake(c)
                 /\ raced' = (request[c].late \/ (raced /\ ~request[c].sole))
  <1>. DEFINE r == request[c]
  <1>1. ~Idle(c) /\ r \in Pending
    BY PendingRequest DEF Commit
  <1>2. ReadsInPlace(r) /\ Form(r) /\ KeysRead(r)
    BY <1>1 DEF SettingsInv, RequestInv
  <1>3. PICK kept : kept = [p \in DOMAIN providers |-> After(r, p)]
    OBVIOUS
  <1>4. \/ request' = [request EXCEPT ![c] = NoRequest] /\ UNCHANGED <<providers, raced>>
        \/ /\ providers' = (IF r.op = "create" THEN Append(kept, r.new) ELSE kept)
           /\ raced' = (r.late \/ (raced /\ ~r.sole))
           /\ request' = Overtake(c)
    BY <1>3 DEF Commit, After
  <1>5. kept \in Seq(Provider) /\ Len(kept) = Len(providers) /\ DOMAIN kept = DOMAIN providers
    <2>1. kept \in [DOMAIN providers -> Provider]
      BY <1>1, <1>2, <1>3, RowCommitted DEF Sound, SettingsInv
    <2>2. kept \in [1..Len(providers) -> Provider] /\ Len(providers) \in Nat
      BY <2>1, PendingRequest
    <2>3. QED
      BY <2>2, SeqDef, LenProperties, PendingRequest
  <1>6. ASSUME providers' = (IF r.op = "create" THEN Append(kept, r.new) ELSE kept) PROVE Committed(r)
    <2>1. r.new \in Provider /\ r.op \in {"create", "update"}
      BY <1>1 DEF Pending
    <2>. HIDE DEF r
    <2>2. CASE r.op = "create"
      BY <1>3, <1>5, <1>6, <2>1, <2>2, AppendProperties, PendingRequest DEF Committed
    <2>3. CASE r.op # "create"
      BY <1>3, <1>5, <1>6, <2>1, <2>3, PendingRequest DEF Committed
    <2>4. QED
      BY <2>2, <2>3
  <1>7. QED
    BY <1>1, <1>4, <1>6

Late(q) == [q EXCEPT !.late = TRUE]

\* Requests that are still under way keep what they know.
LEMMA ReadsKept ==
    ASSUME TypeInv, NEW q \in Pending, ReadsInPlace(q), Form(q), KeysRead(q),
           providers' \in Seq(Provider), Len(providers) <= Len(providers'),
           \A p \in DOMAIN providers :
               providers'[p].row /\ ~providers'[p].stale =>
                   /\ providers[p].row /\ ~providers[p].stale
                   /\ providers[p].config.key => providers'[p].config.key,
           NEW x, x = [q EXCEPT !.late = TRUE]
    PROVE  x \in Pending /\ ReadsInPlace(x)' /\ Form(x)' /\ KeysRead(x)'
  <1>1. /\ x \in Pending /\ x.late /\ x.op = q.op /\ x.id = q.id /\ x.new = q.new
        /\ x.clear = q.clear /\ x.sole = q.sole /\ x.read = q.read
    BY DEF Pending
  <1>2. q.read \in Seq(Provider)
    BY DEF Pending
  <1>3. Len(q.read) \in Nat /\ DOMAIN q.read = 1..Len(q.read) /\ Len(providers') \in Nat
    BY <1>2, LenProperties
  <1>4. Len(q.read) <= Len(providers')
    BY <1>3, PendingRequest, LenProperties DEF ReadsInPlace, TypeInv
  <1>5. ReadsInPlace(x)'
    BY <1>1, <1>4 DEF ReadsInPlace
  <1>6. Form(x)'
    BY <1>1 DEF Form, FormOf
  <1>7. DOMAIN q.read \subseteq DOMAIN providers
    BY <1>3, LenProperties DEF TypeInv, ReadsInPlace
  <1>8. KeysRead(x)'
    BY <1>1, <1>7 DEF KeysRead
  <1>9. QED
    BY <1>1, <1>5, <1>6, <1>8

LEMMA RequestsOvertaken ==
    ASSUME TypeInv, SettingsInv,
           providers' \in Seq(Provider), Len(providers) <= Len(providers'),
           \A p \in DOMAIN providers :
               providers'[p].row /\ ~providers'[p].stale =>
                   /\ providers[p].row /\ ~providers[p].stale
                   /\ providers[p].config.key => providers'[p].config.key,
           request' = [x \in Clients |-> request'[x]],
           \A x \in Clients : \/ request'[x] = NoRequest
                              \/ ~Idle(x) /\ request'[x] = Late(request[x])
    PROVE  request' \in [Clients -> Pending \cup {NoRequest}] /\ RequestInv'
  <1>1. ASSUME NEW x \in Clients, request'[x] # NoRequest
        PROVE  /\ request'[x] \in Pending
               /\ ReadsInPlace(request[x])' /\ Form(request[x])' /\ KeysRead(request[x])'
    <2>1. ~Idle(x) /\ request[x] \in Pending
      BY <1>1, PendingRequest
    <2>2. PICK q \in Pending : q = request[x]
      BY <2>1
    <2>3. ReadsInPlace(q) /\ Form(q) /\ KeysRead(q)
      BY <2>1, <2>2 DEF SettingsInv, RequestInv
    <2>4. PICK y : y = request'[x]
      OBVIOUS
    <2>5. y = [q EXCEPT !.late = TRUE]
      BY <1>1, <2>2, <2>4 DEF Late
    <2>6. y \in Pending /\ ReadsInPlace(y)' /\ Form(y)' /\ KeysRead(y)'
      BY <2>3, <2>5, ReadsKept
    <2>7. QED
      BY <2>4, <2>6 DEF ReadsInPlace, Form, KeysRead
  <1>2. request' \in [Clients -> Pending \cup {NoRequest}]
    BY <1>1
  <1>3. QED
    BY <1>1, <1>2 DEF RequestInv, Idle

\* A request has ended, or has begun by reading the rows.
LEMMA RequestEnds ==
    ASSUME TypeInv, RequestInv, NEW c \in Clients, providers' = providers,
           request' = [request EXCEPT ![c] = NoRequest]
    PROVE  request' \in [Clients -> Pending \cup {NoRequest}] /\ RequestInv'
  <1>1. \A x \in Clients : request'[x] = NoRequest \/ request'[x] = request[x]
    BY DEF TypeInv
  <1>2. request' \in [Clients -> Pending \cup {NoRequest}]
    BY SMTT(60) DEF TypeInv
  <1>3. ASSUME NEW x \in Clients, ~Idle(x)'
        PROVE  ReadsInPlace(request[x])' /\ Form(request[x])' /\ KeysRead(request[x])'
    <2>1. ~Idle(x) /\ request'[x] = request[x]
      BY <1>1, <1>3 DEF Idle
    <2>2. QED
      BY <2>1 DEF RequestInv, ReadsInPlace, Form, FormOf, KeysRead
  <1>4. QED
    BY <1>2, <1>3 DEF RequestInv

LEMMA RequestBegins ==
    ASSUME TypeInv, RequestInv, KeysKept, NEW c \in Clients, providers' = providers,
           NEW q \in Pending, request' = [request EXCEPT ![c] = q], ReadsInPlace(q), Form(q),
           q.read = providers
    PROVE  request' \in [Clients -> Pending \cup {NoRequest}] /\ RequestInv'
  <1>1. \A x \in Clients : request'[x] = IF x = c THEN q ELSE request[x]
    BY DEF TypeInv
  <1>2. request' \in [Clients -> Pending \cup {NoRequest}]
    BY DEF TypeInv
  <1>3. KeysRead(q)
    BY DEF KeysRead, KeysKept, Rows
  <1>4. ASSUME NEW x \in Clients, ~Idle(x)'
        PROVE  ReadsInPlace(request[x])' /\ Form(request[x])' /\ KeysRead(request[x])'
    <2>1. CASE x = c
      BY <1>1, <1>3, <2>1, SMTT(60) DEF ReadsInPlace, Form, FormOf, KeysRead
    <2>2. CASE x # c
      <3>1. ~Idle(x) /\ request'[x] = request[x]
        BY <1>1, <1>4, <2>2 DEF Idle
      <3>2. QED
        BY <3>1 DEF RequestInv, ReadsInPlace, Form, FormOf, KeysRead
    <2>3. QED
      BY <2>1, <2>2
  <1>5. QED
    BY <1>2, <1>4 DEF RequestInv

\* A request that read the current rows leaves what it shows in them.
LEMMA CurrentRow ==
    ASSUME TypeInv, NEW r \in Pending, ReadsInPlace(r), ~r.late, NEW p \in DOMAIN providers
    PROVE  /\ r.op = "update" /\ p = r.id =>
                /\ After(r, p).config = r.new.config /\ After(r, p).enabled = r.new.enabled
                /\ After(r, p).row = providers[p].row
           /\ p \in r.clear => ~After(r, p).config.default
           /\ ~(r.op = "update" /\ p = r.id) /\ p \notin r.clear => After(r, p) = providers[p]
  <1>1. r.read = providers /\ providers[p] \in Provider /\ r.new \in Provider
    BY ElementOfSeq, LenProperties DEF TypeInv, ReadsInPlace, Pending
  <1>2. ASSUME r.op = "update", p = r.id
        PROVE  /\ After(r, p).config = r.new.config /\ After(r, p).enabled = r.new.enabled
               /\ After(r, p).row = providers[p].row
    BY <1>1, <1>2, AfterCases, WrittenRow
  <1>3. ASSUME p \in r.clear PROVE ~After(r, p).config.default
    <2>1. PICK new \in Provider : new = Cleared(providers[p])
      BY <1>1, ClearedRow
    <2>2. ~new.config.default /\ After(r, p) = Written(providers[p], providers[p], new)
      BY <1>1, <1>3, <2>1, AfterCases, ClearedRow
    <2>3. After(r, p).config = new.config
      BY <1>1, <2>2, WrittenRow
    <2>4. QED
      BY <2>2, <2>3
  <1>4. QED
    BY <1>2, <1>3, AfterCases

LEMMA DefaultsOfCommit ==
    ASSUME TypeInv, SettingsInv, NEW r \in Pending, ReadsInPlace(r), Form(r), Committed(r),
           ~r.late, ~raced \/ r.sole
    PROVE  OneDefault'
  <1>. DEFINE n == Len(providers) + 1
  <1>1. /\ r.op \in {"create", "update"} /\ r.sole \in BOOLEAN
        /\ r.read = providers /\ r.new \in Provider
        /\ DOMAIN providers = 1..Len(providers) /\ Len(providers) \in Nat
    BY PendingRequest, SMTT(60) DEF Pending, ReadsInPlace
  <1>2. /\ DOMAIN providers' = 1..Len(providers')
        /\ \A p \in DOMAIN providers : providers'[p] = After(r, p)
        /\ r.op = "create" => DOMAIN providers' = DOMAIN providers \cup {n} /\ providers'[n] = r.new
        /\ r.op = "update" => DOMAIN providers' = DOMAIN providers
    <2>1. /\ DOMAIN providers' = 1..Len(providers')
          /\ Len(providers') = Len(providers) + (IF r.op = "create" THEN 1 ELSE 0)
      BY LenProperties DEF Committed
    <2>2. r.op = "create" => DOMAIN providers' = DOMAIN providers \cup {n}
      BY <1>1, <2>1
    <2>3. r.op = "update" => DOMAIN providers' = DOMAIN providers
      BY <1>1, <2>1
    <2>4. QED
      BY <1>1, <2>1, <2>2, <2>3 DEF Committed
  <1>3. \A p \in DOMAIN providers :
           /\ r.op = "update" /\ p = r.id =>
                /\ providers'[p].config = r.new.config /\ providers'[p].enabled = r.new.enabled
                /\ providers'[p].row = providers[p].row
           /\ p \in r.clear => ~providers'[p].config.default
           /\ ~(r.op = "update" /\ p = r.id) /\ p \notin r.clear => providers'[p] = providers[p]
    BY <1>2, CurrentRow
  <1>4. \A p \in Defaults(providers') : p \in DOMAIN providers' /\ providers'[p].row
                                      /\ providers'[p].config.default
    BY DEF Defaults, Rows
  <1>5. CASE r.op = "create" /\ r.sole
    <2>1. r.clear = Defaults(providers) /\ r.new.enabled
      BY <1>1, <1>5 DEF Form, FormOf, Defaults, Rows
    <2>2. \A p \in Defaults(providers') : p = n
      BY <1>1, <1>2, <1>3, <1>4, <1>5, <2>1 DEF Defaults, Rows
    <2>3. QED
      BY <1>2, <1>5, <2>1, <2>2 DEF OneDefault
  <1>6. CASE r.op = "update" /\ r.sole
    <2>1. /\ r.clear = Defaults(providers) \ {r.id} /\ r.new.enabled /\ r.id \in DOMAIN providers
      BY <1>1, <1>6 DEF Form, FormOf, ReadsInPlace, Rows
    <2>2. \A p \in Defaults(providers') : p = r.id
      BY <1>1, <1>2, <1>3, <1>4, <1>6, <2>1 DEF Defaults, Rows
    <2>3. QED
      BY <1>3, <1>6, <2>1, <2>2 DEF OneDefault
  <1>7. CASE ~r.sole
    <2>1. OneDefault /\ r.clear = {}
      BY <1>1, <1>7 DEF SettingsInv, Form, FormOf
    <2>2. r.op = "create" => ~r.new.config.default
      BY <1>7 DEF Form, FormOf, Gone
    <2>3. r.op = "update" => /\ r.new.config.default =>
                                  /\ providers[r.id].config.default
                                  /\ providers[r.id].enabled => r.new.enabled
                             /\ r.id \in DOMAIN providers /\ providers[r.id].row
      BY <1>1, <1>7, SMTT(60) DEF Form, FormOf, ReadsInPlace, Rows
    <2>4. \A p \in Defaults(providers') :
             p \in Defaults(providers) /\ (providers[p].enabled => providers'[p].enabled)
      BY <1>1, <1>2, <1>3, <1>4, <2>1, <2>2, <2>3, ZenonT(90) DEF Defaults, Rows
    <2>5. QED
      BY <2>1, <2>4 DEF OneDefault
  <1>8. QED
    BY <1>1, <1>5, <1>6, <1>7

-----------------------------------------------------------------------------
(* The steps. *)

SettingsKept == /\ providers' \in Seq(Provider) /\ raced' \in BOOLEAN
                /\ request' \in [Clients -> Pending \cup {NoRequest}]
                /\ SettingsInv'

LEMMA SettingsFrame ==
    ASSUME TypeInv, SettingsInv, UNCHANGED <<providers, request, raced>>
    PROVE  SettingsKept
  BY DEF TypeInv, SettingsInv, SettingsKept, RequestInv, KeysKept, OneDefault, Idle,
         ReadsInPlace, Form, FormOf, KeysRead

LEMMA DefaultsFrame ==
    ASSUME SettingsInv, providers' = providers, raced' = raced
    PROVE  KeysKept' /\ (~raced' => OneDefault')
  BY DEF SettingsInv, KeysKept, OneDefault

LEMMA SettingsOfCommit ==
    ASSUME TypeInv, SettingsInv, NEW c \in Clients, Commit(c)
    PROVE  SettingsKept
  <1>1. PICK r \in Pending : r = request[c]
    BY CommitWrites
  <1>2. ~Idle(c) /\ ReadsInPlace(r) /\ Form(r) /\ KeysRead(r)
    BY <1>1, CommitWrites DEF SettingsInv, RequestInv
  <1>3. CASE /\ providers' = providers /\ raced' = raced
             /\ request' = [request EXCEPT ![c] = NoRequest]
    <2>1. request' \in [Clients -> Pending \cup {NoRequest}] /\ RequestInv'
      BY <1>3, RequestEnds DEF SettingsInv
    <2>2. KeysKept' /\ (~raced' => OneDefault')
      BY <1>3, DefaultsFrame
    <2>3. providers' \in Seq(Provider) /\ raced' \in BOOLEAN
      BY <1>3 DEF TypeInv
    <2>4. QED
      BY <2>1, <2>2, <2>3 DEF SettingsInv, SettingsKept
  <1>4. CASE /\ Committed(r) /\ request' = Overtake(c)
             /\ raced' = (r.late \/ (raced /\ ~r.sole))
    <2>1. \A p \in DOMAIN providers : Sound(providers[p], providers'[p])
      BY <1>2, <1>4, RowCommitted DEF Committed, SettingsInv
    <2>2. /\ DOMAIN providers = 1..Len(providers) /\ Len(providers) \in Nat
          /\ providers' \in Seq(Provider)
          /\ DOMAIN providers' = 1..Len(providers') /\ Len(providers') \in Nat
          /\ Len(providers) <= Len(providers')
      BY <1>4, PendingRequest, LenProperties DEF Committed
    <2>3. request' = [x \in Clients |-> request'[x]]
      BY <1>4 DEF Overtake
    <2>4. \A x \in Clients : \/ request'[x] = NoRequest
                             \/ ~Idle(x) /\ request'[x] = Late(request[x])
      <3>1. ASSUME NEW x \in Clients
            PROVE  request'[x] = IF x = c \/ Idle(x) THEN NoRequest
                                 ELSE Late(request[x])
        BY <1>4, Zenon DEF Overtake, Late
      <3>2. QED
        BY <3>1
    <2>5. request' \in [Clients -> Pending \cup {NoRequest}] /\ RequestInv'
      BY <2>1, <2>2, <2>3, <2>4, RequestsOvertaken DEF Sound
    <2>6. KeysKept'
      <3>1. ASSUME NEW p \in DOMAIN providers', p \notin DOMAIN providers
            PROVE  p = Len(providers) + 1 /\ r.op = "create" /\ providers'[p] = r.new
        BY <1>4, <2>2, <3>1 DEF Committed
      <3>2. r.op = "create" => (r.new.given => r.new.config.key)
        BY <1>2 DEF Form, FormOf, Gone
      <3>3. QED
        BY <2>1, <3>1, <3>2 DEF KeysKept, Rows, Sound
    <2>7. r.late \in BOOLEAN /\ r.sole \in BOOLEAN /\ raced \in BOOLEAN
      BY DEF Pending, TypeInv
    <2>8. raced' \in BOOLEAN /\ (~raced' => ~r.late /\ (~raced \/ r.sole))
      BY <1>4, <2>7
    <2>9. ~raced' => OneDefault'
      BY <1>2, <1>4, <2>8, DefaultsOfCommit
    <2>10. QED
      BY <2>2, <2>5, <2>6, <2>8, <2>9 DEF SettingsInv, SettingsKept
  <1>5. QED
    BY <1>1, <1>3, <1>4, CommitWrites

LEMMA SettingsOfDelete ==
    ASSUME TypeInv, SettingsInv, Delete
    PROVE  SettingsKept
  <1>1. PICK p \in Rows(providers) : providers' = [providers EXCEPT ![p] = Gone]
    BY DEF Delete
  <1>2. Gone \in Provider /\ ~Gone.row
    BY DEF Gone, Provider, Config
  <1>3. /\ providers' \in Seq(Provider) /\ Len(providers') = Len(providers)
        /\ DOMAIN providers' = DOMAIN providers
        /\ \A q \in DOMAIN providers : providers'[q] = IF q = p THEN Gone ELSE providers[q]
    BY <1>1, <1>2, ExceptSeq DEF TypeInv, Rows
  <1>4. Len(providers) <= Len(providers')
    BY <1>3, PendingRequest, LenProperties DEF TypeInv
  <1>5. request' = [x \in Clients |-> request'[x]]
    BY DEF Delete
  <1>6. \A x \in Clients : \/ request'[x] = NoRequest
                           \/ ~Idle(x) /\ request'[x] = Late(request[x])
    <2>1. ASSUME NEW x \in Clients
          PROVE  request'[x] = IF Idle(x) THEN NoRequest ELSE Late(request[x])
      BY Zenon DEF Delete, Late
    <2>2. QED
      BY <2>1
  <1>7. request' \in [Clients -> Pending \cup {NoRequest}] /\ RequestInv'
    BY <1>2, <1>3, <1>4, <1>5, <1>6, RequestsOvertaken
  <1>8. KeysKept'
    BY <1>2, <1>3 DEF SettingsInv, KeysKept, Rows
  <1>9. ~raced' => OneDefault'
    BY <1>2, <1>3 DEF SettingsInv, OneDefault, Defaults, Rows, Delete
  <1>10. QED
    BY <1>3, <1>7, <1>8, <1>9 DEF SettingsInv, SettingsKept, Delete, TypeInv

LEMMA SettingsOfBegin ==
    ASSUME TypeInv, SettingsInv, NEW c \in Clients, NEW op \in {"create", "update"},
           NEW p \in Nat, NEW new \in Provider, NEW sole \in BOOLEAN,
           NEW clear \in SUBSET Nat, Begin(c, op, p, new, clear, sole),
           clear \subseteq Defaults(providers),
           op = "create" => p = 0 /\ new.row,
           op = "update" => p \in Rows(providers) \ clear,
           NEW old, old = (IF op = "create" THEN Gone ELSE providers[p]),
           old.config.key => new.config.key,
           new.given => old.given \/ new.config.key,
           sole => new.config.default /\ new.enabled /\ clear = Defaults(providers) \ {p},
           ~sole => clear = {},
           ~sole /\ new.config.default => old.config.default /\ (old.enabled => new.enabled)
    PROVE  SettingsKept
  <1>. DEFINE q == [op |-> op, id |-> p, new |-> new, clear |-> clear, sole |-> sole,
                    read |-> providers, late |-> FALSE]
  <1>1. /\ q.op = op /\ q.id = p /\ q.new = new /\ q.clear = clear /\ q.sole = sole
        /\ q.read = providers /\ q.late = FALSE
    OBVIOUS
  <1>2. q \in Pending
    BY DEF Pending, TypeInv
  <1>3. request' = [request EXCEPT ![c] = q] /\ UNCHANGED <<providers, raced>>
    BY DEF Begin
  <1>. HIDE DEF q
  <1>4. ReadsInPlace(q)
    BY <1>1, PendingRequest DEF ReadsInPlace
  <1>5. Form(q)
    <2>1. FormOf(q, old)
      BY <1>1 DEF FormOf
    <2>2. QED
      BY <1>1, <2>1 DEF Form
  <1>6. request' \in [Clients -> Pending \cup {NoRequest}] /\ RequestInv'
    BY <1>1, <1>2, <1>3, <1>4, <1>5, RequestBegins DEF SettingsInv
  <1>7. KeysKept' /\ (~raced' => OneDefault')
    BY <1>3, DefaultsFrame
  <1>8. QED
    BY <1>3, <1>6, <1>7 DEF SettingsKept, SettingsInv, TypeInv

LEMMA RowsAreProviders ==
    ASSUME TypeInv
    PROVE  /\ Rows(providers) \subseteq Nat \ {0} /\ Defaults(providers) \subseteq Rows(providers)
           /\ \A p \in Rows(providers) : providers[p] \in Provider
  <1>1. \A p \in Rows(providers) : p \in 1..Len(providers) /\ providers[p] \in Provider
    BY PendingRequest, ElementOfSeq, LenProperties DEF TypeInv, Rows
  <1>2. Len(providers) \in Nat
    BY LenProperties DEF TypeInv
  <1>3. QED
    BY <1>1, <1>2 DEF Defaults

LEMMA SettingsOfCreate ==
    ASSUME TypeInv, SettingsInv, NEW c \in Clients, BeginCreate(c)
    PROVE  SettingsKept
  <1>1. PICK supported \in BOOLEAN, enabled \in BOOLEAN, key \in BOOLEAN, default \in BOOLEAN :
           Begin(c, "create", 0,
                 [row |-> TRUE, supported |-> supported, enabled |-> default \/ enabled,
                  config |-> [default |-> default, key |-> key],
                  given |-> key, stale |-> FALSE],
                 IF default THEN Defaults(providers) ELSE {}, default)
    <2>1. PICK supported \in BOOLEAN, enabled \in BOOLEAN, key \in BOOLEAN, wanted \in BOOLEAN :
             LET default == wanted \/ Rows(providers) = {}
             IN  Begin(c, "create", 0,
                     [row |-> TRUE, supported |-> supported, enabled |-> default \/ enabled,
                      config |-> [default |-> default, key |-> key],
                      given |-> key, stale |-> FALSE],
                     IF default THEN Defaults(providers) ELSE {}, default)
      BY Zenon DEF BeginCreate
    <2>2. (wanted \/ Rows(providers) = {}) \in BOOLEAN
      OBVIOUS
    <2>3. QED
      BY <2>1, <2>2, Zenon
  <1>2. PICK on \in BOOLEAN : on = (default \/ enabled)
    OBVIOUS
  <1>. DEFINE new == [row |-> TRUE, supported |-> supported, enabled |-> on,
                      config |-> [default |-> default, key |-> key],
                      given |-> key, stale |-> FALSE]
              clear == IF default THEN Defaults(providers) ELSE {}
  <1>3. /\ new \in Provider /\ new.row /\ new.enabled = on /\ new.given = key
        /\ new.config.default = default /\ new.config.key = key
    BY DEF Provider, Config
  <1>4. Begin(c, "create", 0, new, clear, default)
    BY <1>1, <1>2, Zenon
  <1>5. Gone.config.key = FALSE /\ Gone.given = FALSE /\ Gone.config.default = FALSE
    BY DEF Gone
  <1>6. clear \in SUBSET Nat /\ clear \subseteq Defaults(providers) /\ (~default => clear = {})
        /\ (default => clear = Defaults(providers) \ {0})
    BY RowsAreProviders
  <1>. HIDE DEF new, clear
  <1>7. QED
    BY <1>2, <1>3, <1>4, <1>5, <1>6, SettingsOfBegin

LEMMA SettingsOfUpdate ==
    ASSUME TypeInv, SettingsInv, NEW c \in Clients, BeginUpdate(c)
    PROVE  SettingsKept
  <1>1. PICK p \in Rows(providers), default \in {"yes", "no", "absent"},
             enabled \in {"yes", "no", "absent"}, key \in BOOLEAN :
           LET row == providers[p]
               config == Prepared(row.config, default, key)
               off == default # "yes" /\ enabled = "no"
               new == [row EXCEPT !.enabled = IF default = "yes" \/ enabled = "yes" THEN TRUE
                                              ELSE @ /\ enabled # "no",
                                  !.config = IF off THEN [config EXCEPT !.default = FALSE] ELSE config,
                                  !.given = @ \/ key]
           IN  Begin(c, "update", p, new,
                     IF default = "yes" THEN Defaults(providers) \ {p} ELSE {}, default = "yes")
    BY DEF BeginUpdate
  <1>. DEFINE row == providers[p]
              off == default # "yes" /\ enabled = "no"
              config == IF off THEN [Prepared(row.config, default, key) EXCEPT !.default = FALSE]
                        ELSE Prepared(row.config, default, key)
              on == IF default = "yes" \/ enabled = "yes" THEN TRUE ELSE row.enabled /\ enabled # "no"
  <1>2. row \in Provider /\ p \in Nat /\ p \in Rows(providers)
    BY RowsAreProviders
  <1>3. PICK given \in BOOLEAN : given = (row.given \/ key)
    OBVIOUS
  <1>4. PICK e \in BOOLEAN : e = on
    BY <1>2 DEF Provider
  <1>5. PICK f : f = config
    OBVIOUS
  <1>6. PICK new : new = [row EXCEPT !.enabled = e, !.config = f, !.given = given]
    OBVIOUS
  <1>7. PICK clear : clear = IF default = "yes" THEN Defaults(providers) \ {p} ELSE {}
    OBVIOUS
  <1>8. PICK sole \in BOOLEAN : sole = (default = "yes")
    OBVIOUS
  <1>9. Begin(c, "update", p, new, clear, sole)
    BY <1>1, <1>3, <1>4, <1>5, <1>6, <1>7, <1>8, Zenon
  <1>10. /\ f \in Config /\ (row.config.key => f.key) /\ (key => f.key)
         /\ (default = "yes" => f.default)
         /\ (default # "yes" /\ f.default => enabled # "no" /\ row.config.default)
    BY <1>2, <1>5 DEF Prepared, Config, Provider
  <1>11. /\ new \in Provider /\ new.enabled = e /\ new.config = f /\ new.given = given
    BY <1>2, <1>6, <1>10 DEF Provider
  <1>12. /\ clear \in SUBSET Nat /\ clear \subseteq Defaults(providers) /\ p \notin clear
         /\ (~sole => clear = {}) /\ (sole => clear = Defaults(providers) \ {p})
    BY <1>7, <1>8, RowsAreProviders
  <1>13. /\ row.config.key => new.config.key
         /\ new.given => row.given \/ new.config.key
         /\ sole => new.config.default /\ new.enabled
         /\ ~sole /\ new.config.default => row.config.default /\ (row.enabled => new.enabled)
    BY <1>2, <1>3, <1>4, <1>8, <1>10, <1>11
  <1>14. PICK old : old = row
    OBVIOUS
  <1>. HIDE DEF row, off, config, on
  <1>15. QED
    BY <1>2, <1>9, <1>11, <1>12, <1>13, <1>14, SettingsOfBegin, SMTT(60) DEF row

LEMMA SettingsOfStep == TypeInv /\ SettingsInv /\ [Next]_vars => SettingsKept
  <1>. SUFFICES ASSUME TypeInv, SettingsInv, [Next]_vars PROVE SettingsKept
    OBVIOUS
  <1>1. CASE Delete
    BY <1>1, SettingsOfDelete
  <1>2. ASSUME NEW c \in Clients, BeginCreate(c) \/ BeginUpdate(c) \/ Commit(c)
        PROVE  SettingsKept
    BY <1>2, SettingsOfCreate, SettingsOfUpdate, SettingsOfCommit
  <1>3. CASE \/ Start \/ Rerun \/ UNCHANGED vars
             \/ \E r \in DOMAIN runs : BeginCall(r) \/ Attempt(r) \/ RecordCall(r)
    <2>1. UNCHANGED <<providers, request, raced>>
      BY <1>3 DEF Start, Rerun, NewRun, BeginCall, Attempt, RecordCall, Step, vars
    <2>2. QED
      BY <2>1, SettingsFrame
  <1>4. QED
    BY <1>1, <1>2, <1>3 DEF Next

Inv == TypeInv /\ RunInv /\ SettingsInv

LEMMA Invariance == Spec => []Inv
  <1>1. Init => Inv
    <2>. SUFFICES ASSUME Init PROVE Inv
      OBVIOUS
    <2>1. providers = << >> /\ runs = << >>
      BY DEF Init
    <2>2. providers \in Seq(Provider) /\ runs \in Seq(RunShape)
      BY <2>1, EmptySeq
    <2>3. DOMAIN providers = {} /\ DOMAIN runs = {}
      BY <2>1, EmptySeq, LenProperties
    <2>4. /\ \A c \in Clients : request[c] = NoRequest
          /\ request \in [Clients -> Pending \cup {NoRequest}] /\ raced = FALSE
      BY DEF Init
    <2>5. QED
      BY <2>2, <2>3, <2>4 DEF Inv, TypeInv, RunInv, SettingsInv, RequestInv, KeysKept, OneDefault,
                              Defaults, Rows, Idle
  <1>2. Inv /\ [Next]_vars => Inv'
    <2>. SUFFICES ASSUME Inv, [Next]_vars PROVE Inv'
      OBVIOUS
    <2>1. TypeInv /\ RunInv /\ SettingsInv
      BY DEF Inv
    <2>2. SettingsKept
      BY <2>1, SettingsOfStep
    <2>3. runs' \in Seq(RunShape) /\ RunInv'
      BY <2>1, RunsOfStep
    <2>4. QED
      BY <2>2, <2>3 DEF Inv, TypeInv, SettingsKept
  <1>3. QED
    BY <1>1, <1>2, PTL DEF Spec

\* A run and its reruns call no provider but the one they were started with,
\* whatever administrators change while they run.
THEOREM RunsAlwaysKeepTheirModel == Spec => []RunsKeepTheirModel
  <1>1. Inv => RunsKeepTheirModel
    BY DEF Inv, RunInv, Faithful, RunsKeepTheirModel
  <1>2. QED
    BY <1>1, Invariance, PTL

\* Without writes over stale rows a workspace has at most one default provider,
\* an enabled one, and no row loses a key that was entered.
THEOREM SettingsAlwaysHold == Spec => []SettingsHold
  <1>1. Inv => SettingsHold
    <2>. SUFFICES ASSUME Inv PROVE SettingsHold
      OBVIOUS
    <2>1. ASSUME OneDefault PROVE Cardinality(Defaults(providers)) <= 1
      <3>1. CASE Defaults(providers) = {}
        BY <3>1, FS_EmptySet
      <3>2. CASE Defaults(providers) # {}
        <4>1. PICK p \in Defaults(providers) : Defaults(providers) = {p}
          BY <2>1, <3>2 DEF OneDefault
        <4>2. QED
          BY <4>1, FS_Singleton
      <3>3. QED
        BY <3>1, <3>2
    <2>2. QED
      BY <2>1 DEF Inv, SettingsInv, OneDefault, KeysKept, SettingsHold
  <1>2. QED
    BY <1>1, Invariance, PTL

=============================================================================
