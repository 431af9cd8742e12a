--------------------------- MODULE ConfigSession ----------------------------
(***************************************************************************)
(* Changing the configuration: shells in configure mode (ggsh), the        *)
(* server's management requests and the files they share (conf::fs).       *)
(*                                                                         *)
(* A shell opens the lock file, locks it and writes its session UUID into  *)
(* it, reads rogg.conf into a candidate, edits it and sends it to the      *)
(* server, which compares the UUID, applies the config and writes the      *)
(* file; on success the shell removes the lock file and closes it.  The    *)
(* lock file is an inode that a path names: removing the path leaves the   *)
(* inode to those who have it open.  The server takes one request at a     *)
(* time; its file operations interleave with those of the shells, and it   *)
(* may crash between any two of them.                                      *)
(***************************************************************************)
EXTENDS Integers, Sequences, FiniteSets

CONSTANTS Shells, NoOne,   \* the ggsh processes, each with its session UUID
          Setups,          \* scenarios: [text, shells, edits, requests, kinds, versions, faults]
          SnapshotCount    \* conf::fs::SNAPSHOT_COUNT, 10 in the code
\* What the session carries and does not look into: the texts and trees of
\* conf::language, the configs of conf::bgp, the commands of the grammar and what
\* the server does with a config (ConfEdit, ConfModel, Management).
CONSTANTS Read(_), Show(_),             \* text -> [ok, body]; body -> text
          Accepts(_), AfterEdit(_, _),     \* is it an editing command; body, command -> body
          Load(_), Store(_),            \* text -> [ok, config]; config -> text
          CanStart(_), StartedFrom(_),  \* config -> BOOLEAN, server
          Apply(_, _), Perform(_, _),   \* server, config or request -> [ok, srv]
          IsUnlocked(_),                \* is it a request that does not ask for the lock
          Idling(_), Met(_, _)          \* server -> peers without a session; server, peer -> server

ASSUME ShellsAssumption == IsFiniteSet(Shells) /\ NoOne \notin Shells
ASSUME SnapshotAssumption == SnapshotCount \in Nat \ {0}
ASSUME FaultsAssumption == \A s \in Setups : s.faults \in [kills : Nat, crashes : Nat, writes : Nat]

VARIABLES setup,     \* the scenario of this behaviour
          file,      \* rogg.conf: its text and which version of the log that is
          snaps,     \* rogg.<i>.conf
          lock,      \* the inode the lock path names, 0 when there is none
          inodes,    \* inode -> the UUID written in it and who holds it exclusively
          shells,    \* shell -> [at, ino, base, cand]
          calls,     \* requests of shells that the server has not taken yet
          up, srv,   \* is the server running; its state
          job,       \* the write of the file in progress
          requests,  \* imperative requests still to come
          faults,    \* crashes, kills and failed writes still to come
          log,       \* the versions of rogg.conf: who wrote each, from which candidate,
                     \* and whether its session had lost the lock file by then
          dirty,     \* a commit changed what runs and then failed
          unsaved    \* srv.config differs from what was last written or read
vars == <<setup, file, snaps, lock, inodes, shells, calls, up, srv, job, requests, faults, log, dirty, unsaved>>
lockVars == <<lock, inodes>>
fileVars == <<file, snaps>>
serverVars == <<up, srv, job, dirty, unsaved>>

Slots == 1..SnapshotCount
Inodes == 1..Cardinality(Shells) + 1
Absent == [text |-> <<>>, v |-> 0]
Torn == [text |-> <<>>, v |-> -1]
Free == [uuid |-> NoOne, holder |-> NoOne]
Idle == [pc |-> "idle"]
AtRoot == [at |-> "root", ino |-> 0, base |-> 0, cand |-> <<>>]

Init == /\ setup \in Setups
        /\ file = [text |-> setup.text, v |-> 1] /\ snaps = [i \in Slots |-> Absent]
        /\ lock = 0 /\ inodes = [i \in Inodes |-> Free]
        /\ shells = [s \in Shells |-> AtRoot] /\ calls = {}
        /\ up = TRUE /\ srv = StartedFrom(Load(setup.text).config) /\ job = Idle
        /\ requests = setup.requests /\ faults = setup.faults
        /\ log = <<[by |-> NoOne, base |-> 0, kind |-> "start", late |-> FALSE]>>
        /\ dirty = FALSE /\ unsaved = FALSE

-----------------------------------------------------------------------------
(***************************************************************************)
(* The shell.                                                              *)
(***************************************************************************)

\* An inode nobody has open, for a file that open creates.
Unused == CHOOSE i \in Inodes : i # lock /\ \A s \in Shells : shells[s].ino # i
\* open_lock_file: the inode the path names, a new one if it names none.
Named == IF lock = 0 THEN Unused ELSE lock
WithNamed == IF lock = 0 THEN [inodes EXCEPT ![Unused] = Free] ELSE inodes

ShellOpen(s) ==
    /\ shells[s].at = "root" /\ Cardinality({t \in Shells : shells[t].at # "root"}) < setup.shells
    /\ shells' = [shells EXCEPT ![s].at = "opened", ![s].ino = Named]
    /\ lock' = Named /\ inodes' = WithNamed
    /\ UNCHANGED <<setup, fileVars, calls, serverVars, requests, faults, log>>
\* acquire_exclusive_lock after the open: flock, then the UUID.
ShellLock(s) ==
    /\ shells[s].at = "opened"
    /\ IF inodes[shells[s].ino].holder = NoOne
       THEN /\ inodes' = [inodes EXCEPT ![shells[s].ino] = [uuid |-> s, holder |-> s]]
            /\ shells' = [shells EXCEPT ![s].at = "locked"]
       ELSE shells' = [shells EXCEPT ![s] = AtRoot] /\ UNCHANGED inodes
    /\ UNCHANGED <<setup, fileVars, lock, calls, serverVars, requests, faults, log>>
\* enter_configure: the file is the candidate; one that does not parse ends the
\* session, the lock dropped first and its path removed after.
ShellRead(s) ==
    LET tree == Read(file.text)
    IN /\ shells[s].at = "locked"
       /\ IF ~tree.ok
          THEN /\ shells' = [shells EXCEPT ![s].at = "removing", ![s].ino = 0]
               /\ inodes' = [inodes EXCEPT ![shells[s].ino].holder = NoOne]
          ELSE /\ shells' = [shells EXCEPT ![s].at = "config", ![s].base = file.v, ![s].cand = tree.body]
               /\ UNCHANGED inodes
       /\ UNCHANGED <<setup, fileVars, lock, calls, serverVars, requests, faults, log>>
\* execute: an editing command the grammar accepts.
ShellEdit(s, words) ==
    /\ shells[s].at = "config" /\ Accepts(words)
    /\ shells' = [shells EXCEPT ![s].cand = AfterEdit(@, words)]
    /\ UNCHANGED <<setup, fileVars, lockVars, calls, serverVars, requests, faults, log>>
\* commit_configure sends the candidate and waits; a client of the API that took
\* the lock may ask for a save or a rollback in the same way.
ShellSend(s, kind) ==
    /\ shells[s].at = "config"
    /\ Len(log) + Cardinality(calls) + Cardinality({job} \ {Idle}) < setup.versions
    /\ calls' = calls \cup {[from |-> s, kind |-> kind, base |-> shells[s].base, text |-> Show(shells[s].cand)]}
    /\ shells' = [shells EXCEPT ![s].at = "waiting"]
    /\ UNCHANGED <<setup, fileVars, lockVars, serverVars, requests, faults, log>>
\* exit without a commit.
ShellExit(s) ==
    /\ shells[s].at = "config" /\ shells' = [shells EXCEPT ![s].at = "leaving"]
    /\ UNCHANGED <<setup, fileVars, lockVars, calls, serverVars, requests, faults, log>>
\* The lock file is removed, whichever inode its path names by then...
ShellUnlink(s) ==
    /\ shells[s].at \in {"leaving", "removing"} /\ lock' = 0
    /\ shells' = [shells EXCEPT ![s] = IF @.at = "removing" THEN AtRoot ELSE [@ EXCEPT !.at = "dropping"]]
    /\ UNCHANGED <<setup, fileVars, inodes, calls, serverVars, requests, faults, log>>
Release(s) == [i \in Inodes |-> IF inodes[i].holder = s THEN [inodes[i] EXCEPT !.holder = NoOne] ELSE inodes[i]]
\* ...and then the lock is dropped.
ShellDrop(s) ==
    /\ shells[s].at = "dropping" /\ inodes' = Release(s) /\ shells' = [shells EXCEPT ![s] = AtRoot]
    /\ UNCHANGED <<setup, fileVars, lock, calls, serverVars, requests, faults, log>>
\* The process ends (a signal, Ctrl-C or end of input): its lock goes, the lock
\* file and a request under way stay.
ShellKill(s) ==
    /\ faults.kills > 0 /\ faults' = [faults EXCEPT !.kills = @ - 1]
    /\ shells[s].at \notin {"root", "gone"}
    /\ inodes' = Release(s) /\ shells' = [shells EXCEPT ![s] = [AtRoot EXCEPT !.at = "gone"]]
    /\ UNCHANGED <<setup, fileVars, lock, calls, serverVars, requests, log>>

\* What a shell does with the answer: it leaves after a commit that worked,
\* otherwise it stays in configure mode.
Answered(s, kind, ok) ==
    [shells EXCEPT ![s] = IF @.at # "waiting" THEN @
                          ELSE [@ EXCEPT !.at = IF ok /\ kind = "commit" THEN "leaving" ELSE "config"]]

-----------------------------------------------------------------------------
(***************************************************************************)
(* The server.                                                             *)
(***************************************************************************)

\* Mutant: any session will do.
verify_session_uuid_Any(s) == lock # 0 /\ inodes[lock].uuid # NoOne
verify_session_uuid(s) == lock # 0 /\ inodes[lock].uuid = s
\* Which config a request is about: the candidate, the newest snapshot, or the
\* one in memory.
Wanted(call) ==
    CASE call.kind = "commit" -> Load(call.text)
      [] call.kind = "rollback" -> Load(snaps[1].text)
      [] call.kind = "save" -> [ok |-> TRUE, config |-> srv.config]
\* handle_commit_config, handle_rollback_config, handle_save_config up to the
\* first file operation.
TakeCall(call) ==
    LET wanted == Wanted(call)
        applied == IF call.kind = "save" THEN [ok |-> TRUE, srv |-> srv] ELSE Apply(srv, wanted.config)
    IN /\ up /\ job = Idle /\ calls' = calls \ {call}
       /\ IF ~verify_session_uuid(call.from) \/ ~wanted.ok
          THEN shells' = Answered(call.from, call.kind, FALSE) /\ UNCHANGED <<srv, job, dirty>>
          ELSE /\ srv' = applied.srv
               /\ IF applied.ok
                  THEN /\ job' = [pc |-> "writing", call |-> call, config |-> wanted.config]
                       /\ UNCHANGED <<shells, dirty>>
                  ELSE /\ shells' = Answered(call.from, call.kind, FALSE)
                       /\ dirty' = (dirty \/ applied.srv # srv) /\ UNCHANGED job
       /\ UNCHANGED <<setup, fileVars, lockVars, up, requests, faults, log, unsaved>>

\* persist_service_config on the snapshots, file operation by file operation:
\* rotate_snapshots removes the oldest and renames each to the next, the oldest
\* first; fs::copy then fills the newest, which is incomplete until it is done.
FileOps == SnapshotCount + 2
\* Mutant: the newest is renamed first.
FileOp_NewestFirst(s, n) ==
    CASE n = 1 -> [s EXCEPT ![SnapshotCount] = Absent]
      [] n \in 2..SnapshotCount -> IF s[n - 1] = Absent THEN s ELSE [s EXCEPT ![n] = s[n - 1], ![n - 1] = Absent]
      [] n = SnapshotCount + 1 -> s
      [] n = SnapshotCount + 2 -> s
FileOp(s, n) ==
    CASE n = 1 -> [s EXCEPT ![SnapshotCount] = Absent]
      [] n \in 2..SnapshotCount ->
            LET i == SnapshotCount + 1 - n
            IN IF s[i] = Absent THEN s ELSE [s EXCEPT ![i + 1] = s[i], ![i] = Absent]
      [] n = SnapshotCount + 1 -> [s EXCEPT ![1] = Torn]
      [] n = SnapshotCount + 2 -> [s EXCEPT ![1] = file]
After(n) == LET left[k \in 0..n] == IF k = 0 THEN snaps ELSE FileOp(left[k - 1], k) IN left[n]
\* Mutant: the file gets the config from before the commit.
Persist_OldConfig ==
    /\ job # Idle /\ Read(file.text).ok
    /\ snaps' = After(FileOps)
    /\ log' = Append(log, [by |-> job.call.from, base |-> job.call.base, kind |-> job.call.kind,
                           late |-> lock = 0 \/ inodes[lock].holder # job.call.from])
    /\ file' = [text |-> Store(srv.config), v |-> Len(log) + 1]
    /\ srv' = [srv EXCEPT !.config = job.config]
    /\ shells' = Answered(job.call.from, job.call.kind, TRUE)
    /\ job' = Idle /\ unsaved' = FALSE
    /\ UNCHANGED <<setup, lockVars, calls, up, requests, faults, dirty>>
\* The temporary file is renamed over rogg.conf, self.config replaced and the
\* answer sent.  Nobody but the server looks at the snapshots, so the operations
\* on them are one step with the rename.
Persist ==
    /\ job # Idle /\ Read(file.text).ok
    /\ snaps' = After(FileOps)
    /\ log' = Append(log, [by |-> job.call.from, base |-> job.call.base, kind |-> job.call.kind,
                           late |-> lock = 0 \/ inodes[lock].holder # job.call.from])
    /\ file' = [text |-> Store(job.config), v |-> Len(log) + 1]
    /\ srv' = [srv EXCEPT !.config = job.config]
    /\ shells' = Answered(job.call.from, job.call.kind, TRUE)
    /\ job' = Idle /\ unsaved' = FALSE
    /\ UNCHANGED <<setup, lockVars, calls, up, requests, faults, dirty>>
\* A file operation failed, or the file does not parse and its other services
\* cannot be kept: the caller hears of it, what runs stays changed.
PersistFails ==
    /\ job # Idle
    /\ IF ~Read(file.text).ok THEN UNCHANGED <<snaps, faults>>
       ELSE /\ faults.writes > 0 /\ faults' = [faults EXCEPT !.writes = @ - 1]
            /\ \E n \in 0..FileOps : snaps' = After(n)
    /\ shells' = Answered(job.call.from, job.call.kind, FALSE)
    /\ job' = Idle /\ dirty' = (dirty \/ job.call.kind # "save")
    /\ UNCHANGED <<setup, file, lockVars, calls, up, srv, requests, log, unsaved>>

\* handle_mgmt_op: an imperative request is refused while another process holds
\* the lock file exclusively; asking creates the file.
MgmtOp(op) ==
    LET refused == ~IsUnlocked(op) /\ WithNamed[Named].holder # NoOne
        done == Perform(srv, op)
    IN /\ up /\ job = Idle /\ op \in requests /\ requests' = requests \ {op}
       /\ srv' = IF refused THEN srv ELSE done.srv
       /\ unsaved' = (unsaved \/ srv'.config # srv.config)
       /\ IF IsUnlocked(op) THEN UNCHANGED lockVars ELSE lock' = Named /\ inodes' = WithNamed
       /\ UNCHANGED <<setup, fileVars, shells, calls, up, job, faults, log, dirty>>
\* A session of a peer comes up.
PeerUp(a) ==
    /\ up /\ job = Idle /\ srv' = Met(srv, a)
    /\ UNCHANGED <<setup, fileVars, lockVars, shells, calls, up, job, requests, faults, log, dirty, unsaved>>

\* The daemon dies, between two file operations if it is writing: callers get a
\* transport error.
Crash ==
    /\ up /\ faults.crashes > 0 /\ faults' = [faults EXCEPT !.crashes = @ - 1]
    /\ up' = FALSE /\ job' = Idle /\ calls' = {}
    /\ \E n \in 0..FileOps : snaps' = IF job = Idle THEN snaps ELSE After(n)
    /\ shells' = [s \in Shells |-> IF shells[s].at = "waiting" THEN [shells[s] EXCEPT !.at = "config"] ELSE shells[s]]
    /\ UNCHANGED <<setup, file, lockVars, srv, requests, log, dirty, unsaved>>
\* bgpggd, BgpServer::new: the file must load and every policy build.
Loads == Load(file.text).ok /\ CanStart(Load(file.text).config)
Start ==
    /\ ~up /\ Loads /\ up' = TRUE
    /\ srv' = StartedFrom(Load(file.text).config) /\ dirty' = FALSE /\ unsaved' = FALSE
    /\ UNCHANGED <<setup, fileVars, lockVars, shells, calls, job, requests, faults, log>>

ShellStep(s) ==
    \/ ShellOpen(s) \/ ShellLock(s) \/ ShellRead(s) \/ (\E w \in setup.edits : ShellEdit(s, w))
    \/ (\E k \in setup.kinds : ShellSend(s, k)) \/ ShellExit(s) \/ ShellUnlink(s) \/ ShellDrop(s)
    \/ ShellKill(s)
Next == \/ \E s \in Shells : ShellStep(s)
        \/ (\E c \in calls : TakeCall(c)) \/ Persist \/ PersistFails \/ Crash \/ Start
        \/ (\E op \in requests : MgmtOp(op)) \/ (\E a \in Idling(srv) : PeerUp(a))
Spec == Init /\ [][Next]_vars

-----------------------------------------------------------------------------
\* Every variable has its type, and who holds a lock has its file open.
TypeOK ==
  /\ file.v \in 1..Len(log) /\ Len(log) <= setup.versions
  /\ \A i \in Slots : snaps[i].v \in -1..Len(log)
  /\ lock \in Inodes \cup {0} /\ \A i \in Inodes : {inodes[i].uuid, inodes[i].holder} \subseteq Shells \cup {NoOne}
  /\ \A s \in Shells : shells[s].at \in {"root", "opened", "locked", "config", "waiting", "leaving", "dropping",
                                         "removing", "gone"}
  /\ \A i \in Inodes : inodes[i].holder # NoOne => shells[inodes[i].holder].ino = i
  /\ job = Idle \/ job.call.from \in Shells
\* The version before the one in rogg.conf is in some snapshot, unless as many
\* crashes and failed writes came in the middle of commits as there are slots, and
\* snapshots are in order of age (persist_service_config, rotate_snapshots).
PreviousVersionKept ==
    /\ file.v > 1 /\ setup.faults.crashes + setup.faults.writes < SnapshotCount =>
          \E i \in Slots : snaps[i].v = file.v - 1
    /\ \A i, j \in Slots : i < j /\ snaps[i].v > 0 /\ snaps[j].v > 0 => snaps[i].v >= snaps[j].v
\* A commit never overwrites a version its shell had not read: every version since
\* the one the candidate was read from is of the same shell, or of a session that
\* no longer held the lock file when the server wrote it (the shell had been
\* killed, or another one had removed the file).  Saves and rollbacks neither.
NoLostCommit ==
    \A v \in 1..Len(log) : \A u \in log[v].base + 1..v - 1 : log[u].by = log[v].by \/ log[u].late
=============================================================================
