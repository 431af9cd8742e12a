---------------------------- MODULE ConfigProofs ----------------------------
(***************************************************************************)
(* The sessions that edit the configuration, and the communities in it.    *)
(*                                                                         *)
(* ConfigSession.  What the lock file and the snapshots guarantee, for any *)
(* number of shells and slots and whatever texts, configs, commands and    *)
(* requests are: no version is written over one its session had not read,  *)
(* and the version before the current one survives crashes and failed      *)
(* writes.  The lock is advisory and its path may be removed while others  *)
(* have the file open, so what protects a candidate is the UUID in the     *)
(* file: a session that wrote a version while it held the lock had put its *)
(* own UUID there, and nothing ever puts the UUID of an older session      *)
(* back.                                                                   *)
(*                                                                         *)
(* CommunityForms.  Texts and messages preserve what is shown of every     *)
(* extended community that a message can carry.  Neither conversion is the *)
(* identity: reserved octets become zero, a NaN the usual one, and a small *)
(* four-octet AS number a two-octet one, which changes the type.  What     *)
(* both keep is the text, the transitivity, and that a message can carry   *)
(* the result.                                                             *)
(***************************************************************************)
EXTENDS ConfigSession, CommunityForms, FiniteSetTheorems, WellFoundedInduction, TLAPS

-----------------------------------------------------------------------------
(* The sessions: what their invariant says *)

Places == {"root", "opened", "locked", "config", "waiting", "leaving", "dropping", "removing", "gone"}
Kinds == {"start"} \cup UNION {s.kinds : s \in Setups}
Entries == [by : Shells \cup {NoOne}, base : Nat, kind : Kinds, late : BOOLEAN]

IsShell(r) ==
  /\ r = [at |-> r.at, ino |-> r.ino, base |-> r.base, cand |-> r.cand]
  /\ r.at \in Places /\ r.ino \in Inodes \cup {0} /\ r.base \in Nat

IsCall(c) == c.from \in Shells /\ c.base \in Nat /\ c.kind \in Kinds

Types ==
  /\ setup \in Setups
  /\ lock \in Inodes \cup {0}
  /\ inodes \in [Inodes -> [uuid : Shells \cup {NoOne}, holder : Shells \cup {NoOne}]]
  /\ shells = [s \in Shells |-> shells[s]] /\ \A s \in Shells : IsShell(shells[s])
  /\ \A c \in calls : IsCall(c)
  /\ job # Idle => IsCall(job.call)
  /\ log \in Seq(Entries) /\ file.v = Len(log) /\ Len(log) > 0

\* A request under way is the only one of its shell, which waits for the answer or
\* is gone.
Waiting ==
  /\ \A c \in calls : shells[c.from].at \in {"waiting", "gone"}
  /\ \A c, d \in calls : c.from = d.from => c = d
  /\ job # Idle => /\ shells[job.call.from].at \in {"waiting", "gone"}
                   /\ \A c \in calls : c.from # job.call.from

\* Who holds a lock wrote the UUID that is in the file.
HoldersSign == \A i \in Inodes : inodes[i].holder # NoOne => inodes[i].uuid = inodes[i].holder

\* No version since base is of another session that held the lock file.
Unseen(l, s, base) == \A u \in base + 1..Len(l) : l[u].by = s \/ l[u].late

\* A session whose UUID is in the lock file has missed nothing.
Current(s, base) == verify_session_uuid(s) => Unseen(log, s, base)

Sessions ==
  /\ \A s \in Shells : shells[s].at \in {"config", "waiting"} => Current(s, shells[s].base)
  /\ \A c \in calls : Current(c.from, c.base)
  /\ job # Idle => Unseen(log, job.call.from, job.call.base)

SessionInv == Types /\ Waiting /\ HoldersSign /\ Sessions /\ NoLostCommit

-----------------------------------------------------------------------------
(* The lock file *)

\* A file that is not there can be created on an inode nobody has open.
LEMMA UnusedExists ==
  ASSUME Types, lock = 0
  PROVE  Unused \in Inodes /\ \A s \in Shells : shells[s].ino # Unused
<1>. DEFINE f == [s \in Shells |-> shells[s].ino]
            Open == {shells[s].ino : s \in Shells}
<1>1. f \in Surjection(Shells, Open)
  BY DEF Surjection
<1>2. IsFiniteSet(Open) /\ Cardinality(Open) <= Cardinality(Shells)
  BY <1>1, FS_Surjection, ShellsAssumption
<1>3. Cardinality(Shells) \in Nat /\ Cardinality(Open) \in Nat
  BY <1>2, FS_CardinalityType, ShellsAssumption
<1>4. Cardinality(Inodes) = Cardinality(Shells) + 1
  BY <1>3, FS_Interval DEF Inodes
<1>5. ~(Inodes \subseteq Open)
  <2>1. ASSUME Inodes \subseteq Open PROVE FALSE
    <3>1. Cardinality(Inodes) <= Cardinality(Open)
      BY <1>2, <2>1, FS_Subset
    <3>. QED
      BY <1>2, <1>3, <1>4, <3>1
  <2>. QED
    BY <2>1
<1>6. PICK i \in Inodes : i \notin Open
  BY <1>5
<1>7. 0 \notin Inodes
  BY <1>3 DEF Inodes
<1>8. i # lock /\ \A s \in Shells : shells[s].ino # i
  BY <1>6, <1>7
<1>. QED
  BY <1>6, <1>8 DEF Unused

\* Opening the lock file: its inode, as it is or new.
LEMMA NamedKeeps ==
  ASSUME Types
  PROVE  /\ Named \in Inodes
         /\ WithNamed \in [Inodes -> [uuid : Shells \cup {NoOne}, holder : Shells \cup {NoOne}]]
         /\ lock # 0 => Named = lock /\ WithNamed = inodes
         /\ lock = 0 => /\ WithNamed[Named] = Free
                        /\ \A i \in Inodes : i # Named => WithNamed[i] = inodes[i]
<1>1. Free \in [uuid : Shells \cup {NoOne}, holder : Shells \cup {NoOne}]
  BY DEF Free
<1>2. CASE lock = 0
  <2>1. Unused \in Inodes
    BY <1>2, UnusedExists
  <2>. QED
    BY <1>1, <1>2, <2>1 DEF Named, WithNamed, Types
<1>3. CASE lock # 0
  BY <1>3 DEF Named, WithNamed, Types
<1>. QED
  BY <1>2, <1>3

-----------------------------------------------------------------------------
(* Steps of the shells *)

\* A step of one shell that leaves its requests, the file and the log alone: it may
\* put its own UUID into a lock file only when it has no candidate and no request.
LEMMA ShellStepKeeps ==
  ASSUME SessionInv, NEW s \in Shells, NEW r, IsShell(r), shells' = [shells EXCEPT ![s] = r],
         UNCHANGED <<setup, file, calls, job, log>>,
         lock' \in Inodes \cup {0},
         inodes' \in [Inodes -> [uuid : Shells \cup {NoOne}, holder : Shells \cup {NoOne}]],
         HoldersSign',
         shells[s].at \in {"waiting", "gone"} => r.at \in {"waiting", "gone"},
         \A t \in Shells : t # s \/ shells[s].at \in {"waiting", "gone"} \/ r.at \in {"config", "waiting"} =>
                            (verify_session_uuid(t)' => verify_session_uuid(t)),
         r.at \in {"config", "waiting"} => Current(s, r.base)
  PROVE  SessionInv'
<1>1. Types'
  <2>1. shells' = [t \in Shells |-> shells'[t]] /\ \A t \in Shells : IsShell(shells[t])'
    BY DEF SessionInv, Types, IsShell, Inodes
  <2>. QED
    BY <2>1 DEF SessionInv, Types, IsCall, Inodes, Entries, Idle
<1>2. \A t \in Shells : shells'[t] = IF t = s THEN r ELSE shells[t]
  BY DEF SessionInv, Types
<1>3. Waiting'
  BY <1>2 DEF SessionInv, Types, Waiting, IsCall, Idle
<1>4. \A t \in Shells : \A b : Current(t, b) /\ (verify_session_uuid(t)' => verify_session_uuid(t)) => Current(t, b)'
  BY DEF Current, Unseen
<1>5. Sessions'
  <2>1. ASSUME NEW t \in Shells, shells'[t].at \in {"config", "waiting"} PROVE Current(t, shells[t].base)'
    <3>1. CASE t = s
      BY <1>2, <1>4, <2>1, <3>1, Zenon DEF Current, Unseen
    <3>2. CASE t # s
      BY <1>2, <1>4, <2>1, <3>2 DEF SessionInv, Sessions, Current, Unseen
    <3>. QED
      BY <3>1, <3>2
  <2>2. ASSUME NEW c \in calls PROVE Current(c.from, c.base)'
    <3>1. c.from \in Shells /\ shells[c.from].at \in {"waiting", "gone"} /\ Current(c.from, c.base)
      BY DEF SessionInv, Types, Waiting, IsCall, Sessions
    <3>. QED
      BY <1>4, <3>1
  <2>3. job # Idle => Unseen(log, job.call.from, job.call.base)
    BY DEF SessionInv, Sessions
  <2>. QED
    BY <2>1, <2>2, <2>3 DEF Sessions, Unseen, Idle
<1>6. NoLostCommit'
  BY DEF SessionInv, NoLostCommit
<1>. QED
  BY <1>1, <1>3, <1>5, <1>6 DEF SessionInv

\* The UUID in the lock file is what it was when neither path nor inodes changed.
LEMMA SameLock ==
  ASSUME SessionInv, UNCHANGED lockVars
  PROVE  /\ lock' \in Inodes \cup {0} /\ HoldersSign'
         /\ inodes' \in [Inodes -> [uuid : Shells \cup {NoOne}, holder : Shells \cup {NoOne}]]
         /\ \A t \in Shells : verify_session_uuid(t)' => verify_session_uuid(t)
BY DEF SessionInv, Types, HoldersSign, lockVars, verify_session_uuid

LEMMA OpenKeeps ==
  ASSUME SessionInv, NEW s \in Shells, ShellOpen(s)
  PROVE  SessionInv'
<1>1. PICK r : r = [shells[s] EXCEPT !.at = "opened", !.ino = Named]
  OBVIOUS
<1>2. IsShell(shells[s])
  BY DEF SessionInv, Types
<1>3. Types /\ Named \in Inodes
  BY NamedKeeps DEF SessionInv
<1>4. IsShell(r) /\ r.at = "opened"
  BY <1>1, <1>2, <1>3, Zenon DEF IsShell, Places
<1>5. shells' = [shells EXCEPT ![s] = r] /\ shells[s].at = "root"
  BY <1>1, <1>2, Zenon DEF ShellOpen, IsShell
<1>6. lock' = Named /\ inodes' = WithNamed /\ UNCHANGED <<setup, file, calls, job, log>>
  BY DEF ShellOpen, fileVars, serverVars
<1>7. HoldersSign'
  BY <1>3, <1>6, NamedKeeps DEF SessionInv, HoldersSign, Free
<1>8. \A t \in Shells : verify_session_uuid(t)' => verify_session_uuid(t)
  BY <1>3, <1>6, NamedKeeps, ShellsAssumption DEF verify_session_uuid, Free
<1>. QED
  BY <1>3, <1>4, <1>5, <1>6, <1>7, <1>8, NamedKeeps, ShellStepKeeps, Zenon

LEMMA LockKeeps ==
  ASSUME SessionInv, NEW s \in Shells, ShellLock(s)
  PROVE  SessionInv'
<1>1. IsShell(shells[s]) /\ shells[s].at = "opened" /\ UNCHANGED <<setup, file, calls, job, log, lock>>
  BY DEF SessionInv, Types, ShellLock, fileVars, serverVars
<1>2. Types /\ HoldersSign
  BY DEF SessionInv
<1>3. CASE inodes[shells[s].ino].holder = NoOne
  <2>1. PICK r : r = [shells[s] EXCEPT !.at = "locked"]
    BY Zenon
  <2>2. IsShell(r) /\ r.at = "locked"
    BY <1>1, <2>1 DEF IsShell, Places
  <2>3. /\ shells' = [shells EXCEPT ![s] = r]
        /\ inodes' = [inodes EXCEPT ![shells[s].ino] = [uuid |-> s, holder |-> s]]
    BY <1>3, <2>1 DEF ShellLock
  <2>4. /\ inodes' \in [Inodes -> [uuid : Shells \cup {NoOne}, holder : Shells \cup {NoOne}]]
        /\ HoldersSign'
    BY <1>2, <2>3, Zenon DEF Types, HoldersSign
  <2>5. \A t \in Shells : t # s => (verify_session_uuid(t)' => verify_session_uuid(t))
    BY <1>1, <1>2, <2>3 DEF verify_session_uuid, Types
  <2>. QED
    BY <1>1, <1>2, <2>2, <2>3, <2>4, <2>5, ShellStepKeeps, Zenon DEF Types
<1>4. CASE inodes[shells[s].ino].holder # NoOne
  <2>1. PICK r : r = AtRoot
    OBVIOUS
  <2>2. IsShell(r) /\ r.at = "root"
    BY <2>1 DEF IsShell, Places, AtRoot
  <2>3. shells' = [shells EXCEPT ![s] = r] /\ UNCHANGED lockVars
    BY <1>1, <1>4, <2>1 DEF ShellLock, lockVars
  <2>. QED
    BY <1>1, <2>2, <2>3, SameLock, ShellStepKeeps, Zenon
<1>. QED
  BY <1>3, <1>4

\* Locks that are dropped leave the UUIDs where they are.
LEMMA FewerHolders ==
  ASSUME SessionInv, lock' \in {lock, 0}, inodes' = [i \in Inodes |-> inodes'[i]],
         \A i \in Inodes : inodes'[i] \in {inodes[i], [inodes[i] EXCEPT !.holder = NoOne]}
  PROVE  /\ lock' \in Inodes \cup {0} /\ HoldersSign'
         /\ inodes' \in [Inodes -> [uuid : Shells \cup {NoOne}, holder : Shells \cup {NoOne}]]
         /\ \A t \in Shells : verify_session_uuid(t)' => verify_session_uuid(t)
<1>1. \A i \in Inodes : inodes[i] \in [uuid : Shells \cup {NoOne}, holder : Shells \cup {NoOne}]
  BY DEF SessionInv, Types
<1>2. \A i \in Inodes : /\ inodes'[i] \in [uuid : Shells \cup {NoOne}, holder : Shells \cup {NoOne}]
                        /\ inodes'[i].uuid = inodes[i].uuid /\ inodes'[i].holder \in {inodes[i].holder, NoOne}
  BY <1>1
<1>. QED
  BY <1>2 DEF SessionInv, Types, HoldersSign, verify_session_uuid

LEMMA ReadKeeps ==
  ASSUME SessionInv, NEW s \in Shells, ShellRead(s)
  PROVE  SessionInv'
<1>1. IsShell(shells[s]) /\ shells[s].at = "locked" /\ UNCHANGED <<setup, file, calls, job, log, lock>>
  BY DEF SessionInv, Types, ShellRead, fileVars, serverVars
<1>2. Types
  BY DEF SessionInv
<1>3. CASE ~Read(file.text).ok
  <2>1. PICK r : r = [shells[s] EXCEPT !.at = "removing", !.ino = 0]
    OBVIOUS
  <2>2. IsShell(r) /\ r.at = "removing"
    BY <1>1, <2>1, Zenon DEF IsShell, Places
  <2>3. shells' = [shells EXCEPT ![s] = r] /\ inodes' = [inodes EXCEPT ![shells[s].ino].holder = NoOne]
    BY <1>1, <1>3, <2>1, Zenon DEF ShellRead, IsShell
  <2>4. /\ inodes' = [i \in Inodes |-> inodes'[i]]
        /\ \A i \in Inodes : inodes'[i] \in {inodes[i], [inodes[i] EXCEPT !.holder = NoOne]}
    BY <1>2, <2>3, Zenon DEF Types
  <2>. QED
    BY <1>1, <2>2, <2>3, <2>4, FewerHolders, ShellStepKeeps, Zenon
<1>4. CASE Read(file.text).ok
  <2>1. PICK r : r = [shells[s] EXCEPT !.at = "config", !.base = file.v, !.cand = Read(file.text).body]
    OBVIOUS
  <2>2. file.v = Len(log) /\ Len(log) \in Nat
    BY <1>2 DEF Types
  <2>3. IsShell(r) /\ r.at = "config" /\ r.base = Len(log)
    BY <1>1, <2>1, <2>2, Zenon DEF IsShell, Places
  <2>4. shells' = [shells EXCEPT ![s] = r] /\ UNCHANGED lockVars
    BY <1>1, <1>4, <2>1, Zenon DEF ShellRead, IsShell, lockVars
  <2>5. Current(s, r.base)
    BY <2>2, <2>3 DEF Current, Unseen
  <2>. QED
    BY <1>1, <2>3, <2>4, <2>5, SameLock, ShellStepKeeps, Zenon
<1>. QED
  BY <1>3, <1>4

LEMMA EditKeeps ==
  ASSUME SessionInv, NEW s \in Shells, NEW words, ShellEdit(s, words)
  PROVE  SessionInv'
<1>1. IsShell(shells[s]) /\ shells[s].at = "config" /\ Current(s, shells[s].base)
  BY DEF SessionInv, Types, Sessions, ShellEdit
<1>2. PICK r : r = [shells[s] EXCEPT !.cand = AfterEdit(shells[s].cand, words)]
  BY Zenon
<1>3. IsShell(r) /\ r.at = "config" /\ r.base = shells[s].base
  BY <1>1, <1>2 DEF IsShell
<1>4. shells' = [shells EXCEPT ![s] = r] /\ UNCHANGED lockVars /\ UNCHANGED <<setup, file, calls, job, log>>
  BY <1>2 DEF ShellEdit, fileVars, serverVars
<1>. QED
  BY <1>1, <1>3, <1>4, SameLock, ShellStepKeeps, Zenon

LEMMA ExitKeeps ==
  ASSUME SessionInv, NEW s \in Shells, ShellExit(s)
  PROVE  SessionInv'
<1>1. IsShell(shells[s]) /\ shells[s].at = "config"
  BY DEF SessionInv, Types, ShellExit
<1>2. PICK r : r = [shells[s] EXCEPT !.at = "leaving"]
  BY Zenon
<1>3. IsShell(r) /\ r.at = "leaving"
  BY <1>1, <1>2 DEF IsShell, Places
<1>4. shells' = [shells EXCEPT ![s] = r] /\ UNCHANGED lockVars /\ UNCHANGED <<setup, file, calls, job, log>>
  BY <1>2 DEF ShellExit, fileVars, serverVars
<1>. QED
  BY <1>1, <1>3, <1>4, SameLock, ShellStepKeeps, Zenon

LEMMA UnlinkKeeps ==
  ASSUME SessionInv, NEW s \in Shells, ShellUnlink(s)
  PROVE  SessionInv'
<1>1. IsShell(shells[s]) /\ shells[s].at \in {"leaving", "removing"}
  BY DEF SessionInv, Types, ShellUnlink
<1>2. PICK r : r = IF shells[s].at = "removing" THEN AtRoot ELSE [shells[s] EXCEPT !.at = "dropping"]
  BY Zenon
<1>3. IsShell(r) /\ r.at \in {"root", "dropping"}
  BY <1>1, <1>2 DEF IsShell, Places, AtRoot
<1>4. /\ shells' = [shells EXCEPT ![s] = r] /\ lock' = 0 /\ inodes' = inodes
      /\ UNCHANGED <<setup, file, calls, job, log>>
  BY <1>2 DEF ShellUnlink, fileVars, serverVars
<1>5. inodes' = [i \in Inodes |-> inodes'[i]] /\ \A i \in Inodes : inodes'[i] = inodes[i]
  BY <1>4 DEF SessionInv, Types
<1>. QED
  BY <1>1, <1>3, <1>4, <1>5, FewerHolders, ShellStepKeeps, Zenon

LEMMA DropKeeps ==
  ASSUME SessionInv, NEW s \in Shells, ShellDrop(s)
  PROVE  SessionInv'
<1>1. shells[s].at = "dropping"
  BY DEF ShellDrop
<1>2. PICK r : r = AtRoot
  OBVIOUS
<1>3. IsShell(r) /\ r.at = "root"
  BY <1>2 DEF IsShell, Places, AtRoot
<1>4. /\ shells' = [shells EXCEPT ![s] = r] /\ lock' = lock /\ inodes' = Release(s)
      /\ UNCHANGED <<setup, file, calls, job, log>>
  BY <1>2 DEF ShellDrop, fileVars, serverVars
<1>5. /\ inodes' = [i \in Inodes |-> inodes'[i]]
      /\ \A i \in Inodes : inodes'[i] \in {inodes[i], [inodes[i] EXCEPT !.holder = NoOne]}
  BY <1>4 DEF Release
<1>. QED
  BY <1>1, <1>3, <1>4, <1>5, FewerHolders, ShellStepKeeps, Zenon

LEMMA KillKeeps ==
  ASSUME SessionInv, NEW s \in Shells, ShellKill(s)
  PROVE  SessionInv'
<1>2. PICK r : r = [AtRoot EXCEPT !.at = "gone"]
  BY Zenon
<1>3. IsShell(r) /\ r.at = "gone"
  BY <1>2 DEF IsShell, Places, AtRoot
<1>4. /\ shells' = [shells EXCEPT ![s] = r] /\ lock' = lock /\ inodes' = Release(s)
      /\ UNCHANGED <<setup, file, calls, job, log>>
  BY <1>2 DEF ShellKill, fileVars, serverVars
<1>5. /\ inodes' = [i \in Inodes |-> inodes'[i]]
      /\ \A i \in Inodes : inodes'[i] \in {inodes[i], [inodes[i] EXCEPT !.holder = NoOne]}
  BY <1>4 DEF Release
<1>. QED
  BY <1>3, <1>4, <1>5, FewerHolders, ShellStepKeeps, Zenon

LEMMA SendKeeps ==
  ASSUME SessionInv, NEW s \in Shells, NEW k \in setup.kinds, ShellSend(s, k)
  PROVE  SessionInv'
<1>1. IsShell(shells[s]) /\ shells[s].at = "config" /\ Current(s, shells[s].base)
  BY DEF SessionInv, Types, Sessions, ShellSend
<1>2. PICK c : c = [from |-> s, kind |-> k, base |-> shells[s].base, text |-> Show(shells[s].cand)]
  BY Zenon
<1>3. PICK r : r = [shells[s] EXCEPT !.at = "waiting"]
  BY Zenon
<1>4. IsShell(r) /\ r.at = "waiting" /\ r.base = shells[s].base
  BY <1>1, <1>3 DEF IsShell, Places
<1>5. k \in Kinds
  BY Zenon DEF SessionInv, Types, Kinds
<1>6. IsCall(c) /\ c.from = s /\ c.base = shells[s].base
  BY <1>1, <1>2, <1>5 DEF IsCall, IsShell
<1>7. /\ shells' = [shells EXCEPT ![s] = r] /\ calls' = calls \cup {c}
      /\ UNCHANGED <<setup, file, job, log, lock, inodes>>
  BY <1>2, <1>3 DEF ShellSend, fileVars, lockVars, serverVars
<1>8. \A t \in Shells : shells'[t] = IF t = s THEN r ELSE shells[t]
  BY <1>7, Zenon DEF SessionInv, Types
<1>9. Types'
  <2>1. shells' = [t \in Shells |-> shells'[t]] /\ \A t \in Shells : IsShell(shells[t])'
    BY <1>4, <1>7, <1>8 DEF SessionInv, Types, IsShell, Inodes
  <2>2. \A d \in calls' : IsCall(d)
    BY <1>6, <1>7 DEF SessionInv, Types
  <2>. QED
    BY <1>7, <2>1, <2>2, Zenon DEF SessionInv, Types, IsCall, Inodes, Entries, Idle
<1>10. (\A d \in calls : d.from # s) /\ (job # Idle => job.call.from # s)
  BY <1>1, Zenon DEF SessionInv, Waiting
<1>11. Waiting'
  BY <1>4, <1>6, <1>7, <1>8, <1>10 DEF SessionInv, Types, IsCall, Waiting, Idle
<1>12. \A t, b : Current(t, b) => Current(t, b)'
  BY <1>7 DEF Current, Unseen, verify_session_uuid
<1>13. Sessions'
  <2>1. ASSUME NEW t \in Shells, shells'[t].at \in {"config", "waiting"} PROVE Current(t, shells[t].base)'
    <3>1. shells'[t].base = shells[t].base /\ shells[t].at \in {"config", "waiting"}
      BY <1>1, <1>4, <1>8, <2>1, Zenon
    <3>2. Current(t, shells[t].base)
      BY <3>1 DEF SessionInv, Sessions
    <3>. QED
      BY <1>7, <3>1, <3>2 DEF Current, Unseen, verify_session_uuid
  <2>2. ASSUME NEW d \in calls' PROVE Current(d.from, d.base)'
    <3>1. Current(d.from, d.base)
      BY <1>1, <1>6, <1>7 DEF SessionInv, Sessions
    <3>. QED
      BY <1>12, <3>1
  <2>3. job # Idle => Unseen(log, job.call.from, job.call.base)
    BY DEF SessionInv, Sessions
  <2>. QED
    BY <1>7, <2>1, <2>2, <2>3 DEF Sessions, Unseen, Idle
<1>14. HoldersSign' /\ NoLostCommit'
  BY <1>7 DEF SessionInv, HoldersSign, NoLostCommit
<1>. QED
  BY <1>9, <1>11, <1>13, <1>14, Zenon DEF SessionInv

-----------------------------------------------------------------------------
(* Steps of the server *)

\* The answer to a request changes where its shell is, if that still waits.
LEMMA AnsweredIs ==
  ASSUME Types, NEW s \in Shells, NEW kind, NEW ok, NEW sh, sh = Answered(s, kind, ok)
  PROVE  /\ sh = [t \in Shells |-> sh[t]]
         /\ \A t \in Shells : /\ IsShell(sh[t])
                              /\ t # s \/ shells[t].at # "waiting" => sh[t] = shells[t]
                              /\ sh[t].at \in {"config", "waiting"} => /\ sh[t].base = shells[t].base
                                                                       /\ shells[t].at \in {"config", "waiting"}
<1>1. PICK r : r = IF shells[s].at # "waiting" THEN shells[s]
                   ELSE [shells[s] EXCEPT !.at = IF ok /\ kind = "commit" THEN "leaving" ELSE "config"]
  BY Zenon
<1>2. sh = [shells EXCEPT ![s] = r]
  BY <1>1 DEF Answered
<1>3. IsShell(shells[s])
  BY DEF Types
<1>4. IsShell(r) /\ r.base = shells[s].base /\ (shells[s].at # "waiting" => r = shells[s])
  BY <1>1, <1>3 DEF IsShell, Places
<1>5. \A t \in Shells : sh[t] = IF t = s THEN r ELSE shells[t]
  BY <1>2 DEF Types
<1>. QED
  BY <1>1, <1>2, <1>4, <1>5, Zenon DEF Types

\* So it does in a step.
LEMMA AnsweredSteps ==
  ASSUME Types, NEW s \in Shells, NEW kind, NEW ok, shells' = Answered(s, kind, ok)
  PROVE  /\ shells' = [t \in Shells |-> shells'[t]]
         /\ \A t \in Shells : /\ IsShell(shells'[t])
                              /\ t # s \/ shells[t].at # "waiting" => shells'[t] = shells[t]
                              /\ shells'[t].at \in {"config", "waiting"} => /\ shells'[t].base = shells[t].base
                                                                            /\ shells[t].at \in {"config", "waiting"}
<1>1. PICK sh : sh = shells'
  OBVIOUS
<1>2. sh = Answered(s, kind, ok)
  BY <1>1
<1>. QED
  BY <1>1, <1>2, AnsweredIs

\* A step that writes no version: requests and candidates go, or stay as they were.
LEMMA ServerKeeps ==
  ASSUME SessionInv, UNCHANGED <<setup, file, log>>, lock' \in Inodes \cup {0}, HoldersSign',
         inodes' \in [Inodes -> [uuid : Shells \cup {NoOne}, holder : Shells \cup {NoOne}]],
         \A t \in Shells : verify_session_uuid(t)' => verify_session_uuid(t),
         calls' \subseteq calls, Waiting',
         shells' = [t \in Shells |-> shells'[t]],
         \A t \in Shells : /\ IsShell(shells'[t])
                           /\ shells'[t].at \in {"config", "waiting"} => /\ shells'[t].base = shells[t].base
                                                                        /\ shells[t].at \in {"config", "waiting"},
         job' # Idle => IsCall(job'.call) /\ Unseen(log, job'.call.from, job'.call.base)
  PROVE  SessionInv'
<1>1. Types'
  BY DEF SessionInv, Types, IsShell, IsCall, Inodes, Entries, Idle
<1>2. Sessions'
  <2>1. ASSUME NEW t \in Shells, shells'[t].at \in {"config", "waiting"} PROVE Current(t, shells[t].base)'
    <3>1. Current(t, shells[t].base) /\ shells'[t].base = shells[t].base
      BY <2>1 DEF SessionInv, Sessions
    <3>. QED
      BY <3>1 DEF Current, Unseen
  <2>2. ASSUME NEW c \in calls' PROVE Current(c.from, c.base)'
    <3>1. Current(c.from, c.base) /\ c.from \in Shells
      BY DEF SessionInv, Sessions, Types, IsCall
    <3>. QED
      BY <3>1, Zenon DEF Current, Unseen
  <2>. QED
    BY <2>1, <2>2 DEF Sessions, Unseen, Idle
<1>3. NoLostCommit'
  BY DEF SessionInv, NoLostCommit
<1>. QED
  BY <1>1, <1>2, <1>3, Zenon DEF SessionInv

LEMMA TakeCallKeeps ==
  ASSUME SessionInv, NEW c \in calls, TakeCall(c)
  PROVE  SessionInv'
<1>1. /\ calls' = calls \ {c} /\ job = Idle /\ UNCHANGED lockVars /\ UNCHANGED <<setup, file, log>>
  BY DEF TakeCall, fileVars
<1>2. Types /\ IsCall(c) /\ c.from \in Shells
  BY DEF SessionInv, Types, IsCall
<1>3. \A d \in calls' : d.from # c.from
  BY <1>1 DEF SessionInv, Waiting
<1>4. CASE shells' = Answered(c.from, c.kind, FALSE) /\ job' = job
  <2>1. Waiting'
    <3>1. \A t \in Shells : t # c.from => shells'[t] = shells[t]
      BY <1>2, <1>4, AnsweredSteps, Zenon
    <3>2. \A d \in calls' : d \in calls /\ d.from \in Shells /\ shells'[d.from] = shells[d.from]
      BY <1>1, <1>3, <3>1, Zenon DEF SessionInv, Types, IsCall
    <3>. QED
      BY <1>1, <1>4, <3>2, Zenon DEF SessionInv, Waiting
  <2>. QED
    BY <1>1, <1>2, <1>4, <2>1, AnsweredSteps, SameLock, ServerKeeps, Zenon
<1>5. CASE verify_session_uuid(c.from) /\ shells' = shells /\ job' = [pc |-> "writing", call |-> c, config |-> Wanted(c).config]
  <2>1. job' # Idle /\ job'.call = c
    <3>1. job'.pc = "writing" /\ Idle.pc = "idle"
      BY <1>5, Zenon DEF Idle
    <3>. QED
      BY <1>5, <3>1
  <2>2. Waiting'
    BY <1>1, <1>3, <1>5, <2>1, Zenon DEF SessionInv, Waiting
  <2>3. Unseen(log, c.from, c.base)
    BY <1>5 DEF SessionInv, Sessions, Current
  <2>4. shells' = [t \in Shells |-> shells'[t]] /\ \A t \in Shells : IsShell(shells'[t]) /\ shells'[t] = shells[t]
    BY <1>2, <1>5 DEF Types
  <2>. QED
    BY <1>1, <1>2, <2>1, <2>2, <2>3, <2>4, SameLock, ServerKeeps, Zenon
<1>. QED
  BY <1>4, <1>5, Zenon DEF TakeCall

LEMMA PersistFailsKeeps ==
  ASSUME SessionInv, PersistFails
  PROVE  SessionInv'
<1>1. /\ job # Idle /\ job' = Idle /\ calls' = calls /\ UNCHANGED lockVars /\ UNCHANGED <<setup, file, log>>
      /\ shells' = Answered(job.call.from, job.call.kind, FALSE)
  BY DEF PersistFails
<1>2. PICK s \in Shells : s = job.call.from
  BY <1>1 DEF SessionInv, Types, IsCall
<1>3. PICK k : k = job.call.kind
  OBVIOUS
<1>4. Types /\ shells' = Answered(s, k, FALSE)
  BY <1>1, <1>2, <1>3 DEF SessionInv
<1>5. Waiting'
  <2>1. \A t \in Shells : t # s => shells'[t] = shells[t]
    BY <1>4, AnsweredSteps, Zenon
  <2>2. \A d \in calls' : d \in calls /\ d.from \in Shells /\ shells'[d.from] = shells[d.from]
    BY <1>1, <1>2, <2>1, Zenon DEF SessionInv, Types, IsCall, Waiting
  <2>. QED
    BY <1>1, <2>2, Zenon DEF SessionInv, Waiting
<1>. QED
  BY <1>1, <1>4, <1>5, AnsweredSteps, SameLock, ServerKeeps, Zenon

\* The version that is written has the UUID of its session in the lock file unless
\* it is late, so no other session in that file has missed it.
LEMMA PersistKeeps ==
  ASSUME SessionInv, Persist
  PROVE  SessionInv'
<1>1. PICK s \in Shells : s = job.call.from
  BY DEF SessionInv, Types, IsCall, Persist
<1>2. PICK k \in Kinds : k = job.call.kind
  BY DEF SessionInv, Types, IsCall, Persist
<1>3. PICK b \in Nat : b = job.call.base
  BY DEF SessionInv, Types, IsCall, Persist
<1>4. PICK late \in BOOLEAN : late = (lock = 0 \/ inodes[lock].holder # s)
  BY Zenon
<1>5. PICK e : e = [by |-> s, base |-> b, kind |-> k, late |-> late]
  BY Zenon
<1>6. /\ job # Idle /\ job' = Idle /\ calls' = calls /\ setup' = setup /\ lock' = lock /\ inodes' = inodes
      /\ shells' = Answered(s, k, TRUE) /\ file'.v = Len(log) + 1
  BY <1>1, <1>2 DEF Persist, lockVars
<1>7. log' = Append(log, e)
  BY <1>1, <1>2, <1>3, <1>4, <1>5, Zenon DEF Persist
<1>8. Types /\ log \in Seq(Entries) /\ e \in Entries /\ e.by = s /\ e.base = b /\ e.late = late
  BY <1>5 DEF SessionInv, Types, Entries
<1>9. /\ log' \in Seq(Entries) /\ Len(log') = Len(log) + 1 /\ Len(log) \in Nat
      /\ log'[Len(log) + 1] = e /\ \A u \in 1..Len(log) : log'[u] = log[u]
  BY <1>7, <1>8
<1>10. Types'
  <2>1. shells' = [t \in Shells |-> shells'[t]] /\ \A t \in Shells : IsShell(shells'[t])
    BY <1>6, <1>8, AnsweredSteps, Zenon
  <2>2. log' \in Seq(Entries) /\ file'.v = Len(log') /\ Len(log') > 0
    BY <1>6, <1>9
  <2>3. Inodes' = Inodes /\ Entries' = Entries /\ job' = Idle'
    BY <1>6 DEF Inodes, Entries, Idle, Kinds
  <2>4. /\ setup' \in Setups /\ lock' \in Inodes \cup {0} /\ \A c \in calls' : IsCall(c)
        /\ inodes' \in [Inodes -> [uuid : Shells \cup {NoOne}, holder : Shells \cup {NoOne}]]
    BY <1>6, <1>8 DEF Types
  <2>. QED
    BY <2>1, <2>2, <2>3, <2>4 DEF Types, IsShell, IsCall
<1>11. Waiting'
  BY <1>1, <1>6, <1>8, AnsweredSteps, ZenonT(60) DEF SessionInv, Types, IsCall, Waiting
<1>12. ASSUME NEW t \in Shells, NEW base \in Nat, Unseen(log, t, base), t = s \/ late \/ ~verify_session_uuid(t)
       PROVE  verify_session_uuid(t) => Unseen(log', t, base)
  <2>1. ASSUME verify_session_uuid(t), NEW u \in base + 1..Len(log') PROVE log'[u].by = t \/ log'[u].late
    <3>1. CASE u = Len(log) + 1
      BY <1>8, <1>9, <1>12, <2>1, <3>1
    <3>2. CASE u # Len(log) + 1
      BY <1>9, <1>12, <3>2 DEF Unseen
    <3>. QED
      BY <3>1, <3>2
  <2>. QED
    BY <2>1 DEF Unseen
<1>13. \A t \in Shells : t = s \/ late \/ ~verify_session_uuid(t)
  <2>1. ~late => lock # 0 /\ inodes[lock].holder = s /\ lock \in Inodes
    BY <1>4, <1>8, Zenon DEF Types
  <2>2. ~late => inodes[lock].uuid = s
    BY <2>1, ShellsAssumption, Zenon DEF SessionInv, HoldersSign
  <2>. QED
    BY <2>2 DEF verify_session_uuid
<1>14. ASSUME NEW t \in Shells, NEW base \in Nat, Current(t, base) PROVE Current(t, base)'
  BY <1>6, <1>12, <1>13, <1>14 DEF Current, verify_session_uuid
<1>15. Sessions'
  <2>1. ASSUME NEW t \in Shells, shells'[t].at \in {"config", "waiting"} PROVE Current(t, shells[t].base)'
    <3>1. PICK base \in Nat : base = shells[t].base
      BY <1>8 DEF Types, IsShell
    <3>2. shells'[t].base = base /\ shells[t].at \in {"config", "waiting"}
      BY <1>6, <1>8, <2>1, <3>1, AnsweredSteps, Zenon
    <3>3. Current(t, base)
      BY <3>1, <3>2 DEF SessionInv, Sessions
    <3>4. Current(t, base)'
      BY <1>14, <3>3, Zenon
    <3>. QED
      BY <3>2, <3>4, Zenon DEF Current
  <2>2. ASSUME NEW c \in calls' PROVE Current(c.from, c.base)'
    BY <1>6, <1>8, <1>14, Zenon DEF SessionInv, Sessions, Types, IsCall
  <2>. QED
    BY <1>6, <2>1, <2>2, Zenon DEF Sessions, Idle
<1>16. NoLostCommit'
  <2>1. ASSUME NEW v \in 1..Len(log'), NEW u \in log'[v].base + 1..v - 1
        PROVE  log'[u].by = log'[v].by \/ log'[u].late
    <3>1. CASE v = Len(log) + 1
      <4>1. u \in b + 1..Len(log) /\ log'[v].by = s /\ u \in 1..Len(log)
        BY <1>8, <1>9, <2>1, <3>1
      <4>2. Unseen(log, s, b)
        BY <1>1, <1>3, <1>6, Zenon DEF SessionInv, Sessions
      <4>. QED
        BY <1>9, <4>1, <4>2, Zenon DEF Unseen
    <3>2. CASE v # Len(log) + 1
      <4>1. v \in 1..Len(log) /\ log'[v] = log[v] /\ log[v].base \in Nat
        <5>1. v \in 1..Len(log)
          BY <1>9, <3>2
        <5>2. log[v] \in Entries
          BY <1>8, <5>1
        <5>. QED
          BY <1>9, <5>1, <5>2 DEF Entries
      <4>2. u \in 1..Len(log) /\ u \in log[v].base + 1..v - 1 /\ log'[u] = log[u]
        BY <1>9, <2>1, <4>1
      <4>. QED
        BY <4>1, <4>2, Zenon DEF SessionInv, NoLostCommit
    <3>. QED
      BY <3>1, <3>2, Zenon
  <2>. QED
    BY <2>1, Zenon DEF NoLostCommit
<1>17. HoldersSign'
  BY <1>6 DEF SessionInv, HoldersSign
<1>. QED
  BY <1>10, <1>11, <1>15, <1>16, <1>17, Zenon DEF SessionInv

\* Steps of the server that have nothing to do with the sessions.
LEMMA AsideKeeps ==
  ASSUME SessionInv, UNCHANGED <<setup, file, log, shells, calls, job>>,
         lock' \in Inodes \cup {0}, HoldersSign',
         inodes' \in [Inodes -> [uuid : Shells \cup {NoOne}, holder : Shells \cup {NoOne}]],
         \A t \in Shells : verify_session_uuid(t)' => verify_session_uuid(t)
  PROVE  SessionInv'
<1>1. Waiting'
  BY DEF SessionInv, Waiting, Idle
<1>2. shells' = [t \in Shells |-> shells'[t]] /\ \A t \in Shells : IsShell(shells'[t])
  BY DEF SessionInv, Types
<1>3. job' # Idle => IsCall(job'.call) /\ Unseen(log, job'.call.from, job'.call.base)
  BY DEF SessionInv, Types, Sessions
<1>. QED
  BY <1>1, <1>2, <1>3, ServerKeeps, Zenon

LEMMA MgmtOpKeeps ==
  ASSUME SessionInv, NEW op, MgmtOp(op)
  PROVE  SessionInv'
<1>1. UNCHANGED <<setup, file, log, shells, calls, job>>
  BY DEF MgmtOp, fileVars
<1>2. CASE UNCHANGED lockVars
  BY <1>1, <1>2, SameLock, AsideKeeps, Zenon
<1>3. CASE lock' = Named /\ inodes' = WithNamed
  <2>1. Types
    BY DEF SessionInv
  <2>2. HoldersSign'
    BY <1>3, <2>1, NamedKeeps DEF SessionInv, HoldersSign, Free
  <2>3. \A t \in Shells : verify_session_uuid(t)' => verify_session_uuid(t)
    BY <1>3, <2>1, NamedKeeps, ShellsAssumption DEF verify_session_uuid, Free
  <2>. QED
    BY <1>1, <1>3, <2>1, <2>2, <2>3, NamedKeeps, AsideKeeps
<1>. QED
  BY <1>2, <1>3 DEF MgmtOp

LEMMA CrashKeeps ==
  ASSUME SessionInv, Crash
  PROVE  SessionInv'
<1>1. /\ calls' = {} /\ job' = Idle /\ UNCHANGED lockVars /\ UNCHANGED <<setup, file, log>>
      /\ shells' = [s \in Shells |-> IF shells[s].at = "waiting" THEN [shells[s] EXCEPT !.at = "config"] ELSE shells[s]]
  BY DEF Crash
<1>2. ASSUME NEW t \in Shells
      PROVE  /\ IsShell(shells'[t])
             /\ shells'[t].at \in {"config", "waiting"} => /\ shells'[t].base = shells[t].base
                                                           /\ shells[t].at \in {"config", "waiting"}
  <2>1. PICK r : r = shells[t]
    OBVIOUS
  <2>2. IsShell(r)
    BY <2>1 DEF SessionInv, Types
  <2>3. shells'[t] = IF r.at = "waiting" THEN [r EXCEPT !.at = "config"] ELSE r
    BY <1>1, <2>1
  <2>4. r.at = "waiting" => IsShell([r EXCEPT !.at = "config"]) /\ [r EXCEPT !.at = "config"].base = r.base
    BY <2>2 DEF IsShell, Places
  <2>. QED
    BY <2>1, <2>2, <2>3, <2>4
<1>3. Waiting'
  BY <1>1 DEF Waiting, Idle
<1>4. shells' = [t \in Shells |-> shells'[t]]
  BY <1>1
<1>. QED
  BY <1>1, <1>2, <1>3, <1>4, SameLock, ServerKeeps

LEMMA SessionInit == Init => SessionInv
<1>1. SUFFICES ASSUME Init PROVE SessionInv
  OBVIOUS
<1>2. Types
  <2>1. \A s \in Shells : IsShell(shells[s])
    BY <1>1 DEF Init, AtRoot, IsShell, Places
  <2>2. log \in Seq(Entries) /\ file.v = Len(log) /\ Len(log) > 0
    <3>1. [by |-> NoOne, base |-> 0, kind |-> "start", late |-> FALSE] \in Entries
      BY DEF Entries, Kinds
    <3>. QED
      BY <1>1, <3>1 DEF Init
  <2>3. /\ setup \in Setups /\ lock = 0 /\ calls = {} /\ job = Idle
        /\ shells = [s \in Shells |-> shells[s]]
    BY <1>1 DEF Init
  <2>4. inodes \in [Inodes -> [uuid : Shells \cup {NoOne}, holder : Shells \cup {NoOne}]]
    BY <1>1, Zenon DEF Init, Free
  <2>. QED
    BY <2>1, <2>2, <2>3, <2>4, Zenon DEF Types
<1>3. Waiting /\ HoldersSign /\ Sessions
  BY <1>1 DEF Init, Waiting, HoldersSign, Sessions, Free, AtRoot
<1>4. NoLostCommit
  <2>1. Len(log) = 1
    BY <1>1 DEF Init
  <2>2. \A v \in 1..Len(log) : \A u \in log[v].base + 1..v - 1 : FALSE
    BY <1>1, <2>1 DEF Init
  <2>. QED
    BY <2>2 DEF NoLostCommit
<1>. QED
  BY <1>2, <1>3, <1>4 DEF SessionInv

LEMMA SessionNext == SessionInv /\ [Next]_vars => SessionInv'
<1>1. SUFFICES ASSUME SessionInv, [Next]_vars PROVE SessionInv'
  BY Zenon
<1>2. ASSUME NEW s \in Shells, ShellStep(s) PROVE SessionInv'
  BY <1>1, <1>2, OpenKeeps, LockKeeps, ReadKeeps, EditKeeps, SendKeeps, ExitKeeps, UnlinkKeeps, DropKeeps, KillKeeps, Zenon
     DEF ShellStep
<1>3. ASSUME NEW c \in calls, TakeCall(c) PROVE SessionInv'
  BY <1>1, <1>3, TakeCallKeeps
<1>4. CASE Persist \/ PersistFails \/ Crash
  BY <1>1, <1>4, PersistKeeps, PersistFailsKeeps, CrashKeeps, Zenon
<1>5. CASE Start \/ (\E a \in Idling(srv) : PeerUp(a)) \/ UNCHANGED vars
  <2>1. UNCHANGED lockVars /\ UNCHANGED <<setup, file, log, shells, calls, job>>
    BY <1>5 DEF Start, PeerUp, vars, fileVars, lockVars
  <2>. QED
    BY <1>1, <2>1, SameLock, AsideKeeps, Zenon
<1>6. ASSUME NEW op \in requests, MgmtOp(op) PROVE SessionInv'
  BY <1>1, <1>6, MgmtOpKeeps
<1>. QED
  BY <1>1, <1>2, <1>3, <1>4, <1>5, <1>6 DEF Next

\* No commit, save or rollback is written over a version that its session had not
\* read and that was written by a session which held the lock file
\* (verify_session_uuid, acquire_exclusive_lock), for any number of shells, kills,
\* crashes and failed writes, whatever the configs are.
THEOREM NoCommitIsLost == Spec => []NoLostCommit
<1>1. SessionInv => NoLostCommit
  BY DEF SessionInv
<1>. QED
  BY <1>1, SessionInit, SessionNext, PTL DEF Spec

-----------------------------------------------------------------------------
(* The snapshots *)

\* After n file operations of a commit the snapshots below the hole are where they
\* were, those above it have moved on by one.
Hole(n) == IF n < SnapshotCount THEN SnapshotCount + 1 - n ELSE 1
Filling(n) == IF n <= SnapshotCount THEN Absent ELSE IF n = SnapshotCount + 1 THEN Torn ELSE file
Shifted(n) ==
  IF n = 0 THEN snaps
  ELSE [i \in Slots |-> IF i < Hole(n) THEN snaps[i] ELSE IF i = Hole(n) THEN Filling(n) ELSE snaps[i - 1]]

IsSnaps(s) == s = [i \in Slots |-> s[i]]

LEMMA ShiftedIsSnaps ==
  ASSUME IsSnaps(snaps), NEW n \in Nat
  PROVE  IsSnaps(Shifted(n))
BY DEF IsSnaps, Shifted

LEMMA SameSnaps ==
  ASSUME NEW s, NEW t, IsSnaps(s), IsSnaps(t), \A i \in Slots : s[i] = t[i]
  PROVE  s = t
<1>1. [i \in Slots |-> s[i]] = [i \in Slots |-> t[i]]
  OBVIOUS
<1>. QED
  BY <1>1, Zenon DEF IsSnaps

LEMMA FileOpShifts ==
  ASSUME IsSnaps(snaps), NEW n \in 1..FileOps
  PROVE  FileOp(Shifted(n - 1), n) = Shifted(n)
<1>. DEFINE a == Shifted(n - 1)
            b == Shifted(n)
<1>1. SnapshotCount \in Nat \ {0} /\ Slots = 1..SnapshotCount /\ n \in Nat \ {0} /\ n <= SnapshotCount + 2
  BY SnapshotAssumption DEF Slots, FileOps
<1>2. IsSnaps(a) /\ IsSnaps(b)
  BY <1>1, ShiftedIsSnaps
<1>3. b = [i \in Slots |-> IF i < Hole(n) THEN snaps[i] ELSE IF i = Hole(n) THEN Filling(n) ELSE snaps[i - 1]]
  BY <1>1 DEF Shifted
<1>4. CASE n = 1
  <2>1. a = snaps /\ FileOp(a, n) = [a EXCEPT ![SnapshotCount] = Absent]
    <3>1. n - 1 = 0
      BY <1>4
    <3>2. FileOp(a, n) = [a EXCEPT ![SnapshotCount] = Absent]
      <4>1. n \notin 2..SnapshotCount /\ n # SnapshotCount + 1 /\ n # SnapshotCount + 2
        BY <1>1, <1>4
      <4>. QED
        BY <1>4, <4>1 DEF FileOp
    <3>. QED
      BY <1>4, <3>1, <3>2 DEF Shifted
  <2>2. Hole(n) = SnapshotCount /\ Filling(n) = Absent
    BY <1>1, <1>4 DEF Hole, Filling
  <2>3. \A i \in Slots : FileOp(a, n)[i] = b[i]
    BY <1>1, <1>3, <2>1, <2>2 DEF IsSnaps
  <2>4. IsSnaps(FileOp(a, n))
    BY <1>2, <2>1 DEF IsSnaps
  <2>. QED
    BY <1>2, <2>3, <2>4, SameSnaps, Zenon DEF a, b
<1>5. ASSUME n # 1
      PROVE  a = [i \in Slots |-> IF i < Hole(n - 1) THEN snaps[i]
                                  ELSE IF i = Hole(n - 1) THEN Filling(n - 1) ELSE snaps[i - 1]]
  BY <1>1, <1>5 DEF Shifted
<1>6. CASE n \in 2..SnapshotCount
  <2>. DEFINE h == SnapshotCount + 1 - n
  <2>1. /\ h \in Slots /\ h + 1 \in Slots /\ Hole(n) = h /\ Hole(n - 1) = h + 1
        /\ Filling(n) = Absent /\ Filling(n - 1) = Absent
    BY <1>1, <1>6 DEF Hole, Filling
  <2>2. FileOp(a, n) = IF a[h] = Absent THEN a ELSE [a EXCEPT ![h + 1] = a[h], ![h] = Absent]
    BY <1>1, <1>6 DEF FileOp
  <2>. HIDE DEF h
  <2>3. \A i \in Slots : a[i] = IF i < h + 1 THEN snaps[i] ELSE IF i = h + 1 THEN Absent ELSE snaps[i - 1]
    BY <1>1, <1>5, <1>6, <2>1
  <2>4. \A i \in Slots : b[i] = IF i < h THEN snaps[i] ELSE IF i = h THEN Absent ELSE snaps[i - 1]
    BY <1>3, <2>1, Zenon
  <2>5. h \in Nat /\ a[h] = snaps[h]
    BY <1>1, <2>1, <2>3
  <2>. HIDE DEF a, b
  <2>6. IsSnaps(FileOp(a, n))
    BY <1>2, <2>2, Zenon DEF IsSnaps
  <2>7. ASSUME NEW i \in Slots PROVE FileOp(a, n)[i] = b[i]
    <3>1. i \in Nat /\ (i < h + 1 <=> i < h \/ i = h)
      BY <1>1, <2>5
    <3>2. FileOp(a, n)[i] = IF a[h] = Absent THEN a[i] ELSE IF i = h THEN Absent ELSE IF i = h + 1 THEN a[h] ELSE a[i]
      BY <1>2, <2>1, <2>2, <2>5, <3>1, Zenon DEF IsSnaps
    <3>3. (h + 1) - 1 = h /\ h # h + 1 /\ ~(h + 1 < h)
      BY <2>5
    <3>. QED
      BY <2>3, <2>4, <2>5, <3>1, <3>2, <3>3
  <2>. QED
    BY <1>2, <2>6, <2>7, SameSnaps, Zenon DEF a, b
<1>7. CASE n \in {SnapshotCount + 1, SnapshotCount + 2}
  <2>1. FileOp(a, n) = [a EXCEPT ![1] = Filling(n)]
    <3>1. CASE n = SnapshotCount + 1
      <4>1. n # 1 /\ n \notin 2..SnapshotCount
        BY <1>1, <3>1
      <4>. QED
        BY <1>1, <3>1, <4>1 DEF FileOp, Filling
    <3>2. CASE n = SnapshotCount + 2
      <4>1. n # 1 /\ n \notin 2..SnapshotCount /\ n # SnapshotCount + 1 /\ ~(n <= SnapshotCount)
        BY <1>1, <3>2
      <4>. QED
        BY <3>2, <4>1 DEF FileOp, Filling
    <3>. QED
      BY <1>7, <3>1, <3>2
  <2>2. n # 1 /\ Hole(n) = 1 /\ Hole(n - 1) = 1 /\ 1 \in Slots
    BY <1>1, <1>7 DEF Hole
  <2>3. \A i \in Slots : a[i] = IF i < 1 THEN snaps[i] ELSE IF i = 1 THEN Filling(n - 1) ELSE snaps[i - 1]
    BY <1>5, <2>2
  <2>4. \A i \in Slots : b[i] = IF i < 1 THEN snaps[i] ELSE IF i = 1 THEN Filling(n) ELSE snaps[i - 1]
    BY <1>3, <2>2
  <2>. HIDE DEF a, b
  <2>5. IsSnaps(FileOp(a, n))
    BY <1>2, <2>1, Zenon DEF IsSnaps
  <2>6. ASSUME NEW i \in Slots PROVE FileOp(a, n)[i] = b[i]
    <3>1. FileOp(a, n)[i] = IF i = 1 THEN Filling(n) ELSE a[i]
      BY <1>2, <2>1, <2>2 DEF IsSnaps
    <3>2. i \in Nat /\ ~(i < 1)
      BY <1>1
    <3>. QED
      BY <2>3, <2>4, <3>1, <3>2, Zenon
  <2>. QED
    BY <1>2, <2>5, <2>6, SameSnaps DEF a, b
<1>. QED
  BY <1>1, <1>4, <1>6, <1>7

\* A set of numbers that is not empty has a least element.
LEMMA LeastExists ==
  ASSUME NEW T \in SUBSET Nat, T # {}
  PROVE  \E n \in T : \A m \in T : n <= m
<1>1. PICK n \in T : \A m \in T : ~(<<m, n>> \in OpToRel(<, Nat))
  BY WFMin, NatLessThanWellFounded, Zenon
<1>2. \A m \in T : ~(m < n)
  BY <1>1, Zenon DEF OpToRel
<1>. QED
  BY <1>2

\* What the file operations leave after n of them.
LEMMA AfterIs ==
  ASSUME IsSnaps(snaps), NEW n \in 0..FileOps
  PROVE  After(n) = Shifted(n)
<1>. DEFINE F(f) == [k \in 0..n |-> IF k = 0 THEN snaps ELSE FileOp(f[k - 1], k)]
            left == CHOOSE f : f = F(f)
            g == [k \in 0..n |-> Shifted(k)]
<1>1. After(n) = left[n]
  BY DEF After
<1>2. n \in Nat /\ FileOps \in Nat /\ \A k \in 1..n : k \in 1..FileOps /\ k - 1 \in 0..n /\ k # 0
  BY SnapshotAssumption DEF FileOps
<1>3. \A k \in 0..n : k # 0 => k \in 1..n
  BY <1>2
<1>4. g = F(g)
  <2>1. ASSUME NEW k \in 0..n PROVE Shifted(k) = IF k = 0 THEN snaps ELSE FileOp(g[k - 1], k)
    <3>1. CASE k = 0
      BY <3>1 DEF Shifted
    <3>2. CASE k # 0
      <4>1. k \in 1..FileOps /\ g[k - 1] = Shifted(k - 1)
        BY <1>2, <1>3, <3>2
      <4>2. FileOp(Shifted(k - 1), k) = Shifted(k)
        BY <4>1, FileOpShifts
      <4>. QED
        BY <3>2, <4>1, <4>2
    <3>. QED
      BY <3>1, <3>2
  <2>. QED
    BY <2>1
<1>5. left = F(left)
  <2>. HIDE DEF F, g
  <2>. QED
    BY <1>4
<1>6. \A k \in 0..n : left[k] = IF k = 0 THEN snaps ELSE FileOp(left[k - 1], k)
  <2>. HIDE DEF left
  <2>. QED
    BY <1>5
<1>. HIDE DEF left, F, g
<1>. DEFINE Bad == {k \in 0..n : left[k] # Shifted(k)}
<1>7. Bad = {}
  <2>1. SUFFICES ASSUME Bad # {} PROVE FALSE
    OBVIOUS
  <2>2. Bad \in SUBSET Nat
    BY <1>2
  <2>3. PICK k \in Bad : \A j \in Bad : k <= j
    BY <2>1, <2>2, LeastExists, Zenon
  <2>4. k \in 0..n /\ left[k] # Shifted(k)
    BY <2>3, Zenon
  <2>5. CASE k = 0
    BY <1>6, <2>4, <2>5, Zenon DEF Shifted
  <2>6. CASE k # 0
    <3>1. k \in 1..FileOps /\ k - 1 \in 0..n /\ ~(k <= k - 1)
      BY <1>2, <1>3, <2>4, <2>6
    <3>2. left[k - 1] = Shifted(k - 1)
      BY <2>3, <3>1, Zenon
    <3>3. FileOp(Shifted(k - 1), k) = Shifted(k)
      BY <3>1, FileOpShifts
    <3>. QED
      BY <1>6, <2>4, <2>6, <3>2, <3>3, Zenon
  <2>. QED
    BY <2>5, <2>6
<1>8. n \in 0..n
  BY <1>2
<1>. QED
  BY <1>1, <1>7, <1>8

\* The crashes and failed writes so far.
Failures == setup.faults.crashes + setup.faults.writes - (faults.crashes + faults.writes)

Ages(s) ==
  /\ IsSnaps(s)
  /\ \A i \in Slots : s[i].v \in Int /\ s[i].v <= file.v
  /\ \A i, j \in Slots : i < j /\ s[i].v > 0 /\ s[j].v > 0 => s[i].v >= s[j].v

\* A failure moves the version before the current one by at most one slot.
Kept == file.v > 1 /\ Failures < SnapshotCount => \E i \in 1..Failures + 1 : snaps[i].v = file.v - 1

FaultTypes == setup \in Setups /\ faults \in [kills : Nat, crashes : Nat, writes : Nat] /\ Failures \in Nat

SnapInv == file.v \in Nat \ {0} /\ FaultTypes /\ Ages(snaps) /\ Kept

LEMMA RotationKeeps ==
  ASSUME SnapInv, NEW n \in 0..FileOps, NEW s, s = After(n)
  PROVE  /\ Ages(s)
         /\ \A i \in Slots : i < SnapshotCount => snaps[i] \in {s[i], s[i + 1]}
         /\ n = FileOps => s[1] = file
<1>1. SnapshotCount \in Nat \ {0} /\ Slots = 1..SnapshotCount /\ n \in Nat /\ FileOps = SnapshotCount + 2
  BY SnapshotAssumption DEF Slots, FileOps
<1>2. IsSnaps(snaps) /\ Ages(snaps) /\ file.v \in Nat
  BY DEF SnapInv, Ages
<1>3. s = Shifted(n)
  BY <1>2, AfterIs
<1>4. IsSnaps(s)
  BY <1>1, <1>2, <1>3, ShiftedIsSnaps, Zenon
<1>5. CASE n = 0
  <2>1. s = snaps
    BY <1>3, <1>5, Zenon DEF Shifted
  <2>. QED
    BY <1>1, <1>2, <1>5, <2>1
<1>6. CASE n # 0
  <2>. DEFINE h == Hole(n)
              x == Filling(n)
  <2>1. h \in Slots
    BY <1>1, <1>6 DEF Hole
  <2>2. x.v \in Int /\ x.v <= file.v /\ (x.v > 0 => h = 1 /\ x = file)
    <3>1. Absent.v = 0 /\ Torn.v = -1
      BY DEF Absent, Torn
    <3>2. x \in {Absent, Torn, file} /\ (x = file \/ x.v <= 0)
      BY <3>1 DEF Filling
    <3>3. n > SnapshotCount => h = 1
      BY <1>1 DEF Hole
    <3>4. n <= SnapshotCount => x = Absent
      BY DEF Filling
    <3>. QED
      BY <1>1, <1>2, <3>1, <3>2, <3>3, <3>4
  <2>3. \A i \in Slots : s[i] = IF i < h THEN snaps[i] ELSE IF i = h THEN x ELSE snaps[i - 1]
    BY <1>3, <1>6 DEF Shifted
  <2>4. n = FileOps => h = 1 /\ x = file
    BY <1>1 DEF Hole, Filling
  <2>. HIDE DEF h, x
  <2>5. \A i \in Slots : i > h => i - 1 \in Slots /\ i - 1 >= h
    BY <1>1, <2>1
  <2>6. \A i \in Slots : s[i].v \in Int /\ s[i].v <= file.v
    BY <1>1, <1>2, <2>1, <2>2, <2>3, <2>5, SMTT(60) DEF Ages
  <2>7. ASSUME NEW i \in Slots, NEW j \in Slots, i < j, s[i].v > 0, s[j].v > 0 PROVE s[i].v >= s[j].v
    <3>1. CASE i = h
      BY <1>1, <2>2, <2>3, <2>6, <2>7, <3>1
    <3>2. CASE i # h
      <4>1. PICK k \in Slots : s[i] = snaps[k] /\ k = IF i < h THEN i ELSE i - 1
        BY <1>1, <2>1, <2>3, <2>5, <3>2
      <4>2. j # h
        BY <1>1, <2>1, <2>2, <2>3, <2>7
      <4>3. PICK l \in Slots : s[j] = snaps[l] /\ l = IF j < h THEN j ELSE j - 1
        BY <1>1, <2>1, <2>3, <2>5, <4>2
      <4>4. k < l
        BY <1>1, <2>1, <2>7, <3>2, <4>1, <4>2, <4>3
      <4>. QED
        BY <1>2, <2>7, <4>1, <4>3, <4>4, Zenon DEF Ages
    <3>. QED
      BY <3>1, <3>2, Zenon
  <2>8. ASSUME NEW i \in Slots, i < SnapshotCount PROVE snaps[i] \in {s[i], s[i + 1]}
    <3>1. i + 1 \in Slots /\ (i + 1) - 1 = i
      BY <1>1, <2>8
    <3>2. i < h \/ (~(i + 1 < h) /\ i + 1 # h)
      BY <1>1, <2>1
    <3>. QED
      BY <2>3, <3>1, <3>2, Zenon
  <2>9. n = FileOps => s[1] = file
    BY <1>1, <2>1, <2>3, <2>4
  <2>. QED
    BY <1>4, <2>6, <2>7, <2>8, <2>9, Zenon DEF Ages
<1>. QED
  BY <1>5, <1>6

LEMMA SnapInit == Init => SnapInv
<1>1. SUFFICES ASSUME Init PROVE SnapInv
  OBVIOUS
<1>2. setup \in Setups /\ file.v = 1 /\ faults = setup.faults /\ snaps = [i \in Slots |-> Absent]
  BY <1>1 DEF Init
<1>3. faults \in [kills : Nat, crashes : Nat, writes : Nat]
  BY <1>2, FaultsAssumption
<1>4. Failures = 0
  BY <1>2, <1>3 DEF Failures
<1>5. Absent.v = 0
  BY DEF Absent
<1>6. IsSnaps(snaps)
  BY <1>2 DEF IsSnaps
<1>. QED
  BY <1>2, <1>3, <1>4, <1>5, <1>6 DEF SnapInv, FaultTypes, Ages, Kept

\* A commit that is written: the version before it is the newest snapshot.
LEMMA PersistRotates ==
  ASSUME SessionInv, SnapInv, Persist
  PROVE  SnapInv'
<1>1. FileOps \in 0..FileOps /\ SnapshotCount \in Nat \ {0} /\ Slots = 1..SnapshotCount
  BY SnapshotAssumption DEF FileOps, Slots
<1>2. PICK s : s = After(FileOps)
  OBVIOUS
<1>3. Ages(s) /\ s[1] = file
  BY <1>1, <1>2, RotationKeeps
<1>4. snaps' = s /\ setup' = setup /\ faults' = faults
  BY <1>2 DEF Persist
<1>5. file'.v = file.v + 1 /\ file.v \in Nat \ {0}
  BY DEF Persist, SessionInv, SnapInv, Types
<1>6. FaultTypes' /\ Failures' \in Nat
  BY <1>4, Zenon DEF SnapInv, FaultTypes, Failures
<1>7. Ages(snaps)'
  <2>1. IsSnaps(s) => IsSnaps(snaps)'
    BY <1>4 DEF IsSnaps, Slots
  <2>2. Slots' = Slots
    BY DEF Slots
  <2>. QED
    BY <1>3, <1>4, <1>5, <2>1, <2>2 DEF Ages
<1>8. Kept'
  <2>1. PICK f \in Nat : f = Failures'
    BY <1>6
  <2>2. 1 \in 1..f + 1
    OBVIOUS
  <2>3. snaps'[1].v = file'.v - 1
    BY <1>3, <1>4, <1>5
  <2>. QED
    BY <2>1, <2>2, <2>3, Zenon DEF Kept
<1>. QED
  BY <1>5, <1>6, <1>7, <1>8 DEF SnapInv

\* A crash or a failed write: the snapshots moved by at most one slot.
LEMMA FailureShifts ==
  ASSUME SnapInv, UNCHANGED <<setup, file>>, NEW n \in 0..FileOps, snaps' = After(n),
         faults' \in [kills : Nat, crashes : Nat, writes : Nat], Failures' = Failures + 1
  PROVE  SnapInv'
<1>1. SnapshotCount \in Nat \ {0} /\ Slots = 1..SnapshotCount /\ Slots' = Slots
  BY SnapshotAssumption DEF Slots
<1>2. PICK s : s = After(n)
  OBVIOUS
<1>3. Ages(s) /\ \A i \in Slots : i < SnapshotCount => snaps[i] \in {s[i], s[i + 1]}
  BY <1>2, RotationKeeps
<1>4. snaps' = s /\ Failures \in Nat /\ file' = file
  BY <1>2 DEF SnapInv, FaultTypes
<1>5. FaultTypes'
  BY <1>4 DEF SnapInv, FaultTypes
<1>6. Ages(snaps)'
  <2>1. IsSnaps(s) => IsSnaps(snaps)'
    BY <1>4, Zenon DEF IsSnaps, Slots
  <2>. QED
    BY <1>1, <1>3, <1>4, <2>1, Zenon DEF Ages
<1>7. Kept'
  <2>1. SUFFICES ASSUME file.v > 1, Failures + 1 < SnapshotCount
                 PROVE  \E i \in 1..(Failures + 1) + 1 : s[i].v = file.v - 1
    BY <1>4, Zenon DEF Kept
  <2>2. PICK i \in 1..Failures + 1 : snaps[i].v = file.v - 1
    BY <1>1, <1>4, <2>1 DEF SnapInv, Kept
  <2>3. i \in Slots /\ i < SnapshotCount /\ {i, i + 1} \subseteq 1..(Failures + 1) + 1
    BY <1>1, <1>4, <2>1
  <2>4. s[i].v = file.v - 1 \/ s[i + 1].v = file.v - 1
    BY <1>3, <2>2, <2>3, Zenon
  <2>. QED
    BY <2>3, <2>4, Zenon
<1>. QED
  BY <1>4, <1>5, <1>6, <1>7 DEF SnapInv

\* Whatever leaves the files alone, with as many failures to come; a shell may have
\* been killed.
LEMMA FilesAlone ==
  ASSUME SnapInv, UNCHANGED <<setup, file, snaps>>, faults' \in [kills : Nat, crashes : Nat, writes : Nat],
         faults'.crashes = faults.crashes, faults'.writes = faults.writes
  PROVE  SnapInv'
<1>1. Failures' = Failures
  BY Zenon DEF Failures
<1>2. Ages(snaps)'
  BY DEF SnapInv, Ages, IsSnaps, Slots
<1>. QED
  BY <1>1, <1>2, Zenon DEF SnapInv, FaultTypes, Kept

LEMMA SnapNext == SessionInv /\ SnapInv /\ [Next]_vars => SnapInv'
<1>1. SUFFICES ASSUME SessionInv, SnapInv, [Next]_vars PROVE SnapInv'
  OBVIOUS
<1>2. /\ faults \in [kills : Nat, crashes : Nat, writes : Nat] /\ setup.faults \in [kills : Nat, crashes : Nat, writes : Nat]
      /\ 0 \in 0..FileOps
  BY <1>1, FaultsAssumption, SnapshotAssumption DEF SnapInv, FaultTypes, FileOps
<1>3. CASE UNCHANGED <<setup, file, snaps, faults>>
  BY <1>1, <1>2, <1>3, FilesAlone, Zenon
<1>4. ASSUME NEW s \in Shells, ShellStep(s) PROVE SnapInv'
  <2>1. CASE ShellKill(s)
    <3>1. UNCHANGED <<setup, file, snaps>> /\ faults.kills > 0 /\ faults' = [faults EXCEPT !.kills = faults.kills - 1]
      BY <2>1 DEF ShellKill, fileVars
    <3>. QED
      BY <1>1, <1>2, <3>1, FilesAlone
  <2>2. CASE ~ShellKill(s)
    <3>1. UNCHANGED <<setup, file, snaps, faults>>
      BY <1>4, <2>2 DEF ShellStep, ShellOpen, ShellLock, ShellRead, ShellEdit, ShellSend, ShellExit, ShellUnlink,
                        ShellDrop, fileVars
    <3>. QED
      BY <1>3, <3>1, Zenon
  <2>. QED
    BY <2>1, <2>2
<1>5. CASE Persist
  BY <1>1, <1>5, PersistRotates
<1>6. CASE PersistFails
  <2>1. UNCHANGED <<setup, file>>
    BY <1>6 DEF PersistFails
  <2>2. CASE UNCHANGED <<snaps, faults>>
    BY <1>3, <2>1, <2>2, Zenon
  <2>3. CASE faults.writes > 0 /\ faults' = [faults EXCEPT !.writes = faults.writes - 1] /\ \E n \in 0..FileOps : snaps' = After(n)
    <3>1. PICK n \in 0..FileOps : snaps' = After(n)
      BY <2>3
    <3>2. faults' \in [kills : Nat, crashes : Nat, writes : Nat] /\ faults'.crashes = faults.crashes /\ faults'.writes = faults.writes - 1
      BY <1>2, <2>3
    <3>3. Failures' = Failures + 1
      BY <1>2, <2>1, <3>2 DEF Failures
    <3>. QED
      BY <1>1, <2>1, <3>1, <3>2, <3>3, FailureShifts, Zenon
  <2>. QED
    BY <1>6, <2>2, <2>3 DEF PersistFails
<1>7. CASE Crash
  <2>1. UNCHANGED <<setup, file>> /\ faults.crashes > 0 /\ faults' = [faults EXCEPT !.crashes = faults.crashes - 1]
    BY <1>7 DEF Crash
  <2>2. faults' \in [kills : Nat, crashes : Nat, writes : Nat] /\ faults'.crashes = faults.crashes - 1 /\ faults'.writes = faults.writes
    BY <1>2, <2>1
  <2>3. Failures' = Failures + 1
    BY <1>2, <2>1, <2>2 DEF Failures
  <2>4. After(0) = snaps
    <3>1. IsSnaps(snaps)
      BY <1>1 DEF SnapInv, Ages
    <3>. QED
      BY <1>2, <3>1, AfterIs, Zenon DEF Shifted
  <2>5. PICK n \in 0..FileOps : snaps' = After(n)
    BY <1>2, <1>7, <2>4, Zenon DEF Crash
  <2>. QED
    BY <1>1, <2>1, <2>2, <2>3, <2>5, FailureShifts, Zenon
<1>8. ASSUME NEW c \in calls, TakeCall(c) PROVE SnapInv'
  BY <1>3, <1>8, Zenon DEF TakeCall, fileVars
<1>9. ASSUME NEW op \in requests, MgmtOp(op) PROVE SnapInv'
  BY <1>3, <1>9, Zenon DEF MgmtOp, fileVars
<1>10. CASE Start \/ (\E a \in Idling(srv) : PeerUp(a)) \/ UNCHANGED vars
  BY <1>3, <1>10 DEF Start, PeerUp, vars, fileVars
<1>. QED
  BY <1>1, <1>4, <1>5, <1>6, <1>7, <1>8, <1>9, <1>10, Zenon DEF Next

\* While fewer crashes and failed writes happen than there are slots, the version
\* that the one in rogg.conf replaced is in a snapshot, wherever in the rotation they
\* struck, and snapshots are always in order of age (persist_service_config,
\* rotate_snapshots), for any number of slots and whatever the configs are.
THEOREM PreviousVersionSurvives == Spec => []PreviousVersionKept
<1>1. SnapInv => PreviousVersionKept
  <2>1. SUFFICES ASSUME SnapInv PROVE PreviousVersionKept
    OBVIOUS
  <2>2. /\ setup.faults \in [kills : Nat, crashes : Nat, writes : Nat] /\ faults \in [kills : Nat, crashes : Nat, writes : Nat]
        /\ Failures \in Nat /\ SnapshotCount \in Nat
    BY <2>1, FaultsAssumption, SnapshotAssumption DEF SnapInv, FaultTypes
  <2>3. Failures <= setup.faults.crashes + setup.faults.writes
    BY <2>2 DEF Failures
  <2>4. Failures < SnapshotCount => 1..Failures + 1 \subseteq Slots
    BY <2>2 DEF Slots
  <2>5. Failures < SnapshotCount \/ ~(setup.faults.crashes + setup.faults.writes < SnapshotCount)
    BY <2>2, <2>3
  <2>. QED
    BY <2>1, <2>4, <2>5 DEF SnapInv, Kept, Ages, PreviousVersionKept
<1>. QED
  BY <1>1, SessionInit, SessionNext, SnapInit, SnapNext, PTL DEF Spec

-----------------------------------------------------------------------------
(* Communities: what their forms must keep *)

Octet == 0..255

\* What a conversion of c to d must keep.
Same(c, d) ==
    /\ d \in ExtCommunities
    /\ format_extended_community(d) = format_extended_community(c)
    /\ is_transitive(d) = is_transitive(c)
    /\ ~NoMessage(c) => ~NoMessage(d)

-----------------------------------------------------------------------------
(* Octets and numbers *)

\* Two octets make a half, from which they are read again.
LEMMA HalfOctets ==
  ASSUME NEW hi \in Octet, NEW lo \in Octet
  PROVE  Half(hi, lo) \in Nat /\ Hi(Half(hi, lo)) = hi /\ Lo(Half(hi, lo)) = lo
BY DEF Octet, Hi, Lo, Half

LEMMA EightOctets ==
  ASSUME NEW a \in Octet, NEW b \in Octet, NEW c \in Octet, NEW d \in Octet,
         NEW e \in Octet, NEW f \in Octet, NEW g \in Octet, NEW h \in Octet
  PROVE  <<a, b, c, d, e, f, g, h>> \in ExtCommunities
BY SMTT(60) DEF Octet, ExtCommunities

LEMMA Codes ==
  /\ 0 \in Octet /\ TwoOctetAs \in Octet /\ Ipv4Address \in Octet /\ FourOctetAs \in Octet /\ TransitiveOpaque \in Octet
  /\ NonTransitiveOpaque \in Octet /\ Evpn \in Octet /\ NonTransitiveBit \in Octet /\ NonTransitiveBit + TwoOctetAs \in Octet
  /\ RouteTarget \in Octet /\ RouteOrigin \in Octet /\ LinkBandwidth \in Octet /\ Color \in Octet /\ Encapsulation \in Octet
  /\ OriginValidation \in Octet /\ RouterMac \in Octet
BY DEF Octet, TwoOctetAs, Ipv4Address, FourOctetAs, TransitiveOpaque, NonTransitiveOpaque, Evpn, NonTransitiveBit, RouteTarget,
       RouteOrigin, LinkBandwidth, Color, Encapsulation, OriginValidation, RouterMac

\* The codes of the types and subtypes are told apart.
LEMMA CodesDiffer ==
  /\ Ipv4Address # TwoOctetAs
  /\ FourOctetAs # TwoOctetAs /\ FourOctetAs # Ipv4Address
  /\ TransitiveOpaque # TwoOctetAs /\ TransitiveOpaque # Ipv4Address /\ TransitiveOpaque # FourOctetAs
  /\ Evpn # TwoOctetAs /\ Evpn # Ipv4Address /\ Evpn # FourOctetAs /\ Evpn # TransitiveOpaque
  /\ NonTransitiveOpaque \notin {TwoOctetAs, Ipv4Address, FourOctetAs, TransitiveOpaque, Evpn}
  /\ NonTransitiveBit + TwoOctetAs \notin {TwoOctetAs, Ipv4Address, FourOctetAs, TransitiveOpaque, Evpn, NonTransitiveOpaque}
  /\ Encapsulation # Color /\ Color # 0 /\ Encapsulation # 0
BY DEF TwoOctetAs, Ipv4Address, FourOctetAs, TransitiveOpaque, NonTransitiveOpaque, Evpn, NonTransitiveBit, Color, Encapsulation

LEMMA ItsOctets ==
  ASSUME NEW c \in ExtCommunities
  PROVE  /\ c = <<c[1], c[2], c[3], c[4], c[5], c[6], c[7], c[8]>>
         /\ c[1] \in Octet /\ c[2] \in Octet /\ c[3] \in Octet /\ c[4] \in Octet
         /\ c[5] \in Octet /\ c[6] \in Octet /\ c[7] \in Octet /\ c[8] \in Octet
<1>1. \A i \in 1..8 : c[i] \in Octet
  BY Zenon DEF Octet, ExtCommunities
<1>2. c = [i \in 1..8 |-> c[i]]
  BY Zenon DEF ExtCommunities
<1>3. c = <<c[1], c[2], c[3], c[4], c[5], c[6], c[7], c[8]>>
  BY <1>2
<1>. QED
  BY <1>1, <1>3

LEMMA ItsHalves ==
  ASSUME NEW c \in ExtCommunities
  PROVE  /\ Hi(Half(c[3], c[4])) = c[3] /\ Lo(Half(c[3], c[4])) = c[4]
         /\ Hi(Half(c[5], c[6])) = c[5] /\ Lo(Half(c[5], c[6])) = c[6]
         /\ Hi(Half(c[7], c[8])) = c[7] /\ Lo(Half(c[7], c[8])) = c[8]
BY ItsOctets, HalfOctets, Zenon

LEMMA SameItself ==
  ASSUME NEW c \in ExtCommunities
  PROVE  Same(c, c)
BY Zenon DEF Same

LEMMA SameOctets ==
  ASSUME NEW c \in ExtCommunities, NEW d, d = <<c[1], c[2], c[3], c[4], c[5], c[6], c[7], c[8]>>
  PROVE  Same(c, d)
<1>1. d = c
  BY ItsOctets, Zenon
<1>. QED
  BY <1>1, SameItself, Zenon

-----------------------------------------------------------------------------
(* Reading texts *)

LEMMA ReadRaw ==
  ASSUME NEW c
  PROVE  parse_extended_community(<<"0x", c>>) = c
BY Zenon DEF parse_extended_community

LEMMA ReadState ==
  ASSUME NEW state \in 0..2
  PROVE  parse_extended_community(<<"rpki", StateName(state)>>) = from_rpki_state_community(state)
<1>1. StateName(state) \in {"valid", "not-found", "invalid"} /\ StateNamed(StateName(state)) = state
  BY DEF StateName, StateNamed
<1>. QED
  BY <1>1 DEF parse_extended_community

LEMMA ReadColor ==
  ASSUME NEW n
  PROVE  parse_extended_community(<<"color", n>>) = from_color(n)
BY Zenon DEF parse_extended_community

LEMMA ReadEncapsulation ==
  ASSUME NEW h
  PROVE  parse_extended_community(<<"encapsulation", <<0, h>>>>) = from_encapsulation(h)
BY Zenon DEF parse_extended_community, IsHalf

LEMMA ReadMac ==
  ASSUME NEW mac
  PROVE  parse_extended_community(<<"router-mac", mac>>) = from_router_mac(mac)
BY Zenon DEF parse_extended_community

LEMMA ReadBandwidth ==
  ASSUME NEW h, NEW bits
  PROVE  parse_extended_community(<<"lb", <<0, h>>, bits>>) = from_link_bandwidth(h, bits)
BY Zenon DEF parse_extended_community, IsHalf

Prefix(sub) == IF sub = RouteTarget THEN "rt" ELSE "ro"

LEMMA ReadTwoOctetAs ==
  ASSUME NEW sub \in {RouteTarget, RouteOrigin}, NEW h, NEW local
  PROVE  parse_extended_community(<<Prefix(sub), <<0, h>>, local>>) = from_two_octet_as(sub, h, local)
<1>1. /\ Prefix(sub) \in {"rt", "ro"}
      /\ (IF Prefix(sub) = "rt" THEN RouteTarget ELSE RouteOrigin) = sub
  BY Zenon DEF Prefix, RouteTarget, RouteOrigin
<1>. QED
  BY <1>1 DEF parse_extended_community, IsHalf

LEMMA ReadIpv4 ==
  ASSUME NEW sub \in {RouteTarget, RouteOrigin}, NEW ip, Len(ip) = 4, NEW h
  PROVE  parse_extended_community(<<Prefix(sub), ip, <<0, h>>>>) = from_ipv4(sub, ip, h)
<1>1. /\ Prefix(sub) \in {"rt", "ro"}
      /\ (IF Prefix(sub) = "rt" THEN RouteTarget ELSE RouteOrigin) = sub
  BY DEF Prefix, RouteTarget, RouteOrigin
<1>. QED
  BY <1>1, Zenon DEF parse_extended_community, IsHalf

LEMMA ReadFourOctetAs ==
  ASSUME NEW sub \in {RouteTarget, RouteOrigin}, NEW g, g # 0, NEW h, NEW l
  PROVE  parse_extended_community(<<Prefix(sub), <<g, h>>, <<0, l>>>>) = from_four_octet_as(sub, <<g, h>>, l)
<1>1. /\ Prefix(sub) \in {"rt", "ro"}
      /\ (IF Prefix(sub) = "rt" THEN RouteTarget ELSE RouteOrigin) = sub
  BY Zenon DEF Prefix, RouteTarget, RouteOrigin
<1>2. PICK parts : parts = <<Prefix(sub), <<g, h>>, <<0, l>>>>
  BY Zenon
<1>3. parts[1] = Prefix(sub) /\ parts[2] = <<g, h>> /\ Len(parts) = 3 /\ parts[3][2] = l
  BY <1>2
<1>4. Len(parts[2]) # 4
  BY <1>3
<1>5. ~IsHalf(parts[2]) /\ IsHalf(parts[3])
  BY <1>2, Zenon DEF IsHalf
<1>6. 3 # 2
  OBVIOUS
<1>7. parse_extended_community(parts) = from_four_octet_as(sub, <<g, h>>, l)
  BY <1>1, <1>3, <1>4, <1>5, <1>6, Zenon DEF parse_extended_community
<1>. QED
  BY <1>2, <1>7, Zenon

-----------------------------------------------------------------------------
(* Through a text *)

LEMMA TextOfColor ==
  ASSUME NEW c \in ExtCommunities, ext_type(c) = TransitiveOpaque, ext_subtype(c) = Color
  PROVE  /\ parse_extended_community(format_extended_community(c)) = <<TransitiveOpaque, Color, 0, 0, c[5], c[6], c[7], c[8]>>
         /\ Same(c, parse_extended_community(format_extended_community(c)))
<1>. DEFINE d == <<TransitiveOpaque, Color, 0, 0, c[5], c[6], c[7], c[8]>>
<1>1. c[5] \in Octet /\ c[6] \in Octet /\ c[7] \in Octet /\ c[8] \in Octet
  BY ItsOctets, Zenon
<1>2. format_extended_community(c) = <<"color", LastFour(c)>>
  BY DEF format_extended_community
<1>3. parse_extended_community(<<"color", LastFour(c)>>) = from_color(LastFour(c))
  BY ReadColor, Zenon
<1>4. from_color(LastFour(c)) = d
  BY <1>1, HalfOctets DEF from_color, LastFour
<1>5. d \in ExtCommunities
  BY <1>1, Codes, EightOctets, Zenon
<1>6. format_extended_community(d) = <<"color", LastFour(d)>>
  BY Zenon DEF format_extended_community, ext_type, ext_subtype
<1>7. LastFour(d) = LastFour(c)
  BY Zenon DEF LastFour
<1>8. is_transitive(d) = is_transitive(c)
  BY Zenon DEF is_transitive, ext_type
<1>9. ~NoMessage(d)
  BY DEF NoMessage, base_type, is_transitive, ext_type, ext_subtype, TransitiveOpaque, NonTransitiveOpaque, Color, Evpn,
         NonTransitiveBit
<1>. QED
  BY <1>2, <1>3, <1>4, <1>5, <1>6, <1>7, <1>8, <1>9, ZenonT(60) DEF Same

LEMMA TextOfEncapsulation ==
  ASSUME NEW c \in ExtCommunities, ext_type(c) = TransitiveOpaque, ext_subtype(c) = Encapsulation
  PROVE  /\ parse_extended_community(format_extended_community(c)) = <<TransitiveOpaque, Encapsulation, 0, 0, 0, 0, c[7], c[8]>>
         /\ Same(c, parse_extended_community(format_extended_community(c)))
<1>. DEFINE d == <<TransitiveOpaque, Encapsulation, 0, 0, 0, 0, c[7], c[8]>>
<1>1. c[7] \in Octet /\ c[8] \in Octet
  BY ItsOctets, Zenon
<1>2. format_extended_community(c) = <<"encapsulation", LastTwo(c)>>
  BY DEF format_extended_community, Encapsulation, Color
<1>3. parse_extended_community(<<"encapsulation", LastTwo(c)>>) = from_encapsulation(Half(c[7], c[8]))
  BY ReadEncapsulation, Zenon DEF LastTwo
<1>4. from_encapsulation(Half(c[7], c[8])) = d
  BY <1>1, HalfOctets DEF from_encapsulation
<1>5. d \in ExtCommunities
  BY <1>1, Codes, EightOctets, Zenon
<1>6. format_extended_community(d) = <<"encapsulation", LastTwo(d)>>
  BY DEF format_extended_community, ext_type, ext_subtype, Encapsulation, Color
<1>7. LastTwo(d) = LastTwo(c)
  BY DEF LastTwo
<1>8. is_transitive(d) = is_transitive(c)
  BY Zenon DEF is_transitive, ext_type
<1>9. ~NoMessage(d)
  BY DEF NoMessage, base_type, is_transitive, ext_type, ext_subtype, TransitiveOpaque, NonTransitiveOpaque, Encapsulation, Evpn,
         NonTransitiveBit
<1>. QED
  BY <1>2, <1>3, <1>4, <1>5, <1>6, <1>7, <1>8, <1>9, Zenon DEF Same

LEMMA TextOfState ==
  ASSUME NEW c \in ExtCommunities, is_rpki_state_community(c), rpki_state_community_value(c) < 3
  PROVE  Same(c, parse_extended_community(format_extended_community(c)))
<1>. DEFINE d == <<NonTransitiveOpaque, OriginValidation, 0, 0, 0, 0, 0, c[8]>>
<1>1. c[8] \in Octet /\ c[8] \in 0..2
  <2>1. c[8] \in Octet
    BY ItsOctets, Zenon
  <2>. QED
    BY <2>1 DEF rpki_state_community_value, Octet
<1>2. format_extended_community(c) = <<"rpki", StateName(c[8])>>
  BY CodesDiffer, Zenon DEF format_extended_community, is_rpki_state_community, rpki_state_community_value
<1>3. parse_extended_community(<<"rpki", StateName(c[8])>>) = d
  BY <1>1, ReadState, Zenon DEF from_rpki_state_community
<1>4. d \in ExtCommunities
  BY <1>1, Codes, EightOctets, Zenon
<1>5. d[1] = NonTransitiveOpaque /\ d[2] = OriginValidation /\ d[8] = c[8]
  OBVIOUS
<1>6. is_rpki_state_community(d) /\ rpki_state_community_value(d) = c[8]
  BY <1>5, Zenon DEF is_rpki_state_community, rpki_state_community_value, ext_type, ext_subtype
<1>7. format_extended_community(d) = <<"rpki", StateName(c[8])>>
  <2>1. c[8] < 3
    BY <1>1
  <2>2. ext_type(d) = NonTransitiveOpaque /\ rpki_state_community_value(d) < 3
    BY <1>5, <1>6, <2>1, Zenon DEF ext_type
  <2>. HIDE DEF d
  <2>. QED
    BY <1>6, <2>2, CodesDiffer, Zenon DEF format_extended_community
<1>8. is_transitive(d) = is_transitive(c)
  BY <1>5, Zenon DEF is_transitive, ext_type, is_rpki_state_community
<1>9. ~NoMessage(d)
  BY <1>5 DEF NoMessage, base_type, is_transitive, ext_type, ext_subtype, TransitiveOpaque, NonTransitiveOpaque, Encapsulation,
         Color, Evpn, NonTransitiveBit, OriginValidation
<1>. QED
  BY <1>2, <1>3, <1>4, <1>7, <1>8, <1>9, ZenonT(60) DEF Same

LEMMA TextOfMac ==
  ASSUME NEW c \in ExtCommunities, ext_type(c) = Evpn, ext_subtype(c) = RouterMac
  PROVE  Same(c, parse_extended_community(format_extended_community(c)))
<1>1. format_extended_community(c) = <<"router-mac", ext_value(c)>>
  BY CodesDiffer, Zenon DEF format_extended_community
<1>2. parse_extended_community(<<"router-mac", ext_value(c)>>) = from_router_mac(ext_value(c))
  BY ReadMac, Zenon
<1>3. from_router_mac(ext_value(c)) = <<c[1], c[2], c[3], c[4], c[5], c[6], c[7], c[8]>>
  BY Zenon DEF from_router_mac, ext_value, ext_type, ext_subtype
<1>. QED
  BY <1>1, <1>2, <1>3, SameOctets, Zenon

LEMMA TextOfTwoOctetAs ==
  ASSUME NEW c \in ExtCommunities, ext_type(c) = TwoOctetAs, ext_subtype(c) \in {RouteTarget, RouteOrigin}
  PROVE  Same(c, parse_extended_community(format_extended_community(c)))
<1>1. format_extended_community(c) = <<Prefix(c[2]), FirstTwo(c), LastFour(c)>>
  BY CodesDiffer, Zenon DEF format_extended_community, Prefix, ext_type, ext_subtype
<1>2. parse_extended_community(<<Prefix(c[2]), FirstTwo(c), LastFour(c)>>) = from_two_octet_as(c[2], Half(c[3], c[4]), LastFour(c))
  BY ReadTwoOctetAs, Zenon DEF FirstTwo, ext_subtype
<1>3. from_two_octet_as(c[2], Half(c[3], c[4]), LastFour(c)) = <<c[1], c[2], c[3], c[4], c[5], c[6], c[7], c[8]>>
  BY ItsHalves, Zenon DEF from_two_octet_as, LastFour, ext_type
<1>. QED
  BY <1>1, <1>2, <1>3, SameOctets, Zenon

LEMMA TextOfIpv4 ==
  ASSUME NEW c \in ExtCommunities, ext_type(c) = Ipv4Address, ext_subtype(c) \in {RouteTarget, RouteOrigin}
  PROVE  Same(c, parse_extended_community(format_extended_community(c)))
<1>. DEFINE ip == <<c[3], c[4], c[5], c[6]>>
<1>1. format_extended_community(c) = <<Prefix(c[2]), ip, LastTwo(c)>>
  BY CodesDiffer, Zenon DEF format_extended_community, Prefix, ext_type, ext_subtype
<1>2. parse_extended_community(<<Prefix(c[2]), ip, LastTwo(c)>>) = from_ipv4(c[2], ip, Half(c[7], c[8]))
  <2>1. ext_subtype(c) = c[2] /\ LastTwo(c) = <<0, Half(c[7], c[8])>>
    BY Zenon DEF LastTwo, ext_subtype
  <2>2. c[2] \in {RouteTarget, RouteOrigin}
    BY <2>1, Zenon
  <2>3. Len(ip) = 4
    BY Zenon
  <2>. HIDE DEF ip
  <2>4. parse_extended_community(<<Prefix(c[2]), ip, <<0, Half(c[7], c[8])>>>>) = from_ipv4(c[2], ip, Half(c[7], c[8]))
    BY <2>2, <2>3, ReadIpv4, Zenon
  <2>. QED
    BY <2>1, <2>4, Zenon
<1>3. from_ipv4(c[2], ip, Half(c[7], c[8])) = <<c[1], c[2], c[3], c[4], c[5], c[6], c[7], c[8]>>
  BY ItsHalves, Zenon DEF from_ipv4, ext_type
<1>. QED
  BY <1>1, <1>2, <1>3, SameOctets, Zenon

LEMMA TextOfFourOctetAs ==
  ASSUME NEW c \in ExtCommunities, ext_type(c) = FourOctetAs, ext_subtype(c) \in {RouteTarget, RouteOrigin}
  PROVE  Same(c, parse_extended_community(format_extended_community(c)))
<1>1. format_extended_community(c) = <<Prefix(c[2]), FirstFour(c), LastTwo(c)>>
  BY CodesDiffer, Zenon DEF format_extended_community, Prefix, ext_type, ext_subtype
<1>2. CASE Half(c[3], c[4]) # 0
  <2>1. parse_extended_community(<<Prefix(c[2]), FirstFour(c), LastTwo(c)>>) = from_four_octet_as(c[2], FirstFour(c), Half(c[7], c[8]))
    <3>1. /\ ext_subtype(c) = c[2] /\ LastTwo(c) = <<0, Half(c[7], c[8])>>
          /\ FirstFour(c) = <<Half(c[3], c[4]), Half(c[5], c[6])>>
      BY Zenon DEF FirstFour, LastTwo, ext_subtype
    <3>2. c[2] \in {RouteTarget, RouteOrigin}
      BY <3>1, Zenon
    <3>3. parse_extended_community(<<Prefix(c[2]), <<Half(c[3], c[4]), Half(c[5], c[6])>>, <<0, Half(c[7], c[8])>>>>)
            = from_four_octet_as(c[2], <<Half(c[3], c[4]), Half(c[5], c[6])>>, Half(c[7], c[8]))
      <4>1. \A g, h, l : g # 0 => parse_extended_community(<<Prefix(c[2]), <<g, h>>, <<0, l>>>>) = from_four_octet_as(c[2], <<g, h>>, l)
        BY <3>2, ReadFourOctetAs
      <4>. QED
        BY <1>2, <4>1
    <3>. QED
      BY <3>1, <3>3, Zenon
  <2>2. from_four_octet_as(c[2], FirstFour(c), Half(c[7], c[8])) = <<c[1], c[2], c[3], c[4], c[5], c[6], c[7], c[8]>>
    BY ItsHalves, Zenon DEF from_four_octet_as, FirstFour, ext_type
  <2>. QED
    BY <1>1, <2>1, <2>2, SameOctets, Zenon
<1>3. CASE Half(c[3], c[4]) = 0
  <2>. DEFINE d == <<TwoOctetAs, c[2], c[5], c[6], 0, 0, c[7], c[8]>>
  <2>1. c[2] \in Octet /\ c[5] \in Octet /\ c[6] \in Octet /\ c[7] \in Octet /\ c[8] \in Octet
    BY ItsOctets, Zenon
  <2>2. parse_extended_community(<<Prefix(c[2]), <<0, Half(c[5], c[6])>>, LastTwo(c)>>)
          = from_two_octet_as(c[2], Half(c[5], c[6]), LastTwo(c))
    BY ReadTwoOctetAs, Zenon DEF ext_subtype
  <2>3. Hi(0) = 0 /\ Lo(0) = 0
    BY DEF Hi, Lo
  <2>4. from_two_octet_as(c[2], Half(c[5], c[6]), LastTwo(c)) = d
    BY <2>1, <2>3, HalfOctets, Zenon DEF from_two_octet_as, LastTwo
  <2>5. d \in ExtCommunities
    BY <2>1, Codes, EightOctets, Zenon
  <2>6. d[1] = TwoOctetAs /\ d[2] = c[2] /\ FirstTwo(d) = <<0, Half(c[5], c[6])>> /\ LastFour(d) = <<Half(0, 0), Half(c[7], c[8])>>
    BY DEF FirstTwo, LastFour
  <2>7. Half(0, 0) = 0
    BY DEF Half
  <2>. HIDE DEF d
  <2>8. format_extended_community(d) = <<Prefix(c[2]), FirstTwo(d), LastFour(d)>>
    BY <2>6, CodesDiffer, Zenon DEF format_extended_community, Prefix, ext_type, ext_subtype
  <2>9. is_transitive(d) /\ is_transitive(c)
    BY <2>6 DEF is_transitive, ext_type, TwoOctetAs, FourOctetAs, NonTransitiveBit
  <2>10. ~NoMessage(d)
    BY <2>6, <2>9 DEF NoMessage, base_type, ext_type, TwoOctetAs, TransitiveOpaque, NonTransitiveOpaque, Evpn
  <2>11. FirstFour(c) = FirstTwo(d) /\ LastTwo(c) = LastFour(d)
    BY <1>3, <2>6, <2>7, Zenon DEF FirstFour, LastTwo
  <2>12. format_extended_community(d) = format_extended_community(c)
    BY <1>1, <2>8, <2>11, Zenon
  <2>13. parse_extended_community(format_extended_community(c)) = d
    BY <1>1, <2>2, <2>4, <2>6, <2>11, Zenon
  <2>. QED
    BY <2>5, <2>9, <2>10, <2>12, <2>13, Zenon DEF Same
<1>. QED
  BY <1>2, <1>3, Zenon

\* A NaN is shown as the one that is read.
LEMMA DecimalStays ==
  ASSUME NEW g \in Nat, NEW h \in Nat
  PROVE  Decimal(Decimal(<<g, h>>)) = Decimal(<<g, h>>)
<1>1. CASE IsNaN(<<g, h>>)
  <2>1. Decimal(<<g, h>>) = NaN
    BY <1>1 DEF Decimal
  <2>2. Decimal(NaN) = NaN
    BY DEF Decimal
  <2>. QED
    BY <2>1, <2>2
<1>2. CASE ~IsNaN(<<g, h>>)
  BY <1>2, Zenon DEF Decimal
<1>. QED
  BY <1>1, <1>2

LEMMA DecimalOctets ==
  ASSUME NEW c \in ExtCommunities
  PROVE  \E e, f, g, h \in Octet : Decimal(LastFour(c)) = <<Half(e, f), Half(g, h)>>
<1>1. CASE IsNaN(LastFour(c))
  <2>1. 127 \in Octet /\ 192 \in Octet /\ 0 \in Octet
    BY DEF Octet
  <2>2. NaN = <<Half(127, 192), Half(0, 0)>>
    BY DEF NaN, Half
  <2>. QED
    BY <1>1, <2>1, <2>2 DEF Decimal
<1>2. CASE ~IsNaN(LastFour(c))
  BY <1>2, ItsOctets, Zenon DEF Decimal, LastFour
<1>. QED
  BY <1>1, <1>2, Zenon

LEMMA TextOfBandwidth ==
  ASSUME NEW c \in ExtCommunities, ext_type(c) = NonTransitiveBit + TwoOctetAs, ext_subtype(c) = LinkBandwidth
  PROVE  Same(c, parse_extended_community(format_extended_community(c)))
<1>1. PICK e, f, g, h \in Octet : Decimal(LastFour(c)) = <<Half(e, f), Half(g, h)>>
  BY DecimalOctets
<1>. DEFINE d == <<NonTransitiveBit + TwoOctetAs, LinkBandwidth, c[3], c[4], e, f, g, h>>
<1>2. c[3] \in Octet /\ c[4] \in Octet
  BY ItsOctets, Zenon
<1>3. format_extended_community(c) = <<"lb", FirstTwo(c), Decimal(LastFour(c))>>
  BY DEF format_extended_community, NonTransitiveBit, TwoOctetAs, LinkBandwidth, Evpn, TransitiveOpaque, NonTransitiveOpaque
<1>4. parse_extended_community(<<"lb", FirstTwo(c), Decimal(LastFour(c))>>)
        = from_link_bandwidth(Half(c[3], c[4]), Decimal(LastFour(c)))
  BY ReadBandwidth, Zenon DEF FirstTwo
<1>5. from_link_bandwidth(Half(c[3], c[4]), <<Half(e, f), Half(g, h)>>) = d
  BY <1>2, HalfOctets DEF from_link_bandwidth
<1>6. d \in ExtCommunities
  BY <1>2, Codes, EightOctets, Zenon
<1>7. d[1] = NonTransitiveBit + TwoOctetAs /\ d[2] = LinkBandwidth /\ FirstTwo(d) = FirstTwo(c)
  BY Zenon DEF FirstTwo
<1>8. LastFour(d) = <<Half(e, f), Half(g, h)>>
  BY Zenon DEF LastFour
<1>. HIDE DEF d
<1>9. format_extended_community(d) = <<"lb", FirstTwo(d), Decimal(LastFour(d))>>
  BY <1>7 DEF format_extended_community, ext_type, ext_subtype, NonTransitiveBit, TwoOctetAs, LinkBandwidth, Evpn, TransitiveOpaque,
         NonTransitiveOpaque
<1>10. Decimal(LastFour(d)) = Decimal(LastFour(c))
  <2>1. \E m, n \in Nat : LastFour(c) = <<m, n>>
    <3>1. c[5] \in Octet /\ c[6] \in Octet /\ c[7] \in Octet /\ c[8] \in Octet
      BY ItsOctets, Zenon
    <3>2. Half(c[5], c[6]) \in Nat /\ Half(c[7], c[8]) \in Nat
      BY <3>1, HalfOctets, Zenon
    <3>. QED
      BY <3>2, Zenon DEF LastFour
  <2>. QED
    BY <1>1, <1>8, <2>1, DecimalStays, ZenonT(60)
<1>11. is_transitive(d) = is_transitive(c)
  BY <1>7, Zenon DEF is_transitive, ext_type
<1>12. ~NoMessage(d)
  BY <1>7 DEF NoMessage, base_type, is_transitive, ext_type, TwoOctetAs, TransitiveOpaque, NonTransitiveOpaque, Evpn,
         NonTransitiveBit
<1>13. format_extended_community(d) = format_extended_community(c)
  BY <1>3, <1>7, <1>9, <1>10, Zenon
<1>14. parse_extended_community(format_extended_community(c)) = d
  BY <1>1, <1>3, <1>4, <1>5, Zenon
<1>. QED
  BY <1>6, <1>11, <1>12, <1>13, <1>14, Zenon DEF Same

\* The communities whose text is not the raw one.
HasName(c) ==
  \/ ext_type(c) = TransitiveOpaque /\ ext_subtype(c) \in {Color, Encapsulation}
  \/ is_rpki_state_community(c) /\ rpki_state_community_value(c) < 3
  \/ ext_type(c) = Evpn /\ ext_subtype(c) = RouterMac
  \/ ext_type(c) = NonTransitiveBit + TwoOctetAs /\ ext_subtype(c) = LinkBandwidth
  \/ ext_type(c) \in {TwoOctetAs, Ipv4Address, FourOctetAs} /\ ext_subtype(c) \in {RouteTarget, RouteOrigin}

LEMMA TextOfOthers ==
  ASSUME NEW c \in ExtCommunities, ~HasName(c)
  PROVE  Same(c, parse_extended_community(format_extended_community(c)))
<1>1. format_extended_community(c) = <<"0x", c>>
  BY Zenon DEF HasName, format_extended_community
<1>. QED
  BY <1>1, ReadRaw, SameItself, Zenon

\* A text gives back a community that shows and behaves alike.
LEMMA TextKeeps ==
  ASSUME NEW c \in ExtCommunities
  PROVE  Same(c, parse_extended_community(format_extended_community(c)))
BY TextOfColor, TextOfEncapsulation, TextOfState, TextOfMac, TextOfBandwidth, TextOfTwoOctetAs, TextOfIpv4, TextOfFourOctetAs,
   TextOfOthers, ZenonT(60) DEF HasName

-----------------------------------------------------------------------------
(* Through a message *)

\* The type of a community is its base type with or without the bit.
LEMMA BitIsSet ==
  ASSUME NEW c \in ExtCommunities
  PROVE  /\ is_transitive(c) \in BOOLEAN
         /\ is_transitive(c) => c[1] = base_type(c)
         /\ ~is_transitive(c) => c[1] = NonTransitive(base_type(c))
<1>1. c[1] \in 0..255
  BY ItsOctets, ZenonT(60) DEF Octet
<1>2. ~is_transitive(c) => c[1] \div 64 \in {1, 3}
  BY <1>1, SMTT(60) DEF is_transitive, ext_type, NonTransitiveBit
<1>3. ~is_transitive(c) => ((c[1] - 64) \div 64) % 2 = 0
  BY <1>1, <1>2
<1>. QED
  BY <1>1, <1>3 DEF is_transitive, base_type, NonTransitive, ext_type, NonTransitiveBit

\* What a message of a known kind gives back.
LEMMA BackFromProto ==
  ASSUME NEW kind, kind # "unknown", NEW t \in BOOLEAN, NEW sub, NEW values,
         NEW a, NEW b, NEW c, NEW d, NEW e, NEW f, NEW g, NEW h,
         FromProto(kind, sub, values) = <<a, b, c, d, e, f, g, h>>
  PROVE  proto_extcomm_to_u64(Proto(kind, t, sub, values)) = <<IF t THEN a ELSE NonTransitive(a), b, c, d, e, f, g, h>>
<1>1. PICK p : p = Proto(kind, t, sub, values)
  BY Zenon
<1>2. p.kind = kind /\ p.transitive = t /\ p.sub = sub /\ p.values = values
  BY <1>1 DEF Proto
<1>3. <<a, b, c, d, e, f, g, h>> # Invalid
  BY DEF Invalid
<1>4. [<<a, b, c, d, e, f, g, h>> EXCEPT ![1] = NonTransitive(@)] = <<NonTransitive(a), b, c, d, e, f, g, h>>
  OBVIOUS
<1>5. proto_extcomm_to_u64(p) = IF t THEN <<a, b, c, d, e, f, g, h>> ELSE <<NonTransitive(a), b, c, d, e, f, g, h>>
  BY <1>2, <1>3, <1>4, Zenon DEF proto_extcomm_to_u64
<1>. QED
  BY <1>1, <1>5

\* A message that carries everything but the type gives back the community.
LEMMA MessageIsExact ==
  ASSUME NEW c \in ExtCommunities, NEW kind, kind # "unknown", NEW sub, NEW values,
         u64_to_proto_extcomm(c) = Proto(kind, is_transitive(c), sub, values),
         FromProto(kind, sub, values) = <<base_type(c), c[2], c[3], c[4], c[5], c[6], c[7], c[8]>>
  PROVE  proto_extcomm_to_u64(u64_to_proto_extcomm(c)) = c
<1>1. PICK t \in BOOLEAN : t = is_transitive(c)
  BY BitIsSet, Zenon
<1>2. proto_extcomm_to_u64(Proto(kind, t, sub, values))
        = <<IF t THEN base_type(c) ELSE NonTransitive(base_type(c)), c[2], c[3], c[4], c[5], c[6], c[7], c[8]>>
  BY BackFromProto, SMTT(60)
<1>3. (IF t THEN base_type(c) ELSE NonTransitive(base_type(c))) = c[1]
  BY <1>1, BitIsSet
<1>. QED
  BY <1>1, <1>2, <1>3, ItsOctets, Zenon

\* Numbers that fit their field are taken from it.
LEMMA FitsOctet ==
  ASSUME NEW n \in Octet
  PROVE  n % 256 = n
BY DEF Octet

LEMMA MessageOfTwoOctetAs ==
  ASSUME NEW c \in ExtCommunities, base_type(c) = TwoOctetAs, ext_subtype(c) # LinkBandwidth
  PROVE  proto_extcomm_to_u64(u64_to_proto_extcomm(c)) = c
<1>. DEFINE v == <<FirstTwo(c), LastFour(c)>>
<1>1. u64_to_proto_extcomm(c) = Proto("two-octet-as", is_transitive(c), c[2], v)
  BY Zenon DEF u64_to_proto_extcomm, ext_subtype
<1>2. IsHalf(v[1]) /\ v[1][2] = Half(c[3], c[4]) /\ v[2] = LastFour(c)
  BY DEF FirstTwo, IsHalf
<1>3. c[2] % 256 = c[2]
  BY ItsOctets, FitsOctet, Zenon
<1>. HIDE DEF v
<1>4. FromProto("two-octet-as", c[2], v) = from_two_octet_as(c[2], Half(c[3], c[4]), LastFour(c))
  BY <1>2, <1>3, Zenon DEF FromProto
<1>5. from_two_octet_as(c[2], Half(c[3], c[4]), LastFour(c)) = <<TwoOctetAs, c[2], c[3], c[4], c[5], c[6], c[7], c[8]>>
  BY ItsHalves, Zenon DEF from_two_octet_as, LastFour
<1>. QED
  BY <1>1, <1>4, <1>5, MessageIsExact, Zenon

LEMMA MessageOfBandwidth ==
  ASSUME NEW c \in ExtCommunities, base_type(c) = TwoOctetAs, ext_subtype(c) = LinkBandwidth
  PROVE  proto_extcomm_to_u64(u64_to_proto_extcomm(c)) = c
<1>. DEFINE v == <<FirstTwo(c), LastFour(c)>>
<1>1. u64_to_proto_extcomm(c) = Proto("link-bandwidth", is_transitive(c), 0, v)
  BY Zenon DEF u64_to_proto_extcomm
<1>2. IsHalf(v[1]) /\ v[1][2] = Half(c[3], c[4]) /\ v[2] = LastFour(c)
  BY Zenon DEF FirstTwo, IsHalf
<1>. HIDE DEF v
<1>3. FromProto("link-bandwidth", 0, v) = from_two_octet_as(c[2], Half(c[3], c[4]), LastFour(c))
  BY <1>2, Zenon DEF FromProto, ext_subtype
<1>4. from_two_octet_as(c[2], Half(c[3], c[4]), LastFour(c)) = <<TwoOctetAs, c[2], c[3], c[4], c[5], c[6], c[7], c[8]>>
  BY ItsHalves, Zenon DEF from_two_octet_as, LastFour
<1>. QED
  BY <1>1, <1>3, <1>4, MessageIsExact, Zenon

LEMMA MessageOfIpv4 ==
  ASSUME NEW c \in ExtCommunities, base_type(c) = Ipv4Address
  PROVE  proto_extcomm_to_u64(u64_to_proto_extcomm(c)) = c
<1>. DEFINE ip == <<c[3], c[4], c[5], c[6]>>
            v == <<ip, LastTwo(c)>>
<1>1. u64_to_proto_extcomm(c) = Proto("ipv4", is_transitive(c), c[2], v)
  BY CodesDiffer, Zenon DEF u64_to_proto_extcomm, ext_subtype
<1>2. IsHalf(v[2]) /\ v[2][2] = Half(c[7], c[8]) /\ v[1] = ip
  BY Zenon DEF LastTwo, IsHalf
<1>3. c[2] % 256 = c[2]
  BY ItsOctets, FitsOctet, Zenon
<1>. HIDE DEF v
<1>4. FromProto("ipv4", c[2], v) = from_ipv4(c[2], ip, Half(c[7], c[8]))
  BY <1>2, <1>3, Zenon DEF FromProto
<1>5. from_ipv4(c[2], ip, Half(c[7], c[8])) = <<Ipv4Address, c[2], c[3], c[4], c[5], c[6], c[7], c[8]>>
  BY ItsHalves, Zenon DEF from_ipv4
<1>. QED
  BY <1>1, <1>4, <1>5, MessageIsExact, Zenon

LEMMA MessageOfFourOctetAs ==
  ASSUME NEW c \in ExtCommunities, base_type(c) = FourOctetAs
  PROVE  proto_extcomm_to_u64(u64_to_proto_extcomm(c)) = c
<1>. DEFINE v == <<FirstFour(c), LastTwo(c)>>
<1>1. u64_to_proto_extcomm(c) = Proto("four-octet-as", is_transitive(c), c[2], v)
  BY CodesDiffer, Zenon DEF u64_to_proto_extcomm, ext_subtype
<1>2. IsHalf(v[2]) /\ v[2][2] = Half(c[7], c[8]) /\ v[1] = FirstFour(c)
  BY Zenon DEF LastTwo, IsHalf
<1>3. c[2] % 256 = c[2]
  BY ItsOctets, FitsOctet
<1>. HIDE DEF v
<1>4. FromProto("four-octet-as", c[2], v) = from_four_octet_as(c[2], FirstFour(c), Half(c[7], c[8]))
  BY <1>2, <1>3, Zenon DEF FromProto
<1>5. from_four_octet_as(c[2], FirstFour(c), Half(c[7], c[8])) = <<FourOctetAs, c[2], c[3], c[4], c[5], c[6], c[7], c[8]>>
  BY ItsHalves, Zenon DEF from_four_octet_as, FirstFour
<1>. QED
  BY <1>1, <1>4, <1>5, MessageIsExact, Zenon

\* A color or encapsulation loses its reserved octets, which only show when it is
\* not transitive; then they are zero, or there is no message.
LEMMA MessageOfColor ==
  ASSUME NEW c \in ExtCommunities, ~NoMessage(c), base_type(c) = TransitiveOpaque, ext_subtype(c) = Color
  PROVE  Same(c, proto_extcomm_to_u64(u64_to_proto_extcomm(c)))
<1>. DEFINE v == <<LastFour(c)>>
<1>1. u64_to_proto_extcomm(c) = Proto("color", is_transitive(c), 0, v)
  BY CodesDiffer, Zenon DEF u64_to_proto_extcomm
<1>2. v[1] = LastFour(c)
  BY Zenon
<1>. HIDE DEF v
<1>3. FromProto("color", 0, v) = from_color(LastFour(c))
  BY <1>2, Zenon DEF FromProto
<1>4. from_color(LastFour(c)) = <<TransitiveOpaque, Color, 0, 0, c[5], c[6], c[7], c[8]>>
  BY ItsHalves, Zenon DEF from_color, LastFour
<1>5. CASE is_transitive(c)
  <2>1. PICK t \in BOOLEAN : t = is_transitive(c)
    BY BitIsSet, Zenon
  <2>2. proto_extcomm_to_u64(Proto("color", t, 0, v))
          = <<IF t THEN TransitiveOpaque ELSE NonTransitive(TransitiveOpaque), Color, 0, 0, c[5], c[6], c[7], c[8]>>
    BY <1>3, <1>4, BackFromProto, SMTT(60)
  <2>3. proto_extcomm_to_u64(u64_to_proto_extcomm(c)) = <<TransitiveOpaque, Color, 0, 0, c[5], c[6], c[7], c[8]>>
    BY <1>1, <1>5, <2>1, <2>2, Zenon
  <2>4. ext_type(c) = TransitiveOpaque
    BY <1>5, Zenon DEF base_type
  <2>. QED
    BY <2>3, <2>4, TextOfColor, Zenon
<1>6. CASE ~is_transitive(c)
  <2>1. ext_type(c) = NonTransitiveOpaque
    BY <1>6, ItsOctets DEF base_type, ext_type, Octet, TransitiveOpaque, NonTransitiveOpaque, NonTransitiveBit
  <2>2. c[3] = 0 /\ c[4] = 0
    BY <2>1 DEF NoMessage
  <2>3. c[2] = Color
    BY Zenon DEF ext_subtype
  <2>4. FromProto("color", 0, v) = <<base_type(c), c[2], c[3], c[4], c[5], c[6], c[7], c[8]>>
    BY <1>3, <1>4, <2>2, <2>3, Zenon
  <2>. QED
    BY <1>1, <2>4, MessageIsExact, SameItself, Zenon
<1>. QED
  BY <1>5, <1>6, Zenon

LEMMA MessageOfEncapsulation ==
  ASSUME NEW c \in ExtCommunities, ~NoMessage(c), base_type(c) = TransitiveOpaque, ext_subtype(c) = Encapsulation
  PROVE  Same(c, proto_extcomm_to_u64(u64_to_proto_extcomm(c)))
<1>. DEFINE v == <<LastTwo(c)>>
<1>1. u64_to_proto_extcomm(c) = Proto("encapsulation", is_transitive(c), 0, v)
  BY CodesDiffer, Zenon DEF u64_to_proto_extcomm
<1>2. IsHalf(v[1]) /\ v[1][2] = Half(c[7], c[8])
  BY Zenon DEF LastTwo, IsHalf
<1>. HIDE DEF v
<1>3. FromProto("encapsulation", 0, v) = from_encapsulation(Half(c[7], c[8]))
  BY <1>2, Zenon DEF FromProto
<1>4. from_encapsulation(Half(c[7], c[8])) = <<TransitiveOpaque, Encapsulation, 0, 0, 0, 0, c[7], c[8]>>
  BY ItsHalves, Zenon DEF from_encapsulation
<1>5. CASE is_transitive(c)
  <2>1. PICK t \in BOOLEAN : t = is_transitive(c)
    BY BitIsSet
  <2>2. proto_extcomm_to_u64(Proto("encapsulation", t, 0, v))
          = <<IF t THEN TransitiveOpaque ELSE NonTransitive(TransitiveOpaque), Encapsulation, 0, 0, 0, 0, c[7], c[8]>>
    BY <1>3, <1>4, BackFromProto, SMTT(60)
  <2>3. proto_extcomm_to_u64(u64_to_proto_extcomm(c)) = <<TransitiveOpaque, Encapsulation, 0, 0, 0, 0, c[7], c[8]>>
    BY <1>1, <1>5, <2>1, <2>2, Zenon
  <2>4. ext_type(c) = TransitiveOpaque
    BY <1>5 DEF base_type
  <2>. QED
    BY <2>3, <2>4, TextOfEncapsulation, Zenon
<1>6. CASE ~is_transitive(c)
  <2>1. ext_type(c) = NonTransitiveOpaque
    BY <1>6, ItsOctets DEF base_type, ext_type, Octet, TransitiveOpaque, NonTransitiveOpaque, NonTransitiveBit
  <2>2. c[3] = 0 /\ c[4] = 0 /\ c[5] = 0 /\ c[6] = 0
    BY <2>1, Zenon DEF NoMessage
  <2>3. c[2] = Encapsulation
    BY DEF ext_subtype
  <2>4. FromProto("encapsulation", 0, v) = <<base_type(c), c[2], c[3], c[4], c[5], c[6], c[7], c[8]>>
    BY <1>3, <1>4, <2>2, <2>3, Zenon
  <2>. QED
    BY <1>1, <2>4, MessageIsExact, SameItself, Zenon
<1>. QED
  BY <1>5, <1>6

LEMMA MessageOfMac ==
  ASSUME NEW c \in ExtCommunities, base_type(c) = Evpn, ext_subtype(c) = RouterMac
  PROVE  proto_extcomm_to_u64(u64_to_proto_extcomm(c)) = c
<1>. DEFINE v == ext_value(c)
<1>1. u64_to_proto_extcomm(c) = Proto("router-mac", is_transitive(c), 0, v)
  BY CodesDiffer, Zenon DEF u64_to_proto_extcomm
<1>2. /\ Len(v) = 6 /\ v[1] = c[3] /\ v[2] = c[4] /\ v[3] = c[5] /\ v[4] = c[6] /\ v[5] = c[7] /\ v[6] = c[8]
  BY Zenon DEF ext_value
<1>. HIDE DEF v
<1>3. FromProto("router-mac", 0, v) = from_router_mac(v)
  BY <1>2, Zenon DEF FromProto
<1>4. from_router_mac(v) = <<base_type(c), c[2], c[3], c[4], c[5], c[6], c[7], c[8]>>
  BY <1>2, Zenon DEF from_router_mac, ext_subtype
<1>. QED
  BY <1>1, <1>3, <1>4, MessageIsExact, Zenon

LEMMA MessageOfOpaque ==
  ASSUME NEW c \in ExtCommunities, base_type(c) = TransitiveOpaque, ext_subtype(c) = 0
  PROVE  proto_extcomm_to_u64(u64_to_proto_extcomm(c)) = c
<1>. DEFINE v == ext_value(c)
<1>1. u64_to_proto_extcomm(c) = Proto("opaque", is_transitive(c), 0, v)
  BY CodesDiffer, Zenon DEF u64_to_proto_extcomm
<1>2. /\ Len(v) = 6 /\ v[1] = c[3] /\ v[2] = c[4] /\ v[3] = c[5] /\ v[4] = c[6] /\ v[5] = c[7] /\ v[6] = c[8]
  BY Zenon DEF ext_value
<1>. HIDE DEF v
<1>3. FromProto("opaque", 0, v) = <<TransitiveOpaque, 0, v[1], v[2], v[3], v[4], v[5], v[6]>>
  BY <1>2, Zenon DEF FromProto
<1>4. FromProto("opaque", 0, v) = <<base_type(c), c[2], c[3], c[4], c[5], c[6], c[7], c[8]>>
  BY <1>2, <1>3, Zenon DEF ext_subtype
<1>. QED
  BY <1>1, <1>4, MessageIsExact, Zenon

LEMMA MessageOfUnknown ==
  ASSUME NEW c \in ExtCommunities,
         base_type(c) \notin {TwoOctetAs, Ipv4Address, FourOctetAs, TransitiveOpaque, Evpn}
  PROVE  proto_extcomm_to_u64(u64_to_proto_extcomm(c)) = c
<1>1. PICK v : v = <<c[2], c[3], c[4], c[5], c[6], c[7], c[8]>>
  BY Zenon
<1>2. PICK p : p = u64_to_proto_extcomm(c)
  OBVIOUS
<1>3. p = Proto("unknown", TRUE, c[1], v)
  BY <1>1, <1>2, Zenon DEF u64_to_proto_extcomm, ext_type, ext_subtype
<1>4. p.kind = "unknown" /\ p.sub = c[1] /\ p.values = v
  BY <1>3, Zenon DEF Proto
<1>5. /\ Len(v) = 7 /\ v[1] = c[2] /\ v[2] = c[3] /\ v[3] = c[4] /\ v[4] = c[5] /\ v[5] = c[6] /\ v[6] = c[7] /\ v[7] = c[8]
  BY <1>1, Zenon
<1>6. c[1] % 256 = c[1]
  BY ItsOctets, FitsOctet, Zenon
<1>7. FromProto("unknown", c[1], v) = <<c[1] % 256, v[1], v[2], v[3], v[4], v[5], v[6], v[7]>>
  BY <1>5, Zenon DEF FromProto
<1>8. FromProto("unknown", c[1], v) = c
  <2>1. FromProto("unknown", c[1], v) = <<c[1], c[2], c[3], c[4], c[5], c[6], c[7], c[8]>>
    BY <1>5, <1>6, <1>7, Zenon
  <2>. QED
    BY <2>1, ItsOctets, Zenon
<1>9. proto_extcomm_to_u64(p) = FromProto("unknown", c[1], v)
  BY <1>4, Zenon DEF proto_extcomm_to_u64
<1>. QED
  BY <1>2, <1>8, <1>9, Zenon

\* A message gives back a community that shows and behaves alike, if it has fields
\* for it.
LEMMA MessageKeeps ==
  ASSUME NEW c \in ExtCommunities, ~NoMessage(c)
  PROVE  Same(c, proto_extcomm_to_u64(u64_to_proto_extcomm(c)))
<1>1. CASE base_type(c) \in {TwoOctetAs, Ipv4Address, FourOctetAs}
  BY <1>1, MessageOfTwoOctetAs, MessageOfBandwidth, MessageOfIpv4, MessageOfFourOctetAs, SameItself, Zenon
<1>2. CASE base_type(c) = TransitiveOpaque
  <2>1. ext_subtype(c) \in {0, Color, Encapsulation}
    BY <1>2, Zenon DEF NoMessage
  <2>. QED
    BY <1>2, <2>1, MessageOfOpaque, MessageOfColor, MessageOfEncapsulation, SameItself, Zenon
<1>3. CASE base_type(c) = Evpn
  <2>1. ext_subtype(c) = RouterMac
    BY <1>3, Zenon DEF NoMessage
  <2>. QED
    BY <1>3, <2>1, MessageOfMac, SameItself, Zenon
<1>4. CASE base_type(c) \notin {TwoOctetAs, Ipv4Address, FourOctetAs, TransitiveOpaque, Evpn}
  BY <1>4, MessageOfUnknown, SameItself, Zenon
<1>. QED
  BY <1>1, <1>2, <1>3, <1>4, Zenon

-----------------------------------------------------------------------------
(* Any number of texts and messages *)

CommunityInv == first \in ExtCommunities /\ (~NoMessage(first) => Same(first, ec))

\* What is kept twice is kept.
LEMMA SameTwice ==
  ASSUME NEW b, ~NoMessage(b), NEW c, Same(b, c), NEW d, Same(c, d)
  PROVE  Same(b, d)
BY DEF Same

\* As long as a message can carry the community at the start, one can carry what
\* has become of it, which are eight octets that show as the same text and are as
\* transitive: no text or message on the way is invalid (parse_extended_community,
\* proto_extcomm_to_u64).
THEOREM CommunitiesStayValid == CommunitySpec => []CommunityInv
<1>1. CommunityInit => CommunityInv
  BY SameItself, Zenon DEF CommunityInit, CommunityInv
<1>2. CommunityInv /\ [CommunityNext]_communityVars => CommunityInv'
  <2>. SUFFICES ASSUME CommunityInv, [CommunityNext]_communityVars
                PROVE  CommunityInv'
    OBVIOUS
  <2>1. PICK b, c : b = first /\ c = ec
    BY Zenon
  <2>2. CASE NoMessage(b)
    BY <2>1, <2>2, Zenon DEF CommunityInv, CommunityNext, ThroughText, ThroughMessage, communityVars
  <2>3. CASE ~NoMessage(b)
    <3>1. Same(b, c) /\ c \in ExtCommunities /\ ~NoMessage(c)
      BY <2>1, <2>3, Zenon DEF CommunityInv, Same
    <3>2. first' = first
      BY DEF CommunityNext, ThroughText, ThroughMessage, communityVars
    <3>3. Same(c, ec')
      <4>1. CASE ThroughText
        BY <2>1, <3>1, <4>1, TextKeeps, Zenon DEF ThroughText
      <4>2. CASE ThroughMessage
        BY <2>1, <3>1, <4>2, MessageKeeps, Zenon DEF ThroughMessage
      <4>3. CASE UNCHANGED communityVars
        BY <2>1, <3>1, <4>3, SameItself, Zenon DEF communityVars
      <4>. QED
        BY <4>1, <4>2, <4>3, Zenon DEF CommunityNext
    <3>4. PICK d : d = ec'
      BY Zenon
    <3>5. Same(b, d)
      BY <2>3, <3>1, <3>3, <3>4, SameTwice, Zenon
    <3>. QED
      BY <2>1, <3>2, <3>4, <3>5, Zenon DEF CommunityInv
  <2>. QED
    BY <2>2, <2>3, Zenon
<1>. QED
  BY <1>1, <1>2, PTL DEF CommunitySpec

\* Every extended community shows as the same text and is as transitive after any
\* number of texts and messages, unless there is no message for it
\* (format_extended_community, u64_to_proto_extcomm and what reads their results).
THEOREM CommunitiesAlwaysSurvive == CommunitySpec => []CommunitiesSurvive
<1>1. CommunityInv => CommunitiesSurvive
  BY DEF CommunityInv, CommunitiesSurvive, Same
<1>. QED
  BY <1>1, CommunitiesStayValid, PTL

=============================================================================
