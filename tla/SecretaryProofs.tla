--------------------------- MODULE SecretaryProofs ---------------------------
(***************************************************************************)
(* Theorems about Secretary.tla, for any accounts, chats, pages and bounds:*)
(* nothing that the progress of an import covers is missing in the         *)
(* archive, nothing is saved unasked, and a deletion is final.             *)
(***************************************************************************)
EXTENDS Secretary, FiniteSetTheorems, WellFoundedInduction, TLAPS

-----------------------------------------------------------------------------
(* Least and greatest *)

LEMMA LeastExists ==
  ASSUME NEW S \in SUBSET Nat, S # {}
  PROVE  \E x \in S : \A y \in S : x <= y
<1> DEFINE R == OpToRel(<, Nat)
<1>1. IsWellFoundedOn(R, Nat)
  BY NatLessThanWellFounded, Zenon
<1>2. \A x, y \in Nat : <<x, y>> \in R <=> x < y
  BY DEF OpToRel
<1> HIDE DEF R
<1>3. PICK x \in S : \A y \in S : <<y, x>> \notin R
  BY <1>1, WFMin
<1>4. x \in Nat /\ \A y \in S : y \in Nat
  OBVIOUS
<1>5. ASSUME NEW y \in S PROVE x <= y
  <2>1. ~(y < x)
    BY <1>2, <1>3, <1>4
  <2>2. QED
    BY <1>4, <2>1
<1>6. QED
  BY <1>5

LEMMA MinFacts ==
  ASSUME NEW S \in SUBSET Nat, S # {}
  PROVE  Min(S) \in S /\ \A y \in S : Min(S) <= y
BY LeastExists DEF Min

LEMMA MaxFacts ==
  ASSUME NEW n \in Nat, NEW S \in SUBSET (0 .. n), S # {}
  PROVE  Max(S) \in S /\ \A y \in S : y <= Max(S)
<1> DEFINE T == {n - x : x \in S}
<1>1. T \in SUBSET Nat /\ T # {}
  <2>1. \A x \in S : x \in 0 .. n
    OBVIOUS
  <2>2. \A x \in 0 .. n : n - x \in Nat
    OBVIOUS
  <2>3. QED
    BY <2>1, <2>2
<1>2. PICK t \in T : \A u \in T : t <= u
  BY <1>1, LeastExists
<1>3. PICK x \in S : t = n - x
  BY <1>2
<1>4. \A y \in S : n - y \in T
  OBVIOUS
<1>5. \A y \in S : x >= y
  <2> TAKE y \in S
  <2>1. n - x <= n - y
    BY <1>2, <1>3, <1>4
  <2>2. x \in 0 .. n /\ y \in 0 .. n
    OBVIOUS
  <2> HIDE DEF T
  <2>3. QED
    BY <2>1, <2>2
<1>6. QED
  BY <1>5 DEF Max

LEMMA FreshIdFacts ==
  ASSUME TypeOK
  PROVE  FreshId \in Ids /\ FreshId \notin ending /\ \A t \in imports : FreshId # t.id
<1> DEFINE ids == {t.id : t \in imports}
           used == ending \cup ids
           free == (1 .. Cardinality(used) + 1) \ used
<1>1. IsFiniteSet(used)
  <2>1. IsFiniteSet(ids)
    <3> DEFINE id == [t \in imports |-> t.id]
    <3>1. id \in Surjection(imports, ids)
      BY DEF Surjection
    <3>2. QED
      BY <3>1, FS_Surjection DEF TypeOK
  <2>2. QED
    BY <2>1, FS_Union DEF TypeOK
<1>2. Cardinality(used) \in Nat
  BY <1>1, FS_CardinalityType
<1> HIDE DEF used
<1>3. free # {}
  <2> SUFFICES ASSUME free = {} PROVE FALSE
    OBVIOUS
  <2>1. 1 .. Cardinality(used) + 1 \in SUBSET used
    OBVIOUS
  <2>2. Cardinality(1 .. Cardinality(used) + 1) = Cardinality(used) + 1
    BY <1>2, FS_Interval
  <2>3. Cardinality(1 .. Cardinality(used) + 1) <= Cardinality(used)
    BY <1>1, <2>1, FS_Subset
  <2>4. QED
    BY <1>2, <2>2, <2>3
<1>4. free \in SUBSET Nat
  BY <1>2
<1>5. Min(free) \in free
  BY <1>3, <1>4, MinFacts
<1>6. FreshId = Min(free)
  BY DEF FreshId, used
<1>7. FreshId \in 1 .. Cardinality(used) + 1 /\ FreshId \notin used
  BY <1>5, <1>6
<1>8. QED
  BY <1>2, <1>7 DEF used, Ids

-----------------------------------------------------------------------------
(* Types *)

\* The variables that ensure() and the import change.
ImportsTypeOK ==
  /\ progress \in [Accounts -> [version : 0 .. MaxVersion, cursor : 0 .. MaxMessage,
                                status : {"none", "loading", "ready", "error"}]]
  /\ days \subseteq Accounts
  /\ imports \subseteq Imports /\ IsFiniteSet(imports)
  /\ ending \subseteq Ids /\ IsFiniteSet(ending)
  /\ job \in [id : Ids, version : 0 .. MaxVersion] \cup {NoJob}

LEMMA AbortType ==
  ASSUME TypeOK, NEW ts \in SUBSET imports, Abort(ts)
  PROVE  /\ imports' \subseteq Imports /\ IsFiniteSet(imports')
         /\ ending' \subseteq Ids /\ IsFiniteSet(ending')
<1> DEFINE ids == {t.id : t \in ts}
           id == [t \in ts |-> t.id]
<1>1. IsFiniteSet(ts) /\ IsFiniteSet(imports \ ts)
  BY FS_Subset DEF TypeOK
<1>2. id \in Surjection(ts, ids)
  BY DEF Surjection
<1>3. IsFiniteSet(ids)
  BY <1>1, <1>2, FS_Surjection
<1>4. IsFiniteSet(ending \cup ids)
  BY <1>3, FS_Union DEF TypeOK
<1>5. ids \subseteq Ids
  BY DEF TypeOK, Imports
<1>6. QED
  BY <1>1, <1>4, <1>5 DEF TypeOK, Abort

LEMMA BegunType ==
  ASSUME TypeOK, NEW a \in Accounts, NEW version \in 0 .. MaxVersion
  PROVE  /\ Begun(a, version) \in [version : 0 .. MaxVersion, cursor : 0 .. MaxMessage,
                                   status : {"none", "loading", "ready", "error"}]
         /\ Begun(a, version).version = version
BY SecretaryAssumption DEF TypeOK, Begun

\* What one call of ensure() may come to: nothing, the end of the import there
\* is, or a new one in its place.
NewImport(a, version) ==
  [id |-> FreshId, account |-> a, version |-> version, cursor |-> progress'[a].cursor,
   seen |-> remote[a]]

LEMMA EnsureOutcomes ==
  ASSUME TypeOK, NEW a \in Accounts, NEW version \in 0 .. MaxVersion, NEW later,
         Ensure(a, version, later)
  PROVE  /\ ImportsTypeOK' /\ faults' \in 0 .. MaxFaults
         /\ progress'[a] \in {progress[a], Begun(a, version)}
         /\ \A b \in Accounts \ {a} : progress'[b] = progress[b]
         /\ \/ ~Again(version) /\ UNCHANGED importVars
            \/ imports' = imports \ OfJob
            \/ /\ imports' = (imports \ OfJob) \cup {NewImport(a, version)}
               /\ NewImport(a, version) \in Imports
               /\ job' = [id |-> FreshId, version |-> version]
               /\ FreshId \notin ending'
               /\ progress'[a].version = version
<1> DEFINE next == Begun(a, version)
<1> USE DEF ImportsTypeOK
<1>1. /\ OfJob \in SUBSET imports
      /\ next \in [version : 0 .. MaxVersion, cursor : 0 .. MaxMessage,
                   status : {"none", "loading", "ready", "error"}]
      /\ next.version = version
  BY BegunType DEF OfJob
<1>2. CASE ~Again(version) /\ UNCHANGED <<importVars, faults>>
  BY <1>2 DEF importVars, TypeOK
<1>3. CASE /\ Again(version) /\ Abort(OfJob)
           /\ UNCHANGED <<progress, days, job>>
           /\ Fault \/ UNCHANGED faults
  <2>1. faults' \in 0 .. MaxFaults
    BY <1>3, SecretaryAssumption DEF Fault, TypeOK
  <2>2. QED
    BY <1>1, <1>3, <2>1, AbortType DEF TypeOK, Abort
<1>4. ASSUME Again(version), progress' = [progress EXCEPT ![a] = next], UNCHANGED faults,
             \/ next.status = "ready" /\ Abort(OfJob) /\ days' = CompletedBefore(a) /\ UNCHANGED job
             \/ /\ imports' = (imports \ OfJob) \cup
                     {[id |-> FreshId, account |-> a, version |-> version,
                       cursor |-> next.cursor, seen |-> remote[a]]}
                /\ ending' = ending \cup {t.id : t \in OfJob}
                /\ job' = [id |-> FreshId, version |-> version] /\ UNCHANGED days
      PROVE  /\ ImportsTypeOK' /\ faults' \in 0 .. MaxFaults
             /\ progress'[a] \in {progress[a], Begun(a, version)}
             /\ \A b \in Accounts \ {a} : progress'[b] = progress[b]
             /\ \/ imports' = imports \ OfJob
                \/ /\ imports' = (imports \ OfJob) \cup {NewImport(a, version)}
                   /\ NewImport(a, version) \in Imports
                   /\ job' = [id |-> FreshId, version |-> version]
                   /\ FreshId \notin ending'
                   /\ progress'[a].version = version
  <2>1. /\ progress'[a] = next /\ \A b \in Accounts \ {a} : progress'[b] = progress[b]
        /\ progress' \in [Accounts -> [version : 0 .. MaxVersion, cursor : 0 .. MaxMessage,
                                       status : {"none", "loading", "ready", "error"}]]
        /\ faults' \in 0 .. MaxFaults
    BY <1>1, <1>4 DEF TypeOK
  <2>2. CASE Abort(OfJob) /\ days' = CompletedBefore(a) /\ UNCHANGED job
    <3>1. days' \subseteq Accounts
      BY <2>2 DEF CompletedBefore, Enqueued, TypeOK
    <3>2. QED
      BY <1>1, <2>1, <2>2, <3>1, AbortType DEF TypeOK, Abort
  <2>3. CASE /\ imports' = (imports \ OfJob) \cup
                     {[id |-> FreshId, account |-> a, version |-> version,
                       cursor |-> next.cursor, seen |-> remote[a]]}
             /\ ending' = ending \cup {t.id : t \in OfJob}
             /\ job' = [id |-> FreshId, version |-> version] /\ UNCHANGED days
    <3> DEFINE new == NewImport(a, version)
    <3>1. imports' = (imports \ OfJob) \cup {new}
      BY <2>1, <2>3 DEF NewImport
    <3>2. new \in Imports
      BY <1>1, <2>1, FreshIdFacts DEF NewImport, Imports, TypeOK
    <3> HIDE DEF new
    <3>3. IsFiniteSet(imports \ OfJob)
      BY <1>1, FS_Subset DEF TypeOK
    <3>4. imports' \subseteq Imports /\ IsFiniteSet(imports')
      BY <3>1, <3>2, <3>3, FS_AddElement DEF TypeOK
    <3>5. ending' \subseteq Ids /\ IsFiniteSet(ending')
      <4> DEFINE ids == {t.id : t \in OfJob}
                 id == [t \in OfJob |-> t.id]
      <4>1. id \in Surjection(OfJob, ids) /\ ids \subseteq Ids
        BY <1>1 DEF Surjection, TypeOK, Imports
      <4>2. IsFiniteSet(OfJob)
        BY <1>1, FS_Subset DEF TypeOK
      <4>3. IsFiniteSet(ids)
        BY <4>1, <4>2, FS_Surjection
      <4>4. QED
        BY <2>3, <4>1, <4>3, FS_Union DEF TypeOK
    <3>6. job' \in [id : Ids, version : 0 .. MaxVersion] /\ FreshId \notin ending'
      BY <1>1, <2>3, FreshIdFacts
    <3>7. days' \subseteq Accounts
      BY <2>3 DEF TypeOK
    <3>8. QED
      BY <1>1, <2>1, <2>3, <3>1, <3>2, <3>4, <3>5, <3>6, <3>7 DEF new
  <2>4. QED
    BY <1>4, <2>2, <2>3
<1>5. QED
  BY <1>2, <1>3, <1>4 DEF Ensure

LEMMA TypeInit == Init => TypeOK
<1> SUFFICES ASSUME Init PROVE TypeOK
  OBVIOUS
<1>1. IsFiniteSet({})
  BY FS_EmptySet
<1>2. QED
  BY <1>1, SecretaryAssumption DEF Init, TypeOK, NoProgress, NoJob, Chats, States, Contents,
     Deleted, Absent, Messages

\* All other variables, when those of the imports keep their types.
LEMMA OthersType ==
  ASSUME TypeOK, ImportsTypeOK', faults' \in 0 .. MaxFaults,
         observation' \in [Accounts -> [enabled : BOOLEAN, version : 0 .. MaxVersion]],
         {signedIn', accountId'} \subseteq Accounts \cup {NoAccount}, epoch' \in 0 .. MaxEpoch,
         retryLater' \subseteq Accounts,
         UNCHANGED <<remote, oldUpTo, phase, rows, rereads, newest, starts>>
  PROVE  TypeOK'
BY DEF TypeOK, ImportsTypeOK

\* A message that is in the archive stays there.
LEMMA MergedFacts ==
  ASSUME NEW old \in States, NEW content \in Contents \cup {Deleted}
  PROVE  /\ Merged(old, content) \in States /\ Merged(old, content) # Absent
         /\ old = Deleted => Merged(old, content) = Deleted
BY DEF Merged, States, Contents, Deleted, Absent

-----------------------------------------------------------------------------
(* Steps that ask for no new page *)

\* Imports and answers awaited may only go, with the run or without.
LEMMA FewerImports ==
  ASSUME IInv, TypeOK', UNCHANGED <<remote, oldUpTo, newest, progress, rows>>,
         imports' \in SUBSET imports, rereads' \in SUBSET rereads,
         imports' = {} \/ UNCHANGED <<accountId, phase, observation, job>>,
         \A t \in imports' : t.id \notin ending',
         phase' = "open" /\ accountId' # NoAccount => accountId' = signedIn'
  PROVE  IInv'
<1>1. RunInv'
  BY DEF IInv, RunInv, Valid
<1>2. HistoryInv'
  BY DEF IInv, HistoryInv, GaplessUpTo
<1>3. NothingSkipped'
  BY DEF IInv, NothingSkipped
<1>4. QED
  BY <1>1, <1>2, <1>3 DEF IInv

\* Telegram adds, edits and deletes messages, the archive loses none.
LEMMA ChatsMove ==
  ASSUME IInv, TypeOK', UNCHANGED <<oldUpTo, runVars, observation, importVars, newest, signedIn>>,
         \A r \in rereads' : rows'[r.account][r.message] # Absent,
         \A a \in Accounts : \A m \in Messages :
           /\ rows[a][m] # Absent => rows'[a][m] # Absent
           /\ remote[a][m] # Absent => remote'[a][m] # Absent
           /\ remote[a][m] = Deleted => remote'[a][m] = Deleted
           /\ remote'[a][m] \in Contents /\ remote[a][m] \notin Contents => newest[a] < m
           /\ remote'[a][m] # Absent => \A n \in 1 .. m : remote'[a][n] # Absent
  PROVE  IInv'
<1>1. RunInv'
  BY DEF IInv, RunInv, Valid, runVars, importVars
<1>2. HistoryInv'
  <2>1. ASSUME NEW a \in Accounts PROVE GaplessUpTo(remote'[a], newest'[a])
    <3>1. newest'[a] = newest[a] /\ newest[a] \in 0 .. MaxMessage
      BY DEF IInv, TypeOK
    <3>2. 1 .. newest[a] \subseteq Messages
      BY <3>1, SecretaryAssumption DEF Messages
    <3>3. \A m \in 1 .. newest[a] : remote'[a][m] # Absent
      BY <3>2 DEF IInv, HistoryInv, GaplessUpTo
    <3>4. QED
      BY <3>1, <3>3 DEF GaplessUpTo
  <2>2. imports \subseteq Imports /\ \A t \in Imports : t.account \in Accounts
    BY DEF IInv, TypeOK, Imports
  <2>3. imports' = imports /\ newest' = newest
    BY DEF importVars
  <2>4. QED
    BY <2>1, <2>2, <2>3 DEF IInv, HistoryInv
<1>3. NothingSkipped'
  <2> SUFFICES ASSUME NEW a \in Accounts, NEW m \in Messages,
                      remote'[a][m] \in Contents, oldUpTo[a] < m, m <= newest[a],
                      \/ progress[a].status = "ready"
                      \/ progress[a].cursor # 0 /\ progress[a].cursor <= m
               PROVE  rows'[a][m] # Absent
    BY DEF NothingSkipped, importVars
  <2>1. m \in Nat /\ newest[a] \in Nat
    BY SecretaryAssumption DEF Messages, IInv, TypeOK
  <2>2. remote[a][m] \in Contents
    BY <2>1
  <2>3. QED
    BY <2>2 DEF IInv, NothingSkipped
<1>4. QED
  BY <1>1, <1>2, <1>3 DEF IInv

-----------------------------------------------------------------------------
(* ensure() and what calls it *)

\* With the switch of its chat on, ensure() leaves one import at most: the one
\* there was, if it is of this version, or one that goes on where the progress
\* says.
LEMMA EnsureKeeps ==
  ASSUME IInv, TypeOK', NEW a \in Accounts, NEW version \in 0 .. MaxVersion, NEW later,
         Ensure(a, version, later),
         UNCHANGED <<remoteVars, phase, rows, rereads, newest>>,
         phase = "open", signedIn = a, accountId' = a,
         \A t \in imports : t.account = a,
         observation'[a] = [enabled |-> TRUE, version |-> version]
  PROVE  IInv'
<1>1. imports \ OfJob = {}
  BY DEF IInv, RunInv, OfJob
<1>2. /\ progress'[a] \in {progress[a], Begun(a, version)}
      /\ \A b \in Accounts \ {a} : progress'[b] = progress[b]
      /\ \/ ~Again(version) /\ UNCHANGED importVars
         \/ imports' = {}
         \/ /\ imports' = {NewImport(a, version)} /\ NewImport(a, version) \in Imports
            /\ job' = [id |-> FreshId, version |-> version]
            /\ FreshId \notin ending' /\ progress'[a].version = version
  BY <1>1, EnsureOutcomes DEF IInv
<1>3. \A r \in rereads' : rows'[r.account][r.message] # Absent
  BY DEF IInv, RunInv
<1>4. RunInv' /\ HistoryInv'
  <2>1. CASE ~Again(version) /\ UNCHANGED importVars
    <3>1. \A t \in imports : t.version = version /\ t.account = a
      BY <2>1 DEF Again, IInv, RunInv
    <3>2. RunInv'
      BY <1>3, <2>1, <3>1 DEF IInv, RunInv, Valid, importVars, remoteVars
    <3>3. HistoryInv'
      BY <2>1 DEF IInv, HistoryInv, GaplessUpTo, importVars, remoteVars
    <3>4. QED
      BY <3>2, <3>3
  <2>2. CASE imports' = {}
    BY <1>3, <2>2 DEF IInv, RunInv, HistoryInv, GaplessUpTo, remoteVars
  <2>3. CASE /\ imports' = {NewImport(a, version)} /\ NewImport(a, version) \in Imports
             /\ job' = [id |-> FreshId, version |-> version]
             /\ FreshId \notin ending' /\ progress'[a].version = version
    <3> DEFINE t == NewImport(a, version)
    <3>1. /\ t.account = a /\ t.version = version /\ t.id = FreshId /\ t.seen = remote[a]
          /\ t.cursor = progress'[a].cursor
      BY DEF NewImport
    <3> HIDE DEF t
    <3>2. imports' = {t}
      BY <2>3 DEF t
    <3>3. RunInv'
      BY <1>3, <2>3, <3>1, <3>2 DEF RunInv, Valid, remoteVars
    <3>4. GaplessUpTo(t.seen, newest[a]) /\ GaplessUpTo(t.seen, 0)
      BY <3>1 DEF IInv, HistoryInv, GaplessUpTo
    <3>5. HistoryInv'
      BY <3>1, <3>2, <3>4 DEF IInv, HistoryInv, GaplessUpTo, remoteVars
    <3>6. QED
      BY <3>3, <3>5
  <2>4. QED
    BY <1>2, <2>1, <2>2, <2>3
<1>5. NothingSkipped'
  <2>1. \/ progress'[a] = progress[a]
        \/ progress'[a].cursor = 0 /\ progress'[a].status = "loading"
    BY <1>2 DEF Begun
  <2>2. QED
    BY <1>2, <2>1 DEF IInv, NothingSkipped, remoteVars
<1>6. QED
  BY <1>4, <1>5 DEF IInv

\* refresh() and those that call it, for the account of the run.
LEMMA EnsureObservedKeeps ==
  ASSUME IInv, NEW a \in Accounts, NEW later, EnsureObserved(a, later),
         retryLater' \subseteq Accounts, epoch' \in 0 .. MaxEpoch,
         UNCHANGED <<remoteVars, phase, rows, observation, rereads, newest, starts>>,
         phase = "open", signedIn = a, accountId' = a,
         \A t \in imports : t.account = a /\ accountId = a
  PROVE  IInv'
<1>1. /\ observation[a] \in [enabled : BOOLEAN, version : 0 .. MaxVersion]
      /\ observation[a].version \in 0 .. MaxVersion
  BY DEF IInv, TypeOK
<1>2. CASE observation[a].enabled
  <2>1. Ensure(a, observation[a].version, later)
    BY <1>2 DEF EnsureObserved
  <2>2. ImportsTypeOK' /\ faults' \in 0 .. MaxFaults
    BY <1>1, <2>1, EnsureOutcomes DEF IInv
  <2>3. TypeOK'
    BY <2>2, OthersType DEF IInv, TypeOK, remoteVars
  <2>4. observation'[a] = [enabled |-> TRUE, version |-> observation[a].version]
    BY <1>1, <1>2
  <2>5. QED
    BY <1>1, <2>1, <2>3, <2>4, EnsureKeeps
<1>3. CASE ~observation[a].enabled
  <2>1. UNCHANGED <<importVars, faults>>
    BY <1>3 DEF EnsureObserved
  <2>2. imports = {}
    <3> SUFFICES ASSUME NEW t \in imports PROVE FALSE
      OBVIOUS
    <3>1. observation[a] = [enabled |-> TRUE, version |-> t.version]
      BY DEF IInv, RunInv, Valid
    <3>2. QED
      BY <1>3, <3>1
  <2>3. TypeOK'
    BY <2>1, OthersType DEF IInv, TypeOK, ImportsTypeOK, importVars, remoteVars
  <2>4. QED
    BY <2>1, <2>2, <2>3, FewerImports DEF importVars, remoteVars
<1>4. QED
  BY <1>2, <1>3

LEMMA RefreshStep ==
  ASSUME IInv, AccountKnown \/ Refresh \/ Resume PROVE IInv'
<1>1. CASE AccountKnown
  <2>1. imports = {} /\ signedIn \in Accounts
    <3>1. \A t \in imports : t.account \in Accounts /\ t.account = NoAccount
      BY <1>1 DEF AccountKnown, IInv, TypeOK, Imports, RunInv
    <3>2. QED
      BY <1>1, <3>1, SecretaryAssumption DEF AccountKnown, IInv, TypeOK
  <2>2. epoch' \in 0 .. MaxEpoch
    BY <1>1, SecretaryAssumption DEF AccountKnown, IInv, TypeOK
  <2>3. QED
    BY <1>1, <2>1, <2>2, EnsureObservedKeeps DEF AccountKnown, IInv, TypeOK
<1>2. CASE Refresh \/ Resume
  <2>1. /\ accountId \in Accounts /\ accountId = signedIn
        /\ \A t \in imports : t.account = accountId
    BY <1>2 DEF Refresh, Resume, IInv, TypeOK, RunInv
  <2>2. QED
    BY <1>2, <2>1, EnsureObservedKeeps DEF Refresh, Resume, IInv, TypeOK, runVars
<1>3. QED
  BY <1>1, <1>2

LEMMA SwitchStep ==
  ASSUME IInv, NEW enabled \in BOOLEAN, SetObservation(enabled) PROVE IInv'
<1> DEFINE a == accountId
           old == observation[a]
           new == IF old.enabled = enabled THEN old
                  ELSE [enabled |-> enabled, version |-> old.version + 1]
<1>1. /\ a \in Accounts /\ a = signedIn /\ phase = "open"
      /\ \A t \in imports : t.account = a
  BY DEF SetObservation, IInv, TypeOK, RunInv
<1>2. /\ new \in [enabled : BOOLEAN, version : 0 .. MaxVersion] /\ new.enabled = enabled
      /\ new.version \in 0 .. MaxVersion
      /\ observation' = [observation EXCEPT ![a] = new]
  BY <1>1, SecretaryAssumption DEF SetObservation, IInv, TypeOK
<1>3. observation'[a] = new /\ new = [enabled |-> enabled, version |-> new.version]
  BY <1>1, <1>2 DEF IInv, TypeOK
<1>4. observation' \in [Accounts -> [enabled : BOOLEAN, version : 0 .. MaxVersion]]
  BY <1>2 DEF IInv, TypeOK
<1>5. CASE enabled
  <2>1. Ensure(a, new.version, retryLater)
    BY <1>5 DEF SetObservation
  <2> HIDE DEF a, new
  <2>2. ImportsTypeOK' /\ faults' \in 0 .. MaxFaults
    BY <1>1, <1>2, <2>1, EnsureOutcomes DEF IInv
  <2>3. TypeOK'
    BY <1>4, <2>2, OthersType DEF IInv, TypeOK, remoteVars, runVars, SetObservation
  <2>4. UNCHANGED <<remoteVars, phase, rows, rereads, newest>> /\ accountId' = a
    BY DEF SetObservation, runVars, a
  <2>5. QED
    BY <1>1, <1>2, <1>3, <1>5, <2>1, <2>3, <2>4, EnsureKeeps
<1>6. CASE ~enabled
  <2>1. Abort(OfJob) /\ UNCHANGED <<progress, days, job, faults>>
    BY <1>6 DEF SetObservation
  <2>2. OfJob \in SUBSET imports /\ imports' = {}
    BY <2>1 DEF Abort, OfJob, IInv, RunInv
  <2>3. ImportsTypeOK'
    BY <2>1, <2>2, AbortType DEF ImportsTypeOK, IInv, TypeOK
  <2> HIDE DEF a, new
  <2>4. TypeOK'
    BY <1>4, <2>1, <2>3, OthersType DEF IInv, TypeOK, remoteVars, runVars, SetObservation
  <2>5. QED
    BY <2>1, <2>2, <2>4, FewerImports DEF SetObservation, remoteVars, runVars, IInv, RunInv
<1>7. QED
  BY <1>5, <1>6

-----------------------------------------------------------------------------
(* The run, the process, and failures *)

LEMMA SessionStep ==
  ASSUME IInv, SignsIn \/ SignsOut \/ RetryComesDue \/ AbortedEnds \/ Close \/ Closed \/ Restart
  PROVE  IInv'
<1>1. CASE SignsIn \/ RetryComesDue \/ Closed
  <2>1. TypeOK'
    BY <1>1 DEF SignsIn, RetryComesDue, Closed, IInv, TypeOK, runVars, importVars, counters,
       remoteVars
  <2>2. phase' = "open" /\ accountId' # NoAccount => accountId' = signedIn'
    BY <1>1 DEF SignsIn, RetryComesDue, Closed, IInv, RunInv, runVars, remoteVars
  <2>3. imports' = {} \/ UNCHANGED <<accountId, phase, observation, job>>
    BY <1>1 DEF SignsIn, RetryComesDue, Closed, IInv, RunInv, runVars, importVars
  <2>4. \A t \in imports' : t.id \notin ending'
    BY <1>1 DEF SignsIn, RetryComesDue, Closed, IInv, RunInv, runVars, importVars
  <2>5. QED
    BY <1>1, <2>1, <2>2, <2>3, <2>4, FewerImports
       DEF SignsIn, RetryComesDue, Closed, remoteVars, importVars
<1>2. CASE SignsOut
  <2>1. imports' = {} /\ imports' \in SUBSET imports
    <3>1. \A t \in imports : phase = "open" /\ accountId \in Accounts
      BY DEF IInv, TypeOK, Imports, RunInv
    <3>2. QED
      BY <1>2, <3>1, SecretaryAssumption DEF SignsOut, Abort
  <2>2. /\ imports' \subseteq Imports /\ IsFiniteSet(imports')
        /\ ending' \subseteq Ids /\ IsFiniteSet(ending')
    BY <1>2, AbortType DEF SignsOut, IInv, TypeOK
  <2>3. epoch' \in 0 .. MaxEpoch /\ {signedIn', accountId'} \subseteq Accounts \cup {NoAccount}
    BY <1>2, SecretaryAssumption DEF SignsOut, IInv, TypeOK
  <2>4. TypeOK'
    BY <1>2, <2>2, <2>3 DEF SignsOut, IInv, TypeOK, counters
  <2>5. QED
    BY <1>2, <2>1, <2>4, FewerImports DEF SignsOut, IInv, RunInv
<1>3. CASE AbortedEnds
  <2>1. PICK id \in ending : ending' = ending \ {id} /\ Forgets(id)
    BY <1>3 DEF AbortedEnds
  <2>2. IsFiniteSet(ending')
    BY <2>1, FS_Subset DEF IInv, TypeOK
  <2>3. TypeOK'
    BY <1>3, <2>1, <2>2 DEF AbortedEnds, Forgets, IInv, TypeOK, remoteVars, runVars, counters
  <2>4. imports' = {} \/ job' = job
    BY <1>3, <2>1 DEF AbortedEnds, Forgets, IInv, RunInv
  <2>5. QED
    BY <1>3, <2>1, <2>3, <2>4, FewerImports DEF AbortedEnds, IInv, RunInv, remoteVars, runVars
<1>4. CASE Close
  <2>1. /\ imports' \subseteq Imports /\ IsFiniteSet(imports')
        /\ ending' \subseteq Ids /\ IsFiniteSet(ending')
    BY <1>4, AbortType DEF Close, IInv
  <2>2. TypeOK'
    BY <1>4, <2>1 DEF Close, IInv, TypeOK, remoteVars, counters
  <2>3. imports' = {}
    BY <1>4 DEF Close, Abort
  <2>4. QED
    BY <1>4, <2>2, <2>3, FewerImports DEF Close, remoteVars
<1>5. CASE Restart
  <2>1. TypeOK'
    BY <1>5, FS_EmptySet, SecretaryAssumption DEF Restart, NewProcess, IInv, TypeOK
  <2>2. QED
    BY <1>5, <2>1, FewerImports DEF Restart, NewProcess
<1>6. QED
  BY <1>1, <1>2, <1>3, <1>4, <1>5

-----------------------------------------------------------------------------
(* Updates of Telegram *)

LEMMA SaveUpdateFacts ==
  ASSUME TypeOK, NEW a \in Accounts, NEW m \in Messages, NEW content \in Contents \cup {Deleted},
         SaveUpdate(a, m, content)
  PROVE  /\ rows' \in [Accounts -> Chats] /\ faults' \in 0 .. MaxFaults
         /\ \A b \in Accounts : \A n \in Messages :
              /\ rows[b][n] # Absent => rows'[b][n] # Absent
              /\ rows[b][n] = Deleted => rows'[b][n] = Deleted
              /\ rows'[b][n] # rows[b][n] => b = a /\ n = m /\ rows'[b][n] = content
<1>1. CASE rows' = [rows EXCEPT ![a][m] = Merged(@, content)] /\ UNCHANGED faults
  <2>1. rows[a][m] \in States /\ rows[a] \in Chats
    BY DEF TypeOK, Chats
  <2>2. rows' \in [Accounts -> Chats]
    BY <1>1, <2>1, MergedFacts DEF TypeOK, Chats
  <2>3. \A b \in Accounts : \A n \in Messages :
          rows'[b][n] = IF b = a /\ n = m THEN Merged(rows[a][m], content) ELSE rows[b][n]
    BY <1>1 DEF TypeOK, Chats
  <2>4. Merged(rows[a][m], content) \in {rows[a][m], content}
    BY DEF Merged
  <2>5. QED
    BY <1>1, <2>1, <2>2, <2>3, <2>4, MergedFacts DEF TypeOK
<1>2. CASE Fault /\ UNCHANGED rows
  BY <1>2, SecretaryAssumption DEF Fault, TypeOK
<1>3. QED
  BY <1>1, <1>2 DEF SaveUpdate

\* What an update does to the rows, saved or not.
RowsOnly ==
  /\ rows' \in [Accounts -> Chats] /\ faults' \in 0 .. MaxFaults
  /\ \A b \in Accounts : \A n \in Messages :
       /\ rows[b][n] # Absent => rows'[b][n] # Absent
       /\ rows[b][n] = Deleted => rows'[b][n] = Deleted

LEMMA UpdateStep ==
  ASSUME IInv, NewMessage \/ MessageContent \/ DeleteMessages \/ Reread
  PROVE  IInv' /\ RowsOnly
<1>1. CASE Reread
  <2>1. PICK r \in rereads :
          /\ rereads' = rereads \ {r}
          /\ \/ SaveUpdate(r.account, r.message, "edited")
             \/ UNCHANGED <<rows, faults>>
             \/ Fault /\ UNCHANGED rows
          /\ UNCHANGED <<remoteVars, runVars, observation, importVars, retryLater, newest, starts>>
    BY <1>1 DEF Reread
  <2>2. r.account \in Accounts /\ r.message \in Messages /\ "edited" \in Contents
    BY DEF IInv, TypeOK, Contents
  <2>3. RowsOnly
    BY <2>1, <2>2, SaveUpdateFacts, SecretaryAssumption DEF IInv, TypeOK, RowsOnly, Fault
  <2>4. TypeOK'
    BY <2>1, <2>3 DEF IInv, TypeOK, RowsOnly, remoteVars, runVars, importVars
  <2>5. \A q \in rereads' : rows'[q.account][q.message] # Absent
    <3> TAKE q \in rereads'
    <3>1. q \in rereads /\ q.account \in Accounts /\ q.message \in Messages
      BY <2>1 DEF IInv, TypeOK
    <3>2. QED
      BY <2>3, <3>1 DEF RowsOnly, IInv, RunInv
  <2>6. \A a \in Accounts : \A m \in Messages :
          remote[a][m] # Absent => \A n \in 1 .. m : remote[a][n] # Absent
    BY DEF IInv, HistoryInv, GaplessUpTo
  <2>7. UNCHANGED <<remote, signedIn, oldUpTo, runVars, observation, importVars, newest>>
    BY <2>1 DEF remoteVars
  <2>8. IInv'
    BY <2>3, <2>4, <2>5, <2>6, <2>7, ChatsMove DEF RowsOnly
  <2>9. QED
    BY <2>3, <2>8
<1>2. CASE NewMessage \/ MessageContent \/ DeleteMessages
  <2> DEFINE a == signedIn
  <2>1. PICK m \in Messages, content \in Contents \cup {Deleted} :
          /\ remote' = [remote EXCEPT ![a][m] = content]
          /\ \/ remote[a][m] = Absent /\ \A n \in Messages : n < m => remote[a][n] # Absent
             \/ remote[a][m] \in Contents
          /\ \/ SaveUpdate(a, m, content) /\ UNCHANGED rereads
             \/ UNCHANGED <<rows, faults, rereads>>
             \/ /\ rows[a][m] # Absent /\ UNCHANGED <<rows, faults>>
                /\ rereads' = rereads \cup {[account |-> a, message |-> m]}
          /\ UNCHANGED <<oldUpTo, signedIn, runVars, observation, importVars, retryLater, newest,
                         starts>>
    <3>1. CASE NewMessage
      BY <1>2, <3>1 DEF NewMessage, Contents
    <3>2. CASE MessageContent
      BY <1>2, <3>2 DEF MessageContent, Contents, counters
    <3>3. CASE DeleteMessages
      BY <1>2, <3>3 DEF DeleteMessages
    <3>4. QED
      BY <1>2, <3>1, <3>2, <3>3
  <2>2. a \in Accounts
    BY <1>2 DEF NewMessage, MessageContent, DeleteMessages, IInv, TypeOK
  <2> HIDE DEF a
  <2>3. RowsOnly
    BY <2>1, <2>2, SaveUpdateFacts DEF IInv, TypeOK, RowsOnly
  <2>4. /\ remote' \in [Accounts -> Chats]
        /\ \A b \in Accounts : \A n \in Messages :
             remote'[b][n] = IF b = a /\ n = m THEN content ELSE remote[b][n]
    BY <2>1, <2>2 DEF IInv, TypeOK, Chats, States
  <2>5. TypeOK'
    BY <2>1, <2>2, <2>3, <2>4 DEF IInv, TypeOK, RowsOnly, runVars, importVars
  <2>6. \A r \in rereads' : rows'[r.account][r.message] # Absent
    <3> TAKE r \in rereads'
    <3>1. /\ r.account \in Accounts /\ r.message \in Messages
          /\ r \in rereads \/ (r.account = a /\ r.message = m /\ rows[a][m] # Absent)
      BY <2>1, <2>2 DEF IInv, TypeOK
    <3>2. QED
      BY <2>3, <3>1 DEF RowsOnly, IInv, RunInv
  <2>7. ASSUME NEW b \in Accounts, NEW n \in Messages
        PROVE  /\ rows[b][n] # Absent => rows'[b][n] # Absent
               /\ remote[b][n] # Absent => remote'[b][n] # Absent
               /\ remote[b][n] = Deleted => remote'[b][n] = Deleted
               /\ remote'[b][n] \in Contents /\ remote[b][n] \notin Contents => newest[b] < n
               /\ remote'[b][n] # Absent => \A k \in 1 .. n : remote'[b][k] # Absent
    <3>1. content # Absent /\ Absent # Deleted /\ \A c \in Contents : c # Deleted /\ c # Absent
      BY DEF Contents, Deleted, Absent
    <3>2. /\ newest[b] \in Nat /\ n \in Nat /\ m \in Nat
          /\ \A k \in 1 .. n : k \in Messages /\ k \in Nat
      BY SecretaryAssumption DEF IInv, TypeOK, Messages
    <3>3. \A k \in 1 .. newest[b] : remote[b][k] # Absent
      BY DEF IInv, HistoryInv, GaplessUpTo
    <3>4. remote[b][n] # Absent => \A k \in 1 .. n : remote[b][k] # Absent
      BY DEF IInv, HistoryInv, GaplessUpTo
    <3>5. remote[b][n] = Absent => newest[b] < n
      BY <3>2, <3>3 DEF Messages
    <3>6. remote'[b][n] # Absent => \A k \in 1 .. n : remote'[b][k] # Absent
      BY <2>1, <2>4, <3>1, <3>2, <3>4
    <3>7. QED
      BY <2>1, <2>3, <2>4, <3>1, <3>5, <3>6 DEF RowsOnly
  <2>8. IInv'
    BY <2>1, <2>5, <2>6, <2>7, ChatsMove
  <2>9. QED
    BY <2>3, <2>8
<1>3. QED
  BY <1>1, <1>2

-----------------------------------------------------------------------------
(* Pages *)

\* A page has the newest messages below the cursor, without a gap, and at
\* least one if there is any.
LEMMA PageFacts ==
  ASSUME NEW t, NEW chat, NEW page \in Pages(t, chat)
  PROVE  /\ page \subseteq Messages /\ \A m \in page : chat[m] \in Contents
         /\ \A n \in Messages :
              chat[n] \in Contents /\ (t.cursor # 0 => n < t.cursor)
                => page # {} /\ (n \in page \/ \A m \in page : n < m)
<1> DEFINE below == {m \in Messages : chat[m] \in Contents /\ (t.cursor # 0 => m < t.cursor)}
<1>1. CASE below = {}
  BY <1>1 DEF Pages
<1>2. CASE below # {}
  <2>1. /\ page \in SUBSET below /\ Cardinality(page) \in 1 .. PageSize
        /\ \A m \in page, n \in below \ page : n < m
    BY <1>2 DEF Pages
  <2>2. page # {}
    BY <2>1, FS_EmptySet
  <2>3. QED
    BY <2>1, <2>2
<1>3. QED
  BY <1>1, <1>2

LEMMA CursorFacts ==
  ASSUME NEW t, NEW chat, NEW page \in Pages(t, chat), t.cursor \in 0 .. MaxMessage
  PROVE  /\ Cursor(t, page) \in 0 .. MaxMessage
         /\ page # {} => Cursor(t, page) \in page /\ \A m \in page : Cursor(t, page) <= m
<1>1. page \in SUBSET Nat /\ page \subseteq 0 .. MaxMessage
  BY PageFacts, SecretaryAssumption DEF Messages
<1>2. QED
  BY <1>1, MinFacts DEF Cursor

\* The messages of a page are written, and nothing else.
LEMMA SavedFacts ==
  ASSUME TypeOK, NEW t \in imports, NEW chat \in {t.seen, remote[t.account]},
         NEW page \in Pages(t, chat), SaveMessages(t, page, chat)
  PROVE  /\ t \in Imports /\ t.account \in Accounts /\ chat \in Chats
         /\ rows' \in [Accounts -> Chats]
         /\ \A a \in Accounts : \A m \in Messages :
              /\ rows[a][m] # Absent => rows'[a][m] # Absent
              /\ rows[a][m] = Deleted => rows'[a][m] = Deleted
              /\ rows[a][m] # rows'[a][m] => a = t.account
              /\ a = t.account /\ m \in page /\ oldUpTo[a] < m => rows'[a][m] # Absent
<1> DEFINE a == t.account
<1>1. t \in Imports /\ a \in Accounts /\ chat \in Chats
  BY DEF TypeOK, Imports
<1>2. rows' = [rows EXCEPT ![a] = [m \in Messages |->
                 IF m \in page /\ m > oldUpTo[a] THEN Merged(rows[a][m], chat[m]) ELSE rows[a][m]]]
  BY DEF SaveMessages
<1> HIDE DEF a
<1>3. \A m \in Messages : rows[a][m] \in States /\ (m \in page => chat[m] \in Contents)
  BY <1>1, PageFacts DEF TypeOK, Chats
<1>4. rows' \in [Accounts -> Chats]
  BY <1>1, <1>2, <1>3, MergedFacts DEF TypeOK, Chats
<1>5. \A b \in Accounts : \A m \in Messages :
        rows'[b][m] = IF b = a /\ m \in page /\ m > oldUpTo[a]
                      THEN Merged(rows[a][m], chat[m]) ELSE rows[b][m]
  BY <1>1, <1>2 DEF TypeOK, Chats
<1>6. \A m \in Messages : m > oldUpTo[a] <=> oldUpTo[a] < m
  BY <1>1, SecretaryAssumption DEF TypeOK, Messages
<1>7. QED
  BY <1>1, <1>3, <1>4, <1>5, <1>6, MergedFacts DEF a

\* The newest message when the first page came.
LEMMA NewestFacts ==
  ASSUME TypeOK, NEW t \in imports, NEW chat \in {t.seen, remote[t.account]},
         NEW page, SaveMessages(t, page, chat)
  PROVE  /\ newest' \in [Accounts -> 0 .. MaxMessage]
         /\ \A a \in Accounts : a # t.account \/ t.cursor # 0 => newest'[a] = newest[a]
         /\ t.cursor = 0 /\ newest'[t.account] # 0
              => newest'[t.account] \in Messages /\ chat[newest'[t.account]] # Absent
<1> DEFINE a == t.account
           sent == {m \in Messages : chat[m] # Absent}
<1>1. a \in Accounts /\ sent \subseteq 1 .. MaxMessage
  BY DEF TypeOK, Imports, Messages
<1>2. Max({0} \cup sent) \in {0} \cup sent
  <2>1. {0} \cup sent \in SUBSET (0 .. MaxMessage) /\ MaxMessage \in Nat
    BY <1>1, SecretaryAssumption
  <2>2. {0} \cup sent # {}
    OBVIOUS
  <2> HIDE DEF sent
  <2>3. QED
    BY <2>1, <2>2, MaxFacts
<1>3. newest' = [newest EXCEPT ![a] = IF t.cursor = 0 THEN Max({0} \cup sent) ELSE newest[a]]
  BY <1>1 DEF SaveMessages, TypeOK
<1>4. {0} \cup sent \subseteq 0 .. MaxMessage
  BY <1>1, SecretaryAssumption
<1> HIDE DEF a
<1>5. newest' \in [Accounts -> 0 .. MaxMessage]
  BY <1>1, <1>2, <1>3, <1>4 DEF TypeOK
<1>6. /\ \A b \in Accounts : b # a \/ t.cursor # 0 => newest'[b] = newest[b]
      /\ t.cursor = 0 => newest'[a] \in {0} \cup sent
  BY <1>1, <1>2, <1>3 DEF TypeOK
<1>7. QED
  BY <1>5, <1>6 DEF a

\* What a saved page leaves, whatever becomes of its import.
LEMMA PageSaved ==
  ASSUME IInv, NEW t \in imports, NEW chat \in {t.seen, remote[t.account]},
         NEW page \in Pages(t, chat), SaveMessages(t, page, chat),
         NEW status \in {"loading", "ready", "error"}, status = "ready" => Complete(t, page),
         progress' = [progress EXCEPT ![t.account].cursor = Cursor(t, page),
                                      ![t.account].status = status],
         UNCHANGED <<remote, oldUpTo>>
  PROVE  /\ \A a \in Accounts : GaplessUpTo(remote[a], newest'[a])
         /\ NothingSkipped'
         /\ progress' \in [Accounts -> [version : 0 .. MaxVersion, cursor : 0 .. MaxMessage,
                                        status : {"none", "loading", "ready", "error"}]]
         /\ progress'[t.account].cursor = Cursor(t, page)
         /\ progress'[t.account].version = t.version
<1> DEFINE a == t.account
<1>1. /\ a \in Accounts /\ t.cursor \in 0 .. MaxMessage
      /\ Cursor(t, page) \in 0 .. MaxMessage
  BY CursorFacts DEF IInv, TypeOK, Imports
<1>2. /\ progress' \in [Accounts -> [version : 0 .. MaxVersion, cursor : 0 .. MaxMessage,
                                     status : {"none", "loading", "ready", "error"}]]
      /\ \A b \in Accounts \ {a} : progress'[b] = progress[b]
      /\ progress'[a].cursor = Cursor(t, page) /\ progress'[a].status = status
      /\ progress'[a].version = progress[a].version
  BY <1>1 DEF IInv, TypeOK
<1>3. progress[a].version = t.version /\ progress[a].cursor = t.cursor
  BY DEF IInv, RunInv
<1>4. /\ newest' \in [Accounts -> 0 .. MaxMessage]
      /\ \A b \in Accounts : b # a \/ t.cursor # 0 => newest'[b] = newest[b]
      /\ t.cursor = 0 /\ newest'[a] # 0 => newest'[a] \in Messages /\ chat[newest'[a]] # Absent
  <2>1. TypeOK
    BY DEF IInv
  <2>2. QED
    BY <2>1, NewestFacts
<1>5. chat \in Chats
  BY SavedFacts DEF IInv
<1> HIDE DEF a
<1>6. ASSUME NEW m \in Messages, 0 < newest'[a], m <= newest'[a]
      PROVE  chat[m] # Absent /\ remote[a][m] # Absent
  <2>1. m \in 1 .. newest'[a] /\ newest'[a] \in Nat
    BY <1>1, <1>4, <1>6, SecretaryAssumption DEF Messages
  <2>2. \A n \in Messages : chat[n] # Absent => remote[a][n] # Absent
    BY DEF IInv, HistoryInv, a
  <2>3. chat[m] # Absent
    <3>1. CASE t.cursor = 0
      <4>1. newest'[a] \in Messages /\ chat[newest'[a]] # Absent
        BY <1>4, <2>1, <3>1
      <4>2. \A n \in Messages : chat[n] # Absent => \A k \in 1 .. n : chat[k] # Absent
        BY <1>1 DEF IInv, HistoryInv, GaplessUpTo, a
      <4>3. QED
        BY <2>1, <4>1, <4>2
    <3>2. CASE t.cursor # 0
      <4>1. newest'[a] = newest[a]
        BY <1>1, <1>4, <3>2
      <4>2. GaplessUpTo(chat, newest[a])
        BY <1>1, <3>2 DEF IInv, HistoryInv, a
      <4>3. QED
        BY <2>1, <4>1, <4>2 DEF GaplessUpTo
    <3>3. QED
      BY <3>1, <3>2
  <2>4. QED
    BY <2>2, <2>3
<1>7. ASSUME NEW b \in Accounts PROVE GaplessUpTo(remote[b], newest'[b])
  <2>1. newest'[b] \in 0 .. MaxMessage /\ (b # a => newest'[b] = newest[b])
    BY <1>4
  <2>2. \A m \in 1 .. newest'[a] : m \in Messages /\ 0 < newest'[a] /\ m <= newest'[a]
    BY <1>1, <1>4, SecretaryAssumption DEF Messages
  <2>3. b = a => \A m \in 1 .. newest'[b] : remote[b][m] # Absent
    BY <1>6, <2>2
  <2>4. QED
    BY <2>1, <2>3 DEF IInv, HistoryInv, GaplessUpTo
<1>8. NothingSkipped'
  <2> SUFFICES ASSUME NEW b \in Accounts, NEW m \in Messages,
                      remote[b][m] \in Contents, oldUpTo[b] < m, m <= newest'[b],
                      \/ progress'[b].status = "ready"
                      \/ progress'[b].cursor # 0 /\ progress'[b].cursor <= m
               PROVE  rows'[b][m] # Absent
    BY DEF NothingSkipped
  <2>1. rows[b][m] # Absent => rows'[b][m] # Absent
    BY SavedFacts DEF IInv
  <2>2. CASE b # a
    <3>1. newest'[b] = newest[b] /\ progress'[b] = progress[b]
      BY <1>2, <1>4, <2>2
    <3>2. QED
      BY <2>1, <3>1 DEF IInv, NothingSkipped
  <2>3. CASE b = a /\ t.cursor # 0 /\ t.cursor <= m
    <3>1. newest'[b] = newest[b] /\ progress[b].cursor = t.cursor
      BY <1>1, <1>3, <1>4, <2>3
    <3>2. QED
      BY <2>1, <2>3, <3>1 DEF IInv, NothingSkipped
  <2>4. CASE b = a /\ (t.cursor # 0 => m < t.cursor)
    <3>1. m \in Nat /\ newest'[a] \in Nat /\ oldUpTo[a] \in Nat /\ 0 < m /\ 0 < newest'[a]
      BY <1>1, <1>4, <2>4, SecretaryAssumption DEF IInv, TypeOK, Messages
    <3>2. chat[m] # Absent
      BY <1>6, <2>4, <3>1
    <3>3. chat[m] # Deleted
      BY <2>4 DEF IInv, HistoryInv, a, Contents, Deleted
    <3>4. chat[m] \in Contents
      BY <1>5, <3>2, <3>3 DEF Chats, States
    <3>5. page # {} /\ (m \in page \/ \A n \in page : m < n)
      BY <2>4, <3>4, PageFacts
    <3>6. page \subseteq Nat
      BY PageFacts, SecretaryAssumption DEF Messages
    <3>7. Cursor(t, page) \in page /\ \A n \in page : Cursor(t, page) <= n
      BY <1>1, <3>5, CursorFacts
    <3>8. \E n \in page : n <= m
      <4>1. CASE status = "ready"
        <5>1. PICK n \in page : n <= oldUpTo[a]
          BY <3>5, <4>1 DEF Complete, a
        <5>2. QED
          BY <2>4, <3>1, <3>6, <5>1
      <4>2. CASE status # "ready"
        BY <1>2, <2>4, <3>7, <4>2
      <4>3. QED
        BY <4>1, <4>2
    <3>9. m \in page
      BY <3>1, <3>5, <3>6, <3>8
    <3>10. QED
      BY <1>1, <2>4, <3>9, SavedFacts DEF IInv, a
  <2>5. m \in Nat /\ t.cursor \in Nat
    BY <1>1, SecretaryAssumption DEF Messages
  <2>6. QED
    BY <2>2, <2>3, <2>4, <2>5
<1>9. QED
  BY <1>2, <1>3, <1>7, <1>8 DEF a

\* The variables of the archive keep their types over a saved page.
LEMMA PageSavedType ==
  ASSUME IInv, NEW t \in imports, NEW chat \in {t.seen, remote[t.account]},
         NEW page \in Pages(t, chat), SaveMessages(t, page, chat)
  PROVE  rows' \in [Accounts -> Chats] /\ newest' \in [Accounts -> 0 .. MaxMessage]
<1>1. TypeOK
  BY DEF IInv
<1>2. QED
  BY <1>1, SavedFacts, NewestFacts

LEMMA RereadsStay ==
  ASSUME IInv, rereads' \in SUBSET rereads,
         \A a \in Accounts : \A m \in Messages : rows[a][m] # Absent => rows'[a][m] # Absent
  PROVE  \A r \in rereads' : rows'[r.account][r.message] # Absent
<1> TAKE r \in rereads'
<1>1. r \in rereads /\ r.account \in Accounts /\ r.message \in Messages
  BY DEF IInv, TypeOK
<1>2. QED
  BY <1>1 DEF IInv, RunInv

\* The last page of an import, or the end of the process in its place.
LEMMA LastPage ==
  ASSUME IInv, TypeOK', NEW t \in imports, NEW chat \in {t.seen, remote[t.account]},
         NEW page \in Pages(t, chat), SaveMessages(t, page, chat),
         NEW status \in {"loading", "ready", "error"}, status = "ready" => Complete(t, page),
         progress' = [progress EXCEPT ![t.account].cursor = Cursor(t, page),
                                      ![t.account].status = status],
         UNCHANGED <<remote, oldUpTo>>, imports' = {}, rereads' \in SUBSET rereads,
         phase' = "open" /\ accountId' # NoAccount => accountId' = signedIn'
  PROVE  IInv'
<1>1. /\ \A a \in Accounts : GaplessUpTo(remote[a], newest'[a])
      /\ NothingSkipped'
  BY PageSaved
<1>2. RunInv'
  <2>1. TypeOK /\ page \in Pages(t, chat)
    BY DEF IInv
  <2>2. \A a \in Accounts : \A m \in Messages : rows[a][m] # Absent => rows'[a][m] # Absent
    BY <2>1, SavedFacts
  <2>3. QED
    BY <2>2, RereadsStay DEF RunInv
<1>3. HistoryInv'
  BY <1>1 DEF HistoryInv, GaplessUpTo
<1>4. QED
  BY <1>1, <1>2, <1>3 DEF IInv

LEMMA ForgetsType ==
  ASSUME TypeOK, NEW t \in imports, Forgets(t.id), imports' = imports \ {t}
  PROVE  /\ job' \in [id : Ids, version : 0 .. MaxVersion] \cup {NoJob}
         /\ imports' \subseteq Imports /\ IsFiniteSet(imports')
BY FS_Subset DEF Forgets, TypeOK

LEMMA PageStep ==
  ASSUME IInv, PageArrives PROVE IInv'
<1>1. PICK t \in imports : \E chat \in {t.seen, remote[t.account]} : Page(t, chat)
  BY DEF PageArrives
<1>2. PICK chat \in {t.seen, remote[t.account]} : Page(t, chat)
  BY <1>1
<1>3. /\ t.account \in Accounts /\ t \in Imports /\ Valid(t) /\ imports = {t}
      /\ t.account = accountId /\ phase = "open" /\ t.id = job.id /\ t.version = job.version
      /\ t.id \notin ending
  BY DEF IInv, TypeOK, Imports, RunInv
<1>4. PICK page \in Pages(t, chat) :
        /\ SaveHistoryPage(t, page, chat)
        /\ IF Complete(t, page)
           THEN /\ imports' = imports \ {t} /\ Forgets(t.id)
                /\ days' = Enqueued(t.account, rows'[t.account])
           ELSE /\ imports' = (imports \ {t}) \cup
                     {[t EXCEPT !.cursor = Cursor(t, page), !.seen = remote[t.account]]}
                /\ UNCHANGED <<job, days>>
  BY <1>2, <1>3 DEF Page
<1> DEFINE status == IF Complete(t, page) THEN "ready" ELSE "loading"
<1>5. /\ SaveMessages(t, page, chat) /\ status \in {"loading", "ready", "error"}
      /\ status = "ready" => Complete(t, page)
      /\ progress' = [progress EXCEPT ![t.account].cursor = Cursor(t, page),
                                      ![t.account].status = status]
  BY <1>4 DEF SaveHistoryPage
<1>6. UNCHANGED <<remote, oldUpTo, signedIn, accountId, epoch, phase, observation, ending,
                  retryLater, rereads, faults, starts>>
  BY DEF PageArrives, remoteVars, runVars, counters
<1> HIDE DEF status
<1>7. /\ \A a \in Accounts : GaplessUpTo(remote[a], newest'[a])
      /\ NothingSkipped'
      /\ progress' \in [Accounts -> [version : 0 .. MaxVersion, cursor : 0 .. MaxMessage,
                                     status : {"none", "loading", "ready", "error"}]]
      /\ progress'[t.account].cursor = Cursor(t, page)
      /\ progress'[t.account].version = t.version
  BY <1>5, <1>6, PageSaved
<1>8. rows' \in [Accounts -> Chats] /\ newest' \in [Accounts -> 0 .. MaxMessage]
  BY <1>5, PageSavedType
<1>9. CASE Complete(t, page)
  <2>1. /\ job' \in [id : Ids, version : 0 .. MaxVersion] \cup {NoJob}
        /\ imports' \subseteq Imports /\ IsFiniteSet(imports')
    BY <1>4, <1>9, ForgetsType DEF IInv
  <2>2. days' \subseteq Accounts
    BY <1>3, <1>4, <1>9 DEF Enqueued, IInv, TypeOK
  <2>3. TypeOK'
    BY <1>6, <1>7, <1>8, <2>1, <2>2 DEF IInv, TypeOK
  <2>4. phase' = "open" /\ accountId' # NoAccount => accountId' = signedIn'
    BY <1>6 DEF IInv, RunInv
  <2>5. imports' = {}
    BY <1>3, <1>4, <1>9
  <2>6. QED
    BY <1>5, <1>6, <2>3, <2>4, <2>5, LastPage
<1>10. CASE ~Complete(t, page)
  <2> DEFINE next == [t EXCEPT !.cursor = Cursor(t, page), !.seen = remote[t.account]]
  <2>1. Cursor(t, page) \in 0 .. MaxMessage /\ remote[t.account] \in Chats
    BY <1>3, CursorFacts DEF IInv, TypeOK, Imports
  <2>2. /\ next \in Imports /\ next.id = t.id /\ next.account = t.account
        /\ next.version = t.version /\ next.cursor = Cursor(t, page)
        /\ next.seen = remote[t.account]
    BY <1>3, <2>1 DEF Imports
  <2> HIDE DEF next
  <2>3. imports' = {next} /\ UNCHANGED <<job, days>>
    BY <1>3, <1>4, <1>10 DEF next
  <2>4. IsFiniteSet(imports')
    BY <2>3, FS_Singleton
  <2>5. TypeOK'
    BY <1>6, <1>7, <1>8, <2>2, <2>3, <2>4 DEF IInv, TypeOK
  <2>6. RunInv'
    <3>1. TypeOK
      BY DEF IInv
    <3>2. \A a \in Accounts : \A m \in Messages : rows[a][m] # Absent => rows'[a][m] # Absent
      BY <1>5, <3>1, SavedFacts
    <3>3. \A r \in rereads' : rows'[r.account][r.message] # Absent
      BY <1>6, <3>2, RereadsStay
    <3>4. observation'[next.account] = [enabled |-> TRUE, version |-> next.version]
      BY <1>3, <1>6, <2>2 DEF Valid
    <3>5. QED
      BY <1>3, <1>6, <1>7, <2>2, <2>3, <3>3, <3>4 DEF IInv, RunInv, Valid
  <2>7. HistoryInv'
    <3>1. GaplessUpTo(next.seen, newest'[next.account]) /\ GaplessUpTo(next.seen, 0)
      BY <1>3, <1>7, <2>2 DEF GaplessUpTo
    <3>2. QED
      BY <1>6, <1>7, <2>2, <2>3, <3>1 DEF HistoryInv
  <2>8. QED
    BY <1>7, <2>5, <2>6, <2>7 DEF IInv
<1>11. QED
  BY <1>9, <1>10

LEMMA FailureStep ==
  ASSUME IInv, PageFails \/ CompletionFails \/ DiesBeforeDays PROVE IInv'
<1>1. CASE PageFails
  <2>1. PICK t \in imports :
          /\ Fault /\ imports' = imports \ {t} /\ Forgets(t.id)
          /\ \/ /\ progress' = [progress EXCEPT ![t.account].status = "error"]
                /\ retryLater' = retryLater \cup {t.account}
             \/ UNCHANGED <<progress, retryLater>>
          /\ UNCHANGED <<remoteVars, runVars, rows, observation, days, ending, rereads, newest, starts>>
    BY <1>1 DEF PageFails
  <2>2. /\ t.account \in Accounts /\ imports' = {}
    BY <2>1 DEF IInv, TypeOK, Imports, RunInv
  <2>3. /\ job' \in [id : Ids, version : 0 .. MaxVersion] \cup {NoJob}
        /\ imports' \subseteq Imports /\ IsFiniteSet(imports')
    BY <2>1, ForgetsType DEF IInv
  <2>4. /\ progress' \in [Accounts -> [version : 0 .. MaxVersion, cursor : 0 .. MaxMessage,
                                       status : {"none", "loading", "ready", "error"}]]
        /\ \A a \in Accounts : /\ progress'[a].cursor = progress[a].cursor
                               /\ progress'[a].status \in {progress[a].status, "error"}
    <3>1. CASE progress' = [progress EXCEPT ![t.account].status = "error"]
      BY <2>2, <3>1 DEF IInv, TypeOK
    <3>2. CASE UNCHANGED progress
      BY <3>2 DEF IInv, TypeOK
    <3>3. QED
      BY <2>1, <3>1, <3>2
  <2>5. faults' \in 0 .. MaxFaults /\ retryLater' \subseteq Accounts
    BY <2>1, <2>2, SecretaryAssumption DEF Fault, IInv, TypeOK
  <2>6. TypeOK'
    BY <2>1, <2>3, <2>4, <2>5 DEF IInv, TypeOK, remoteVars, runVars
  <2>7. RunInv' /\ HistoryInv'
    BY <2>1, <2>2 DEF IInv, RunInv, HistoryInv, GaplessUpTo, remoteVars, runVars
  <2>8. NothingSkipped'
    BY <2>1, <2>4 DEF IInv, NothingSkipped, remoteVars
  <2>9. QED
    BY <2>6, <2>7, <2>8 DEF IInv
<1>2. CASE CompletionFails
  <2> DEFINE Fails(t, chat, page) ==
          /\ Fault /\ imports' = imports \ {t} /\ Forgets(t.id)
          /\ SaveMessages(t, page, chat)
          /\ progress' = [progress EXCEPT ![t.account].cursor = Cursor(t, page),
                                          ![t.account].status = "error"]
          /\ retryLater' = retryLater \cup {t.account}
          /\ UNCHANGED <<remoteVars, runVars, observation, days, ending, rereads, starts>>
  <2>1. PICK t \in imports : \E chat \in {t.seen, remote[t.account]} :
          \E page \in Pages(t, chat) : Fails(t, chat, page)
    BY <1>2 DEF CompletionFails
  <2>2. PICK chat \in {t.seen, remote[t.account]} :
          \E page \in Pages(t, chat) : Fails(t, chat, page)
    BY <2>1
  <2>3. PICK page \in Pages(t, chat) : Fails(t, chat, page)
    BY <2>2
  <2>4. t.account \in Accounts /\ imports' = {} /\ UNCHANGED <<remote, oldUpTo>>
    BY <2>3 DEF IInv, TypeOK, Imports, RunInv, remoteVars
  <2>5. /\ job' \in [id : Ids, version : 0 .. MaxVersion] \cup {NoJob}
        /\ imports' \subseteq Imports /\ IsFiniteSet(imports')
    BY <2>3, ForgetsType DEF IInv
  <2>6. progress' \in [Accounts -> [version : 0 .. MaxVersion, cursor : 0 .. MaxMessage,
                                    status : {"none", "loading", "ready", "error"}]]
    BY <2>3, <2>4, PageSaved
  <2>7. rows' \in [Accounts -> Chats] /\ newest' \in [Accounts -> 0 .. MaxMessage]
    BY <2>3, PageSavedType
  <2>8. faults' \in 0 .. MaxFaults /\ retryLater' \subseteq Accounts
    BY <2>3, <2>4, SecretaryAssumption DEF Fault, IInv, TypeOK
  <2>9. TypeOK'
    BY <2>3, <2>5, <2>6, <2>7, <2>8 DEF IInv, TypeOK, remoteVars, runVars
  <2>10. phase' = "open" /\ accountId' # NoAccount => accountId' = signedIn'
    BY <2>3 DEF IInv, RunInv, remoteVars, runVars
  <2>11. QED
    BY <2>3, <2>4, <2>9, <2>10, LastPage
<1>3. CASE DiesBeforeDays
  <2>1. PICK t \in imports : \E chat \in {t.seen, remote[t.account]} :
          \E page \in Pages(t, chat) : Complete(t, page) /\ SaveHistoryPage(t, page, chat)
    BY <1>3 DEF DiesBeforeDays
  <2>2. PICK chat \in {t.seen, remote[t.account]} :
          \E page \in Pages(t, chat) : Complete(t, page) /\ SaveHistoryPage(t, page, chat)
    BY <2>1
  <2>3. PICK page \in Pages(t, chat) : Complete(t, page) /\ SaveHistoryPage(t, page, chat)
    BY <2>2
  <2>4. /\ SaveMessages(t, page, chat)
        /\ progress' = [progress EXCEPT ![t.account].cursor = Cursor(t, page),
                                        ![t.account].status = "ready"]
    BY <2>3 DEF SaveHistoryPage
  <2>5. UNCHANGED <<remote, oldUpTo>> /\ imports' = {} /\ rereads' = {} /\ accountId' = NoAccount
    BY <1>3 DEF DiesBeforeDays, NewProcess
  <2>6. progress' \in [Accounts -> [version : 0 .. MaxVersion, cursor : 0 .. MaxMessage,
                                    status : {"none", "loading", "ready", "error"}]]
    BY <2>3, <2>4, <2>5, PageSaved
  <2>7. rows' \in [Accounts -> Chats] /\ newest' \in [Accounts -> 0 .. MaxMessage]
    BY <2>4, PageSavedType
  <2>8. starts' \in 1 .. MaxStarts /\ epoch' \in 0 .. MaxEpoch
    BY <1>3, SecretaryAssumption DEF DiesBeforeDays, NewProcess, IInv, TypeOK
  <2>9. TypeOK'
    BY <1>3, <2>6, <2>7, <2>8, FS_EmptySet DEF DiesBeforeDays, NewProcess, IInv, TypeOK
  <2>10. QED
    BY <2>3, <2>4, <2>5, <2>9, LastPage
<1>4. QED
  BY <1>1, <1>2, <1>3

-----------------------------------------------------------------------------
(* The theorems *)

LEMMA InitIInv == Init => IInv
<1> SUFFICES ASSUME Init PROVE IInv
  OBVIOUS
<1>1. \A a \in Accounts : newest[a] = 0 /\ progress[a].cursor = 0 /\ progress[a].status = "none"
  BY DEF Init, NoProgress
<1>2. NothingSkipped
  BY <1>1 DEF NothingSkipped
<1>3. RunInv
  BY DEF Init, RunInv
<1>4. HistoryInv
  <2>1. ASSUME NEW a \in Accounts PROVE GaplessUpTo(remote[a], newest[a])
    <3>1. \A m \in Messages : remote[a][m] # Absent <=> m <= Initially
      BY DEF Init, Absent
    <3>2. ASSUME NEW m \in Messages, remote[a][m] # Absent, NEW n \in 1 .. m
          PROVE  remote[a][n] # Absent
      <4>1. m \in Nat /\ n \in Nat /\ n \in Messages /\ n <= m /\ Initially \in Nat
        BY SecretaryAssumption DEF Messages
      <4>2. QED
        BY <3>1, <3>2, <4>1
    <3>3. 1 .. newest[a] = {}
      BY <1>1
    <3>4. QED
      BY <3>2, <3>3 DEF GaplessUpTo
  <2>2. QED
    BY <2>1 DEF Init, HistoryInv
<1>5. QED
  BY <1>2, <1>3, <1>4, TypeInit DEF IInv

LEMMA NextIInv == ASSUME IInv, [Next]_vars PROVE IInv'
<1>1. CASE PageArrives
  BY <1>1, PageStep
<1>2. CASE PageFails \/ CompletionFails \/ DiesBeforeDays
  BY <1>2, FailureStep
<1>3. CASE SignsIn \/ SignsOut \/ RetryComesDue \/ AbortedEnds \/ Close \/ Closed \/ Restart
  BY <1>3, SessionStep
<1>4. CASE AccountKnown \/ Refresh \/ Resume
  BY <1>4, RefreshStep
<1>5. CASE Switch
  BY <1>5, SwitchStep DEF Switch
<1>6. CASE NewMessage \/ MessageContent \/ DeleteMessages \/ Reread
  BY <1>6, UpdateStep
<1>7. CASE UNCHANGED vars
  BY <1>7 DEF vars, remoteVars, runVars, importVars, counters, IInv, TypeOK, RunInv, Valid,
     HistoryInv, GaplessUpTo, NothingSkipped
<1>8. QED
  BY <1>1, <1>2, <1>3, <1>4, <1>5, <1>6, <1>7 DEF Next

\* The import, the run it belongs to and the chats it has seen fit each other
\* in every state (ensure() and abort() of history-importer.ts).
THEOREM Invariance == Spec => []IInv
<1>1. QED
  BY InitIInv, NextIInv, PTL DEF Spec

\* Of the messages that the progress of an import covers none is missing in the
\* archive (saveHistoryPage() and the loop of ensure()).
THEOREM ArchiveComplete == Spec => []NothingSkipped
<1>1. IInv => NothingSkipped
  BY DEF IInv
<1>2. QED
  BY <1>1, Invariance, PTL

\* The steps that write rows for an import.
LEMMA PageRows ==
  ASSUME IInv, PageArrives \/ CompletionFails \/ DiesBeforeDays,
         NEW a \in Accounts, NEW m \in Messages
  PROVE  /\ rows[a][m] = Deleted => rows'[a][m] = Deleted
         /\ rows[a][m] # rows'[a][m]
              => accountId = a /\ observation[a].enabled /\ phase = "open"
<1>1. PICK t \in imports : \E chat \in {t.seen, remote[t.account]} :
        UNCHANGED rows \/ \E page \in Pages(t, chat) : SaveMessages(t, page, chat)
  BY DEF PageArrives, Page, SaveHistoryPage, CompletionFails, DiesBeforeDays
<1>2. PICK chat \in {t.seen, remote[t.account]} :
        UNCHANGED rows \/ \E page \in Pages(t, chat) : SaveMessages(t, page, chat)
  BY <1>1
<1>3. CASE UNCHANGED rows
  BY <1>3
<1>4. ASSUME NEW page \in Pages(t, chat), SaveMessages(t, page, chat)
      PROVE  /\ rows[a][m] = Deleted => rows'[a][m] = Deleted
             /\ rows[a][m] # rows'[a][m] => a = t.account
  <2>1. TypeOK
    BY DEF IInv
  <2>2. QED
    BY <1>4, <2>1, SavedFacts
<1>5. /\ t.account = accountId /\ phase = "open"
      /\ observation[t.account] = [enabled |-> TRUE, version |-> t.version]
  BY DEF IInv, RunInv, Valid
<1>6. observation[t.account].enabled
  BY <1>5
<1>7. QED
  BY <1>2, <1>3, <1>4, <1>5, <1>6

LEMMA RowsStay ==
  ASSUME IInv, [Next]_vars,
         ~(PageArrives \/ CompletionFails \/ DiesBeforeDays),
         ~(NewMessage \/ MessageContent \/ DeleteMessages \/ Reread)
  PROVE  UNCHANGED rows
BY DEF Next, vars, PageFails, AbortedEnds, RetryComesDue, SignsIn, AccountKnown, SignsOut, Refresh,
   Switch, SetObservation, Resume, Close, Closed, Restart

\* A message noted as deleted is never written again, whatever answer was on
\* its way (the deleted flag of saveMessages()).
THEOREM DeletionsStand == Spec => DeletedIsFinal
<1> DEFINE Final == \A a \in Accounts : \A m \in Messages :
                      rows[a][m] = Deleted => rows'[a][m] = Deleted
<1>1. ASSUME IInv, [Next]_vars PROVE Final
  <2>1. CASE PageArrives \/ CompletionFails \/ DiesBeforeDays
    BY <1>1, <2>1, PageRows
  <2>2. CASE NewMessage \/ MessageContent \/ DeleteMessages \/ Reread
    BY <1>1, <2>2, UpdateStep DEF RowsOnly
  <2>3. QED
    BY <1>1, <2>1, <2>2, RowsStay
<1>2. QED
  BY <1>1, Invariance, PTL DEF Spec, DeletedIsFinal

\* What appears in the archive was asked for: by the account signed in, of a
\* chat it has switched on (valid() after the await in ensure(), active() in
\* update()).
THEOREM SavedOnRequest == Spec => NothingUnasked
<1> DEFINE Asked == \A a \in Accounts : \A m \in Messages :
                      (rows[a][m] = Absent /\ rows'[a][m] \in Contents)
                        => accountId = a /\ observation[a].enabled /\ phase = "open"
<1>1. ASSUME IInv, [Next]_vars PROVE Asked
  <2> SUFFICES ASSUME NEW a \in Accounts, NEW m \in Messages,
                      rows[a][m] = Absent, rows'[a][m] \in Contents
               PROVE  accountId = a /\ observation[a].enabled /\ phase = "open"
    OBVIOUS
  <2>1. rows[a][m] # rows'[a][m] /\ rows'[a][m] # Deleted
    BY DEF Contents, Absent, Deleted
  <2>2. CASE PageArrives \/ CompletionFails \/ DiesBeforeDays
    BY <1>1, <2>1, <2>2, PageRows
  <2>3. CASE NewMessage
    <3>1. /\ signedIn \in Accounts /\ phase = "open"
          /\ \E n \in Messages : IF Wanted(signedIn) THEN SaveUpdate(signedIn, n, "original")
                                 ELSE UNCHANGED rows
      BY <1>1, <2>3 DEF NewMessage, IInv, TypeOK
    <3>2. PICK n \in Messages : Wanted(signedIn) /\ SaveUpdate(signedIn, n, "original")
      BY <2>1, <3>1
    <3>3. a = signedIn
      BY <1>1, <2>1, <3>1, <3>2, SaveUpdateFacts DEF IInv, Contents
    <3>4. QED
      BY <1>1, <3>1, <3>2, <3>3 DEF Wanted, Listening, IInv, RunInv
  <2>4. CASE MessageContent
    BY <2>1, <2>4 DEF MessageContent
  <2>5. CASE DeleteMessages
    <3>1. /\ signedIn \in Accounts
          /\ \E n \in Messages : IF Listening THEN SaveUpdate(signedIn, n, Deleted)
                                 ELSE UNCHANGED rows
      BY <1>1, <2>5 DEF DeleteMessages, IInv, TypeOK
    <3>2. PICK n \in Messages : SaveUpdate(signedIn, n, Deleted)
      BY <2>1, <3>1
    <3>3. QED
      BY <1>1, <2>1, <3>1, <3>2, SaveUpdateFacts DEF IInv
  <2>6. CASE Reread
    <3>1. PICK r \in rereads : SaveUpdate(r.account, r.message, "edited") \/ UNCHANGED rows
      BY <2>6 DEF Reread
    <3>2. /\ r.account \in Accounts /\ r.message \in Messages /\ "edited" \in Contents
          /\ rows[r.account][r.message] # Absent
      BY <1>1 DEF IInv, TypeOK, RunInv, Contents
    <3>3. QED
      BY <1>1, <2>1, <3>1, <3>2, SaveUpdateFacts DEF IInv
  <2>7. QED
    BY <1>1, <2>1, <2>2, <2>3, <2>4, <2>5, <2>6, RowsStay
<1>2. QED
  BY <1>1, Invariance, PTL DEF Spec, NothingUnasked
=============================================================================
