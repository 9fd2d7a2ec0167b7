--------------------------- MODULE RecordsProofs ---------------------------
(***************************************************************************)
(* Proofs about the parts of Records.  A part moves only when it was       *)
(* chosen, and the others then keep what they have: every step of the sum  *)
(* is, for each part, a step of it or a stutter.  So an invariant of one   *)
(* part is an invariant of the sum, whatever the chosen part is.           *)
(***************************************************************************)
EXTENDS Records, SequenceTheorems, FiniteSetTheorems, TLAPS

(***************************************************************************)
(* The filters with state.                                                 *)
(***************************************************************************)
LEMMA SharedSteps == [Next]_vars => [Shared!SharedNext]_sharedvars
BY DEF Next, Only, vars, sharedvars

LoadInv ==
    /\ version \in [Shared!Files -> Nat] /\ values \in [Shared!Files -> Nat]
    /\ loading \in Seq(Nat) /\ Len(loading) <= Len(Content)
    /\ \A f \in Shared!Files : values[f] <= version[f]
    /\ \A f \in 1 .. Len(loading) : values[f] <= loading[f] /\ loading[f] <= version[f]

LEMMA LoadStep ==
    ASSUME LoadInv, [Shared!SharedNext]_sharedvars
    PROVE  /\ LoadInv'
           /\ \A f \in Shared!Files : values'[f] >= values[f]
           /\ values' # values => Len(loading) = Len(Content) /\ values' = loading
<1>0. Len(Content) \in Nat /\ Shared!Files = 1 .. Len(Content)
  BY RecordsAssumption DEF Shared!SharedAssumption, Shared!Files
<1> DEFINE P == /\ LoadInv'
                /\ \A f \in Shared!Files : values'[f] >= values[f]
                /\ values' # values => Len(loading) = Len(Content) /\ values' = loading
<1>1. ASSUME UNCHANGED <<version, values, loading>> PROVE P
  BY <1>0, <1>1 DEF LoadInv
<1>2. ASSUME NEW f \in Shared!Files, Shared!FileChanges(f) PROVE P
  <2>1. /\ version' = [version EXCEPT ![f] = @ + 1]
        /\ UNCHANGED <<values, loading>>
    BY <1>2 DEF Shared!FileChanges
  <2>2. /\ version' \in [Shared!Files -> Nat]
        /\ \A g \in Shared!Files : version[g] <= version'[g]
    BY <2>1 DEF LoadInv
  <2>3. /\ \A g \in Shared!Files : values[g] <= version'[g]
        /\ \A g \in 1 .. Len(loading) : loading[g] <= version'[g]
    <3>1. \A g \in Shared!Files : /\ values[g] \in Nat /\ version[g] \in Nat
                                  /\ version'[g] \in Nat /\ values[g] <= version[g]
      BY <2>2 DEF LoadInv
    <3>2. \A g \in 1 .. Len(loading) : /\ g \in Shared!Files /\ loading[g] \in Nat
                                       /\ loading[g] <= version[g]
      BY <1>0 DEF LoadInv
    <3> QED BY <2>2, <3>1, <3>2
  <2>4. \A g \in Shared!Files : values'[g] >= values[g] BY <2>1 DEF LoadInv
  <2> QED BY <2>1, <2>2, <2>3, <2>4 DEF LoadInv
<1>3. CASE Shared!ProcessURL
  <2>1. /\ loading' = Append(loading, version[Len(loading) + 1])
        /\ UNCHANGED <<version, values>>
        /\ Len(loading) + 1 \in Shared!Files
    BY <1>0, <1>3 DEF Shared!ProcessURL, LoadInv
  <2>2. /\ version[Len(loading) + 1] \in Nat
        /\ values[Len(loading) + 1] <= version[Len(loading) + 1]
    BY <2>1 DEF LoadInv
  <2>3. /\ loading' \in Seq(Nat) /\ Len(loading') = Len(loading) + 1
        /\ \A f \in 1 .. Len(loading) : loading'[f] = loading[f]
        /\ loading'[Len(loading) + 1] = version[Len(loading) + 1]
    BY <2>1, <2>2, AppendProperties DEF LoadInv
  <2>4. /\ version' \in [Shared!Files -> Nat] /\ values' \in [Shared!Files -> Nat]
        /\ \A f \in Shared!Files : values'[f] <= version'[f] /\ values'[f] >= values[f]
    BY <2>1 DEF LoadInv
  <2>5. Len(loading') <= Len(Content) BY <1>0, <2>1, <2>3
  <2>6. ASSUME NEW f \in 1 .. Len(loading')
        PROVE  values'[f] <= loading'[f] /\ loading'[f] <= version'[f]
    <3>1. CASE f = Len(loading) + 1 BY <2>1, <2>2, <2>3, <3>1
    <3>2. CASE f # Len(loading) + 1
      <4>1. Len(loading) \in Nat BY DEF LoadInv
      <4>2. f \in 1 .. Len(loading) BY <2>3, <3>2, <4>1
      <4> QED BY <2>1, <2>3, <4>2 DEF LoadInv
    <3> QED BY <3>1, <3>2
  <2> QED BY <2>1, <2>3, <2>4, <2>5, <2>6 DEF LoadInv
<1>4. CASE Shared!FailedReload
  BY <1>0, <1>4 DEF Shared!FailedReload, LoadInv
<1>5. CASE Shared!SwapValues
  <2>1. /\ Len(loading) = Len(Content) /\ values' = loading /\ loading' = <<>>
        /\ UNCHANGED version
    BY <1>5 DEF Shared!SwapValues
  <2>2. loading \in [Shared!Files -> Nat] BY <1>0, <2>1 DEF LoadInv
  <2> QED BY <1>0, <2>1, <2>2 DEF LoadInv
<1>6. ASSUME NEW w \in Workers,
             \/ Shared!Take(w) \/ Shared!LoadOrStore(w) \/ Shared!Match(w) \/ Shared!Load(w)
             \/ Shared!Lock(w) \/ Shared!Clear(w) \/ Shared!Store(w)
      PROVE  P
  <2>1. UNCHANGED <<version, values, loading>>
    BY <1>6 DEF Shared!Take, Shared!LoadOrStore, Shared!Match, Shared!Load, Shared!Lock,
                Shared!Clear, Shared!Store, Shared!matchvars
  <2> QED BY <2>1, <1>1
<1>7. CASE UNCHANGED sharedvars BY <1>1, <1>7 DEF sharedvars
<1> QED BY <1>1, <1>2, <1>3, <1>4, <1>5, <1>6, <1>7 DEF Shared!SharedNext

(* ExternalMatch matches records against the whole of one load, and never  *)
(* goes back to an older one, however the files change while they are read *)
(* and whichever of them cannot be.                                        *)
THEOREM WholeLoads == Spec => LoadsAreWhole
<1>1. Init => LoadInv
  BY RecordsAssumption
     DEF Init, Start, Shared!SharedInit, LoadInv, Shared!SharedAssumption, Shared!Files
<1>2. LoadInv /\ [Next]_vars => LoadInv' BY SharedSteps, LoadStep
<1>3. LoadInv /\ [Next]_vars =>
          [/\ \A f \in Shared!Files : values'[f] >= values[f]
           /\ values' # values => Len(loading) = Len(Content) /\ values' = loading]_sharedvars
  BY SharedSteps, LoadStep
<1> QED
  BY <1>1, <1>2, <1>3, PTL
     DEF Spec, LoadsAreWhole, Shared!LoadsAreWhole, Shared!sharedvars, sharedvars

(* Dedup: a record is judged when no worker has yet to look up its key.     *)
Looking(r) == \E w \in Workers : worker[w].pc = "dedup" /\ worker[w].rec = r
Judged == {r \in 1 .. received : ~Looking(r)}
SharedPcs == {"idle", "dedup", "match", "load", "lock", "clear", "store"}

WorkersInv ==
    /\ worker \in [Workers -> [pc : SharedPcs, rec : Nat]]
    /\ received \in 0 .. Len(KeyOf)
    /\ \A w \in Workers : worker[w].rec <= received
    /\ \A w \in Workers : worker[w].pc # "idle" => worker[w].rec \in 1 .. received
    /\ \A v, w \in Workers : v # w /\ worker[v].rec # 0 => worker[v].rec # worker[w].rec

DedupInv ==
    /\ dedupSet = {KeyOf[r] : r \in Judged}
    /\ duplicates \subseteq Judged
    /\ \A r, s \in Judged \ duplicates : KeyOf[r] = KeyOf[s] => r = s
    /\ \A k \in dedupSet : \E r \in Judged \ duplicates : KeyOf[r] = k

LEMMA WorkersStep ==
    ASSUME WorkersInv, [Shared!SharedNext]_sharedvars
    PROVE  WorkersInv'
<1>0. Len(KeyOf) \in Nat BY RecordsAssumption DEF Shared!SharedAssumption
<1>1. ASSUME UNCHANGED <<worker, received>> PROVE WorkersInv'
  BY <1>1 DEF WorkersInv
<1>2. ASSUME NEW w \in Workers, Shared!Take(w) PROVE WorkersInv'
  <2>1. /\ received < Len(KeyOf) /\ received' = received + 1
        /\ worker' = [worker EXCEPT ![w] = [pc |-> "dedup", rec |-> received + 1]]
    BY <1>2 DEF Shared!Take
  <2>2. /\ received' \in 0 .. Len(KeyOf) /\ received' \in Nat /\ received \in Nat
        /\ received < received'
    BY <1>0, <2>1 DEF WorkersInv
  <2>3. [pc |-> "dedup", rec |-> received + 1] \in [pc : SharedPcs, rec : Nat]
    BY <2>1, <2>2 DEF SharedPcs
  <2>4. worker' \in [Workers -> [pc : SharedPcs, rec : Nat]]
    BY <2>1, <2>3 DEF WorkersInv
  <2>5. /\ worker'[w].pc = "dedup" /\ worker'[w].rec = received'
        /\ \A v \in Workers \ {w} : worker'[v] = worker[v]
    BY <2>1 DEF WorkersInv
  <2>6. \A v \in Workers : worker[v].rec \in Nat /\ worker[v].rec <= received
    BY DEF WorkersInv
  <2>7. \A v \in Workers : worker'[v].rec <= received' BY <2>2, <2>5, <2>6
  <2>8. \A v \in Workers : worker'[v].pc # "idle" => worker'[v].rec \in 1 .. received'
    <3> SUFFICES ASSUME NEW v \in Workers, worker'[v].pc # "idle"
                 PROVE  worker'[v].rec \in 1 .. received'
      OBVIOUS
    <3>1. CASE v = w BY <2>2, <2>5, <3>1
    <3>2. CASE v # w BY <2>2, <2>5, <3>2 DEF WorkersInv
    <3> QED BY <3>1, <3>2
  <2>9. \A u, v \in Workers : u # v /\ worker'[u].rec # 0 => worker'[u].rec # worker'[v].rec
    BY <2>2, <2>5, <2>6 DEF WorkersInv
  <2> QED BY <2>2, <2>4, <2>7, <2>8, <2>9 DEF WorkersInv
<1>3. ASSUME NEW w \in Workers, NEW pc \in SharedPcs, worker[w].pc # "idle",
             worker' = [worker EXCEPT ![w].pc = pc], UNCHANGED received
      PROVE  WorkersInv'
  <2>1. /\ worker' \in [Workers -> [pc : SharedPcs, rec : Nat]]
        /\ \A v \in Workers : worker'[v].rec = worker[v].rec
        /\ \A v \in Workers \ {w} : worker'[v].pc = worker[v].pc
    BY <1>3 DEF WorkersInv
  <2> QED BY <1>3, <2>1 DEF WorkersInv
<1>4. ASSUME NEW w \in Workers,
             \/ Shared!LoadOrStore(w) \/ Shared!Match(w) \/ Shared!Load(w)
             \/ Shared!Lock(w) \/ Shared!Clear(w) \/ Shared!Store(w)
      PROVE  WorkersInv'
  <2>1. UNCHANGED received
    BY <1>4 DEF Shared!LoadOrStore, Shared!Match, Shared!Load, Shared!Lock, Shared!Clear,
                Shared!Store
  <2>2. worker[w].pc # "idle"
    BY <1>4 DEF Shared!LoadOrStore, Shared!Match, Shared!Load, Shared!Lock, Shared!Clear,
                Shared!Store, Shared!At
  <2>3. \/ UNCHANGED worker
        \/ \E pc \in SharedPcs : worker' = [worker EXCEPT ![w].pc = pc]
    BY <1>4 DEF Shared!LoadOrStore, Shared!Match, Shared!Load, Shared!Lock, Shared!Clear,
                Shared!Store, Shared!To, SharedPcs
  <2> QED BY <2>1, <2>2, <2>3, <1>1, <1>3
<1>5. CASE \/ UNCHANGED sharedvars
           \/ \E f \in Shared!Files : Shared!FileChanges(f)
           \/ Shared!ProcessURL \/ Shared!FailedReload \/ Shared!SwapValues
  BY <1>1, <1>5 DEF sharedvars, Shared!FileChanges, Shared!ProcessURL, Shared!FailedReload,
                    Shared!SwapValues
<1> QED BY <1>2, <1>4, <1>5 DEF Shared!SharedNext

LEMMA DedupStep ==
    ASSUME WorkersInv, DedupInv, [Shared!SharedNext]_sharedvars
    PROVE  DedupInv'
<1>1. ASSUME UNCHANGED <<worker, received, dedupSet, duplicates>> PROVE DedupInv'
  BY <1>1 DEF DedupInv, Judged, Looking
<1>2. ASSUME NEW w \in Workers, Shared!Take(w) PROVE DedupInv'
  <2>1. /\ received' = received + 1 /\ UNCHANGED <<dedupSet, duplicates>>
        /\ worker' = [worker EXCEPT ![w] = [pc |-> "dedup", rec |-> received + 1]]
        /\ worker[w].pc = "idle"
    BY <1>2 DEF Shared!Take, Shared!At
  <2>2. /\ worker'[w].pc = "dedup" /\ worker'[w].rec = received + 1
        /\ \A v \in Workers \ {w} : worker'[v] = worker[v]
        /\ received \in Nat
        /\ \A v \in Workers : worker[v].rec \in Nat /\ worker[v].rec <= received
    BY <2>1 DEF WorkersInv
  <2>3. \A r \in 1 .. received : Looking(r)' = Looking(r)
    BY <2>1, <2>2 DEF Looking
  <2>4. Looking(received)' BY <2>1, <2>2 DEF Looking
  <2>5. Judged' = Judged BY <2>1, <2>2, <2>3, <2>4 DEF Judged
  <2> QED BY <2>1, <2>5 DEF DedupInv
<1>3. ASSUME NEW w \in Workers, Shared!LoadOrStore(w) PROVE DedupInv'
  <2>0. PICK r : r = worker[w].rec OBVIOUS
  <2>1. /\ worker[w].pc = "dedup" /\ UNCHANGED received
        /\ dedupSet' = dedupSet \cup {KeyOf[r]}
    BY <1>3, <2>0 DEF Shared!LoadOrStore, Shared!At, Shared!Rec
  <2>2. \/ /\ KeyOf[r] \in dedupSet /\ duplicates' = duplicates \cup {r}
           /\ worker' = [worker EXCEPT ![w].pc = "idle"]
        \/ /\ KeyOf[r] \notin dedupSet /\ UNCHANGED duplicates
           /\ worker' = [worker EXCEPT ![w].pc = "match"]
    BY <1>3, <2>0 DEF Shared!LoadOrStore, Shared!To, Shared!Rec
  <2>3. /\ worker'[w].pc # "dedup" /\ worker'[w].rec = r
        /\ \A v \in Workers \ {w} : worker'[v] = worker[v]
    BY <2>0, <2>2 DEF WorkersInv
  <2>4. r \in 1 .. received /\ Looking(r) /\ r # 0 BY <2>0, <2>1 DEF WorkersInv, Looking
  <2>5. \A v \in Workers \ {w} : worker[v].rec # r BY <2>0, <2>4 DEF WorkersInv
  <2>6. ~Looking(r)' BY <2>3, <2>5 DEF Looking
  <2>7. \A s \in 1 .. received : s # r => Looking(s)' = Looking(s)
    BY <2>0, <2>1, <2>3 DEF Looking
  <2>8. Judged' = Judged \cup {r} /\ r \notin Judged
    BY <2>1, <2>4, <2>6, <2>7 DEF Judged
  <2>9. dedupSet' = {KeyOf[s] : s \in Judged'}
    BY <2>1, <2>8 DEF DedupInv
  <2>10. CASE KeyOf[r] \in dedupSet
    <3>1. duplicates' = duplicates \cup {r} /\ dedupSet' = dedupSet BY <2>1, <2>2, <2>10
    <3>2. Judged' \ duplicates' = Judged \ duplicates BY <2>8, <3>1
    <3> QED BY <2>8, <2>9, <3>1, <3>2 DEF DedupInv
  <2>11. CASE KeyOf[r] \notin dedupSet
    <3>1. duplicates' = duplicates BY <2>2, <2>11
    <3>2. Judged' \ duplicates' = (Judged \ duplicates) \cup {r} BY <2>8, <3>1 DEF DedupInv
    <3>3. \A s \in Judged : KeyOf[s] # KeyOf[r] BY <2>11 DEF DedupInv
    <3>4. \A s, t \in Judged' \ duplicates' : KeyOf[s] = KeyOf[t] => s = t
      BY <3>2, <3>3 DEF DedupInv
    <3>5. \A k \in dedupSet' : \E s \in Judged' \ duplicates' : KeyOf[s] = k
      BY <2>1, <3>2 DEF DedupInv
    <3> QED BY <2>8, <2>9, <3>1, <3>4, <3>5 DEF DedupInv
  <2> QED BY <2>10, <2>11
<1>4. ASSUME NEW w \in Workers,
             \/ Shared!Match(w) \/ Shared!Load(w)
             \/ Shared!Lock(w) \/ Shared!Clear(w) \/ Shared!Store(w)
      PROVE  DedupInv'
  <2>1. UNCHANGED <<received, dedupSet, duplicates>>
    BY <1>4 DEF Shared!Match, Shared!Load, Shared!Lock, Shared!Clear, Shared!Store
  <2>2. worker[w].pc # "dedup"
    BY <1>4 DEF Shared!Match, Shared!Load, Shared!Lock, Shared!Clear, Shared!Store, Shared!At
  <2>3. \/ UNCHANGED worker
        \/ \E pc \in SharedPcs \ {"dedup"} : worker' = [worker EXCEPT ![w].pc = pc]
    BY <1>4 DEF Shared!Match, Shared!Load, Shared!Lock, Shared!Clear, Shared!Store, Shared!To,
                SharedPcs
  <2>4. \A v \in Workers : /\ worker'[v].rec = worker[v].rec
                           /\ worker'[v].pc = "dedup" <=> worker[v].pc = "dedup"
    BY <2>2, <2>3 DEF WorkersInv
  <2>5. \A r : Looking(r)' = Looking(r) BY <2>4 DEF Looking
  <2>6. Judged' = Judged BY <2>1, <2>5 DEF Judged
  <2> QED BY <2>1, <2>6 DEF DedupInv
<1>5. CASE \/ UNCHANGED sharedvars
           \/ \E f \in Shared!Files : Shared!FileChanges(f)
           \/ Shared!ProcessURL \/ Shared!FailedReload \/ Shared!SwapValues
  BY <1>1, <1>5 DEF sharedvars, Shared!FileChanges, Shared!ProcessURL, Shared!FailedReload,
                    Shared!SwapValues
<1> QED BY <1>2, <1>3, <1>4, <1>5 DEF Shared!SharedNext

(* MetadataUrl: the count of the cache is the number of its entries at      *)
(* every step, also while it is emptied, and only the holder of the mutex   *)
(* is between Lock and Store.                                               *)
UrlInv ==
    /\ IsFiniteSet(cache) /\ nentries = Cardinality(cache) /\ nentries <= MaxEntries
    /\ mx \in Workers \cup {Shared!Unlocked}
    /\ \A w \in Workers : worker[w].pc \in {"clear", "store"} => mx = w
    /\ \A w \in Workers : worker[w].pc = "store" => nentries < MaxEntries
    /\ DOMAIN dst = Shared!Recs
    /\ \A r \in Shared!Recs : dst[r] \in {"none", UrlOf[r]}

LEMMA UrlStep ==
    ASSUME WorkersInv, UrlInv, [Shared!SharedNext]_sharedvars
    PROVE  UrlInv'
<1>0. MaxEntries \in Nat \ {0} /\ Shared!Unlocked \notin Workers
  BY RecordsAssumption DEF Shared!SharedAssumption
<1>1. ASSUME UNCHANGED <<cache, nentries, mx, dst>>,
             \A w \in Workers :
                 worker'[w].pc \in {"clear", "store"} => worker'[w].pc = worker[w].pc
      PROVE  UrlInv'
  BY <1>1 DEF UrlInv
<1>2. ASSUME NEW w \in Workers,
             Shared!Take(w) \/ Shared!LoadOrStore(w) \/ Shared!Match(w)
      PROVE  UrlInv'
  <2>1. UNCHANGED <<cache, nentries, mx, dst>>
    BY <1>2 DEF Shared!Take, Shared!LoadOrStore, Shared!Match, Shared!cachevars
  <2>2. \/ worker' = [worker EXCEPT ![w] = [pc |-> "dedup", rec |-> received + 1]]
        \/ \E pc \in {"idle", "match", "load"} : worker' = [worker EXCEPT ![w].pc = pc]
    BY <1>2 DEF Shared!Take, Shared!LoadOrStore, Shared!Match, Shared!To
  <2>3. /\ worker'[w].pc \notin {"clear", "store"}
        /\ \A v \in Workers \ {w} : worker'[v] = worker[v]
    BY <2>2 DEF WorkersInv
  <2> QED BY <1>1, <2>1, <2>3
<1>3. ASSUME NEW w \in Workers, Shared!Load(w) PROVE UrlInv'
  <2>1. /\ UNCHANGED <<cache, nentries, mx>>
        /\ \/ UNCHANGED dst
           \/ dst' = [dst EXCEPT ![worker[w].rec] = UrlOf[worker[w].rec]]
        /\ \E pc \in {"idle", "lock"} : worker' = [worker EXCEPT ![w].pc = pc]
    BY <1>3 DEF Shared!Load, Shared!To, Shared!SetDst, Shared!Rec
  <2>2. /\ worker'[w].pc \notin {"clear", "store"}
        /\ \A v \in Workers \ {w} : worker'[v] = worker[v]
    BY <2>1 DEF WorkersInv
  <2>3. DOMAIN dst' = Shared!Recs /\ \A r \in Shared!Recs : dst'[r] \in {"none", UrlOf[r]}
    BY <2>1 DEF UrlInv
  <2> QED BY <2>1, <2>2, <2>3 DEF UrlInv
<1>4. ASSUME NEW w \in Workers, Shared!Lock(w) PROVE UrlInv'
  <2>1. /\ UNCHANGED <<cache, nentries, dst>> /\ mx = Shared!Unlocked /\ mx' = w
        /\ worker' = [worker EXCEPT ![w].pc = IF nentries = MaxEntries THEN "clear" ELSE "store"]
    BY <1>4 DEF Shared!Lock, Shared!To
  <2>2. /\ worker'[w].pc = IF nentries = MaxEntries THEN "clear" ELSE "store"
        /\ \A v \in Workers \ {w} : worker'[v] = worker[v]
    BY <2>1 DEF WorkersInv
  <2>3. \A v \in Workers : worker[v].pc \notin {"clear", "store"} BY <1>0, <2>1 DEF UrlInv
  <2>4. nentries \in Nat BY FS_CardinalityType DEF UrlInv
  <2>5. nentries # MaxEntries => nentries < MaxEntries BY <1>0, <2>4 DEF UrlInv
  <2> QED BY <2>1, <2>2, <2>3, <2>5 DEF UrlInv
<1>5. ASSUME NEW w \in Workers, Shared!Clear(w) PROVE UrlInv'
  <2>0. worker[w].pc = "clear" /\ mx = w BY <1>5 DEF Shared!Clear, Shared!At, UrlInv
  <2>1. \A v \in Workers \ {w} : worker[v].pc \notin {"clear", "store"}
    BY <2>0 DEF UrlInv
  <2>2. nentries \in Nat BY FS_CardinalityType DEF UrlInv
  <2>3. CASE cache = {}
    <3>1. /\ worker' = [worker EXCEPT ![w].pc = "store"]
          /\ UNCHANGED <<cache, nentries, mx, dst>>
      BY <1>5, <2>3 DEF Shared!Clear, Shared!To
    <3>2. worker'[w].pc = "store" /\ \A v \in Workers \ {w} : worker'[v] = worker[v]
      BY <3>1 DEF WorkersInv
    <3>3. nentries = 0 BY <2>3, FS_EmptySet DEF UrlInv
    <3> QED BY <1>0, <2>0, <2>1, <3>1, <3>2, <3>3 DEF UrlInv
  <2>4. CASE cache # {}
    <3>1. /\ UNCHANGED <<worker, mx, dst>> /\ nentries' = nentries - 1
          /\ \E u \in cache : cache' = cache \ {u}
      BY <1>5, <2>4 DEF Shared!Clear
    <3>2. PICK u \in cache : cache' = cache \ {u} BY <3>1
    <3>3. IsFiniteSet(cache') /\ Cardinality(cache') = Cardinality(cache) - 1
      BY <3>2, FS_RemoveElement DEF UrlInv
    <3>4. nentries' = Cardinality(cache') BY <3>1, <3>3 DEF UrlInv
    <3>5. nentries' <= MaxEntries BY <1>0, <2>2, <3>1 DEF UrlInv
    <3> QED BY <2>0, <2>1, <3>1, <3>3, <3>4, <3>5 DEF UrlInv
  <2> QED BY <2>3, <2>4
<1>6. ASSUME NEW w \in Workers, Shared!Store(w) PROVE UrlInv'
  <2>0. PICK u : u = UrlOf[worker[w].rec] OBVIOUS
  <2>1. /\ worker[w].pc = "store" /\ cache' = cache \cup {u}
        /\ nentries' = IF u \in cache THEN nentries ELSE nentries + 1
        /\ mx' = Shared!Unlocked /\ dst' = [dst EXCEPT ![worker[w].rec] = u]
        /\ worker' = [worker EXCEPT ![w].pc = "idle"]
    BY <1>6, <2>0 DEF Shared!Store, Shared!At, Shared!SetDst, Shared!To, Shared!Rec
  <2>2. /\ worker'[w].pc = "idle" /\ \A v \in Workers \ {w} : worker'[v] = worker[v]
    BY <2>1 DEF WorkersInv
  <2>3. \A v \in Workers \ {w} : worker[v].pc \notin {"clear", "store"}
    BY <2>1 DEF UrlInv
  <2>4. nentries \in Nat /\ nentries < MaxEntries BY <2>1, FS_CardinalityType DEF UrlInv
  <2>5. /\ IsFiniteSet(cache')
        /\ Cardinality(cache') = IF u \in cache THEN Cardinality(cache)
                                                ELSE Cardinality(cache) + 1
    BY <2>1, FS_AddElement DEF UrlInv
  <2>6. nentries' = Cardinality(cache') BY <2>1, <2>5 DEF UrlInv
  <2>7. nentries' <= MaxEntries BY <1>0, <2>1, <2>4
  <2>8. DOMAIN dst' = Shared!Recs /\ \A r \in Shared!Recs : dst'[r] \in {"none", UrlOf[r]}
    BY <2>0, <2>1 DEF UrlInv
  <2> QED BY <2>1, <2>2, <2>3, <2>5, <2>6, <2>7, <2>8 DEF UrlInv
<1>7. CASE \/ UNCHANGED sharedvars
           \/ \E f \in Shared!Files : Shared!FileChanges(f)
           \/ Shared!ProcessURL \/ Shared!FailedReload \/ Shared!SwapValues
  <2>1. UNCHANGED <<worker, cache, nentries, mx, dst>>
    BY <1>7 DEF sharedvars, Shared!FileChanges, Shared!ProcessURL, Shared!FailedReload,
                Shared!SwapValues, Shared!cachevars
  <2> QED BY <1>1, <2>1
<1> QED BY <1>2, <1>3, <1>4, <1>5, <1>6, <1>7 DEF Shared!SharedNext

LEMMA SharedStart ==
    ASSUME Init
    PROVE  WorkersInv /\ DedupInv /\ UrlInv
<1>1. /\ worker = [w \in Workers |-> [pc |-> "idle", rec |-> 0]]
      /\ received = 0 /\ dedupSet = {} /\ duplicates = {}
      /\ cache = {} /\ nentries = 0 /\ mx = Shared!Unlocked
      /\ dst = [r \in Shared!Recs |-> "none"]
  BY DEF Init, Start, Shared!SharedInit
<1>2. Len(KeyOf) \in Nat /\ MaxEntries \in Nat
  BY RecordsAssumption DEF Shared!SharedAssumption
<1>3. Judged = {} BY <1>1 DEF Judged
<1>4. WorkersInv BY <1>1, <1>2 DEF WorkersInv, SharedPcs
<1>5. DedupInv BY <1>1, <1>3 DEF DedupInv
<1>6. UrlInv BY <1>1, <1>2, FS_EmptySet DEF UrlInv
<1> QED BY <1>4, <1>5, <1>6

(* Of the records with a key exactly one passes Dedup, whichever workers    *)
(* race for it; the cache of MetadataUrl never grows over its limit, counts *)
(* its entries right and gives every record its own url.                    *)
THEOREM SharedAgreement == Spec => []SharedStateAgrees
<1> DEFINE Inv == WorkersInv /\ DedupInv /\ UrlInv
<1>1. Init => Inv BY SharedStart
<1>2. Inv /\ [Next]_vars => Inv' BY SharedSteps, WorkersStep, DedupStep, UrlStep
<1>3. ASSUME Inv PROVE SharedStateAgrees
  <2>1. Judged = {r \in 1 .. received :
                      ~\E w \in Workers : Shared!At(w, "dedup") /\ Shared!Rec(w) = r}
    BY DEF Judged, Looking, Shared!At, Shared!Rec
  <2>2. \A k \in dedupSet : Cardinality({r \in Judged \ duplicates : KeyOf[r] = k}) = 1
    <3> SUFFICES ASSUME NEW k \in dedupSet
                 PROVE  Cardinality({r \in Judged \ duplicates : KeyOf[r] = k}) = 1
      OBVIOUS
    <3>1. PICK r \in Judged \ duplicates : KeyOf[r] = k BY <1>3 DEF DedupInv
    <3>2. {s \in Judged \ duplicates : KeyOf[s] = k} = {r} BY <1>3, <3>1 DEF DedupInv
    <3> QED BY <3>2, FS_Singleton
  <2>3. dedupSet = {KeyOf[r] : r \in Judged} BY <1>3 DEF DedupInv
  <2>4. Shared!OneOfEachKey
    <3>1. \A k \in {KeyOf[r] : r \in Judged} :
              Shared!Cardinality({r \in Judged \ duplicates : KeyOf[r] = k}) = 1
      BY <2>2, <2>3 DEF Cardinality, Shared!Cardinality
    <3> QED BY <2>1, <3>1 DEF Shared!OneOfEachKey
  <2>5. Shared!CacheAgrees
    BY <1>3 DEF UrlInv, Shared!CacheAgrees, Cardinality, Shared!Cardinality
  <2> QED BY <2>4, <2>5 DEF SharedStateAgrees
<1> QED BY <1>1, <1>2, <1>3, PTL DEF Spec

(***************************************************************************)
(* The WebSocket server.                                                   *)
(***************************************************************************)
LEMMA WsSteps == [Next]_vars => [Ws!WsNext]_wsvars
BY DEF Next, Only, vars, wsvars

ClientType == [id : Nat, rd : {"new", "making", "adding", "listen", "leave", "returned"},
               wr : {"new", "listen", "returned"}, ch : Seq(Nat), done : BOOLEAN]
Added(c) == client[c].rd \in {"listen", "leave", "returned"}
Connected == {c \in Clients : client[c].rd # "new"}

(* The counter of clients is their number, so that every id has its place   *)
(* in the map; only a client that was added is in it or has a queue.        *)
WsInv ==
    /\ client \in [Clients -> ClientType] /\ got \in [Clients -> Seq(Nat)]
    /\ sends \in Nat /\ maxId = Cardinality(Connected)
    /\ clients \in [Ws!Ids -> Clients \cup {NoClient}]
    /\ \A c \in Clients : client[c].id <= maxId
    /\ \A c \in Clients : client[c].rd \in {"new", "making"} => client[c].id = 0
    /\ \A c \in Clients : client[c].rd \in {"leave", "returned"} => client[c].done
    /\ \A c \in Clients : client[c].wr # "new" => Added(c)
    /\ \A i \in Ws!Ids, c \in Clients : clients[i] = c => Added(c)
    /\ \A c \in Clients : client[c].ch # <<>> \/ got[c] # <<>> => Added(c) /\ client[c].id # 0

LEMMA CounterBounds ==
    ASSUME WsInv
    PROVE  /\ Cardinality(Clients) \in Nat /\ maxId \in 0 .. Cardinality(Clients)
           /\ Ws!Ids = 0 .. Cardinality(Clients)
           /\ \A c \in Clients : client[c].id \in Ws!Ids
<1>1. IsFiniteSet(Clients)
  BY RecordsAssumption DEF Ws!WebSocketAssumption, IsFiniteSet, Ws!IsFiniteSet
<1>2. Cardinality(Clients) \in Nat BY <1>1, FS_CardinalityType
<1>3. IsFiniteSet(Connected) /\ Cardinality(Connected) <= Cardinality(Clients)
  BY <1>1, FS_Subset DEF Connected
<1>4. maxId \in Nat /\ maxId <= Cardinality(Clients)
  BY <1>3, FS_CardinalityType DEF WsInv
<1>5. Ws!Ids = 0 .. Cardinality(Clients) BY DEF Ws!Ids, Cardinality, Ws!Cardinality
<1>6. \A c \in Clients : client[c].id \in Nat /\ client[c].id <= maxId
  BY DEF WsInv, ClientType
<1> QED BY <1>2, <1>4, <1>5, <1>6

(* What one step does to a client c, and to no other.                       *)
Becomes(c, r) == client' = [client EXCEPT ![c] = r]

LEMMA OneClient ==
    ASSUME client \in [Clients -> ClientType], NEW c \in Clients
    PROVE  /\ Ws!Connect(c) => Becomes(c, [client[c] EXCEPT !.rd = "making"])
           /\ Ws!NewClient(c) => Becomes(c, [client[c] EXCEPT !.rd = "adding", !.id = maxId])
           /\ Ws!Add(c) => Becomes(c, [client[c] EXCEPT !.rd = "listen", !.wr = "listen"])
           /\ Ws!WriteNext(c) =>
                 \/ Becomes(c, [client[c] EXCEPT !.ch = Tail(@)])
                 \/ Becomes(c, [client[c] EXCEPT !.ch = Tail(@), !.wr = "returned", !.done = TRUE])
           /\ Ws!WriterDone(c) => Becomes(c, [client[c] EXCEPT !.wr = "returned"])
           /\ Ws!ReadEOF(c) => Becomes(c, [client[c] EXCEPT !.rd = "leave", !.done = TRUE])
           /\ Ws!ReadMessage(c) => Becomes(c, [client[c] EXCEPT !.rd = "leave"])
           /\ Ws!ReaderDone(c) => Becomes(c, [client[c] EXCEPT !.rd = "returned"])
BY DEF Ws!Connect, Ws!NewClient, Ws!Add, Ws!WriteNext, Ws!WriterDone, Ws!ReadEOF,
       Ws!ReadMessage, Ws!ReaderDone, Becomes

LEMMA UpdateOne ==
    ASSUME NEW f, NEW c \in Clients, NEW r \in ClientType, f \in [Clients -> ClientType]
    PROVE  /\ [f EXCEPT ![c] = r] \in [Clients -> ClientType]
           /\ [f EXCEPT ![c] = r][c] = r
           /\ \A d \in Clients \ {c} : [f EXCEPT ![c] = r][d] = f[d]
OBVIOUS

LEMMA UpdateRecord ==
    ASSUME NEW r \in ClientType
    PROVE  /\ r.id \in Nat /\ r.ch \in Seq(Nat) /\ r.done \in BOOLEAN
           /\ \A q \in Seq(Nat) : LET t == [r EXCEPT !.ch = q]
                                 IN  /\ t \in ClientType /\ t.id = r.id /\ t.rd = r.rd
                                     /\ t.wr = r.wr /\ t.ch = q /\ t.done = r.done
           /\ \A n \in Nat : LET t == [r EXCEPT !.rd = "adding", !.id = n]
                            IN  /\ t \in ClientType /\ t.id = n /\ t.rd = "adding"
                                /\ t.wr = r.wr /\ t.ch = r.ch /\ t.done = r.done
BY DEF ClientType

LEMMA WsInvStep ==
    ASSUME WsInv, [Ws!WsNext]_wsvars
    PROVE  WsInv'
<1>0. /\ client \in [Clients -> ClientType] /\ got \in [Clients -> Seq(Nat)] /\ sends \in Nat
      /\ \A c \in Clients : client[c] \in ClientType
  BY DEF WsInv
<1>1. CASE UNCHANGED wsvars BY <1>1 DEF wsvars, WsInv, Connected, Added
<1>2. CASE Ws!SendAll
  <2>1. PICK K \in SUBSET Clients :
            /\ \A c \in K : client[c].id # 0 /\ clients[client[c].id] = c
            /\ client' = [c \in Clients |->
                   IF c \in K THEN [client[c] EXCEPT !.ch = Append(@, sends + 1)]
                   ELSE client[c]]
    BY <1>2 DEF Ws!SendAll, Ws!Registered
  <2>2. /\ UNCHANGED <<maxId, clients, got>> /\ sends' = sends + 1
    BY <1>2 DEF Ws!SendAll
  <2>3. \A c \in Clients :
            LET t == [client[c] EXCEPT !.ch = Append(@, sends + 1)]
            IN  /\ t \in ClientType /\ t.id = client[c].id /\ t.rd = client[c].rd
                /\ t.wr = client[c].wr /\ t.done = client[c].done
    <3> SUFFICES ASSUME NEW c \in Clients
                 PROVE  LET t == [client[c] EXCEPT !.ch = Append(client[c].ch, sends + 1)]
                        IN  /\ t \in ClientType /\ t.id = client[c].id /\ t.rd = client[c].rd
                            /\ t.wr = client[c].wr /\ t.done = client[c].done
      OBVIOUS
    <3>1. client[c] \in ClientType /\ client[c].ch \in Seq(Nat) BY <1>0, UpdateRecord
    <3>2. Append(client[c].ch, sends + 1) \in Seq(Nat) BY <1>0, <3>1
    <3> QED BY <3>1, <3>2, UpdateRecord
  <2>4. \A c \in Clients : /\ client'[c] \in ClientType /\ client'[c].rd = client[c].rd
                           /\ client'[c].id = client[c].id /\ client'[c].done = client[c].done
                           /\ client'[c].wr = client[c].wr
                           /\ c \notin K => client'[c].ch = client[c].ch
    BY <1>0, <2>1, <2>3
  <2>5. client' \in [Clients -> ClientType] BY <1>0, <2>1, <2>3
  <2>6. \A c \in K : Added(c) /\ client[c].id # 0
    <3>1. \A c \in K : client[c].id \in Ws!Ids BY CounterBounds
    <3> QED BY <2>1, <3>1 DEF WsInv
  <2>7. Connected' = Connected BY <2>4 DEF Connected
  <2>8. \A c \in Clients : Added(c)' = Added(c) BY <2>4 DEF Added
  <2>9. \A c \in Clients : client'[c].ch # <<>> \/ got'[c] # <<>> =>
             Added(c)' /\ client'[c].id # 0
    BY <2>2, <2>4, <2>6, <2>8 DEF WsInv
  <2>10. /\ \A c \in Clients : client'[c].id <= maxId'
         /\ \A c \in Clients : client'[c].rd \in {"new", "making"} => client'[c].id = 0
         /\ \A c \in Clients : client'[c].rd \in {"leave", "returned"} => client'[c].done
    BY <2>2, <2>4 DEF WsInv
  <2>11. \A c \in Clients : client'[c].wr # "new" => Added(c)' BY <2>4, <2>8 DEF WsInv
  <2> QED BY <1>0, <2>2, <2>5, <2>7, <2>8, <2>9, <2>10, <2>11 DEF WsInv
<1>3. ASSUME NEW c \in Clients, NEW r \in ClientType, Becomes(c, r),
             UNCHANGED <<maxId, sends>>, r.id = client[c].id,
             client[c].rd \notin {"new", "making"}, r.rd \in {"listen", "leave", "returned"},
             r.rd \in {"leave", "returned"} => r.done,
             r.ch # <<>> => client[c].ch # <<>>,
             \/ UNCHANGED got
             \/ client[c].ch # <<>> /\ \E s \in Seq(Nat) : got' = [got EXCEPT ![c] = s],
             \/ UNCHANGED clients
             \/ clients' = [clients EXCEPT ![client[c].id] = c]
             \/ clients' = [clients EXCEPT ![client[c].id] = NoClient]
      PROVE  WsInv'
  <2>1. /\ client' \in [Clients -> ClientType] /\ client'[c] = r
        /\ \A d \in Clients \ {c} : client'[d] = client[d]
    BY <1>0, <1>3, UpdateOne DEF Becomes
  <2>2. Connected' = Connected BY <1>3, <2>1 DEF Connected
  <2>3. got' \in [Clients -> Seq(Nat)] /\ \A d \in Clients \ {c} : got'[d] = got[d]
    BY <1>0, <1>3
  <2>4. \A d \in Clients : /\ client'[d].id = client[d].id
                           /\ client'[d].rd \in {"new", "making"} => client'[d].rd = client[d].rd
    BY <1>3, <2>1
  <2>5. \A d \in Clients : client'[d].rd \in {"leave", "returned"} => client'[d].done
    BY <1>3, <2>1 DEF WsInv
  <2>6. Added(c)' /\ \A d \in Clients : Added(d) => Added(d)'
    BY <1>3, <2>1 DEF Added
  <2>7. clients' \in [Ws!Ids -> Clients \cup {NoClient}]
    BY <1>3 DEF WsInv
  <2>8. NoClient \notin Clients BY RecordsAssumption DEF Ws!WebSocketAssumption
  <2>9. \A i \in Ws!Ids, d \in Clients : clients'[i] = d => clients[i] = d \/ d = c
    BY <1>3, <2>8 DEF WsInv
  <2>10. \A i \in Ws!Ids, d \in Clients : clients'[i] = d => Added(d)'
    BY <2>6, <2>9 DEF WsInv
  <2>11. \A d \in Clients : client'[d].ch # <<>> \/ got'[d] # <<>> =>
             client[d].ch # <<>> \/ got[d] # <<>>
    BY <1>3, <2>1, <2>3
  <2>12. \A d \in Clients : client'[d].ch # <<>> \/ got'[d] # <<>> =>
             Added(d)' /\ client'[d].id # 0
    BY <2>4, <2>6, <2>11 DEF WsInv
  <2>13. \A d \in Clients : client'[d].wr # "new" => Added(d)'
    BY <2>1, <2>6 DEF WsInv
  <2> QED BY <1>0, <1>3, <2>1, <2>2, <2>3, <2>4, <2>5, <2>7, <2>10, <2>12, <2>13 DEF WsInv
<1>4. ASSUME NEW c \in Clients, Ws!Connect(c) PROVE WsInv'
  <2>1. /\ client[c].rd = "new" /\ maxId' = maxId + 1 /\ UNCHANGED <<clients, sends, got>>
    BY <1>4 DEF Ws!Connect
  <2>2. PICK r \in ClientType : r = [client[c] EXCEPT !.rd = "making"]
    BY <1>0 DEF ClientType
  <2>3. /\ r.rd = "making" /\ r.id = client[c].id /\ r.wr = client[c].wr
        /\ r.ch = client[c].ch /\ r.done = client[c].done
    BY <1>0, <2>2 DEF ClientType
  <2>4. Becomes(c, r) BY <1>0, <1>4, <2>2, OneClient
  <2>5. /\ client' \in [Clients -> ClientType] /\ client'[c] = r
        /\ \A d \in Clients \ {c} : client'[d] = client[d]
    BY <1>0, <2>4, UpdateOne DEF Becomes
  <2>6. Connected' = Connected \cup {c} /\ c \notin Connected
    BY <2>1, <2>3, <2>5 DEF Connected
  <2>7. IsFiniteSet(Connected)
    <3>1. IsFiniteSet(Clients)
      BY RecordsAssumption DEF Ws!WebSocketAssumption, IsFiniteSet, Ws!IsFiniteSet
    <3> QED BY <3>1, FS_Subset DEF Connected
  <2>8. maxId' = Cardinality(Connected') BY <2>1, <2>6, <2>7, FS_AddElement DEF WsInv
  <2>9. \A d \in Clients : client'[d].id <= maxId'
    <3>1. \A d \in Clients : client[d].id \in Nat /\ client[d].id <= maxId
      BY <1>0, UpdateRecord DEF WsInv
    <3>2. maxId \in Nat BY CounterBounds
    <3> QED BY <2>1, <2>3, <2>5, <3>1, <3>2
  <2>10. \A d \in Clients : Added(d)' = Added(d)
    BY <2>1, <2>3, <2>5 DEF Added
  <2>11. \A d \in Clients : /\ client'[d].id = client[d].id /\ client'[d].done = client[d].done
                            /\ client'[d].wr = client[d].wr /\ client'[d].ch = client[d].ch
    BY <2>3, <2>5
  <2>12. \A d \in Clients : client'[d].rd \in {"new", "making"} => client'[d].id = 0
    BY <2>1, <2>5, <2>11 DEF WsInv
  <2>13. \A d \in Clients : client'[d].rd \in {"leave", "returned"} => client'[d].done
    BY <2>3, <2>5 DEF WsInv
  <2> QED BY <1>0, <2>1, <2>5, <2>8, <2>9, <2>10, <2>11, <2>12, <2>13 DEF WsInv
<1>5. ASSUME NEW c \in Clients, Ws!NewClient(c) PROVE WsInv'
  <2>1. /\ client[c].rd = "making" /\ UNCHANGED <<maxId, clients, sends, got>>
    BY <1>5 DEF Ws!NewClient
  <2>0. maxId \in Nat BY CounterBounds
  <2>2. PICK r \in ClientType : r = [client[c] EXCEPT !.rd = "adding", !.id = maxId]
    BY <1>0, <2>0, UpdateRecord
  <2>3. /\ r.rd = "adding" /\ r.id = maxId /\ r.wr = client[c].wr
        /\ r.ch = client[c].ch /\ r.done = client[c].done
    BY <1>0, <2>0, <2>2 DEF ClientType
  <2>4. Becomes(c, r) BY <1>0, <1>5, <2>2, OneClient
  <2>5. /\ client' \in [Clients -> ClientType] /\ client'[c] = r
        /\ \A d \in Clients \ {c} : client'[d] = client[d]
    BY <1>0, <2>4, UpdateOne DEF Becomes
  <2>6. Connected' = Connected BY <2>1, <2>3, <2>5 DEF Connected
  <2>7. ASSUME NEW d \in Clients PROVE client'[d].id <= maxId'
    <3>1. CASE d = c
      <4>1. client'[d].id = maxId /\ maxId' = maxId BY <2>1, <2>3, <2>5, <3>1
      <4> QED BY <2>0, <4>1
    <3>2. CASE d # c
      <4>1. client'[d] = client[d] /\ maxId' = maxId BY <2>1, <2>5, <3>2
      <4>2. client[d].id <= maxId BY DEF WsInv
      <4> QED BY <4>1, <4>2
    <3> QED BY <3>1, <3>2
  <2>8. ~Added(c) /\ \A d \in Clients : Added(d)' = Added(d)
    BY <2>1, <2>3, <2>5 DEF Added
  <2>9. client[c].ch = <<>> /\ got[c] = <<>> BY <2>8 DEF WsInv
  <2>10. \A d \in Clients : client'[d].wr = client[d].wr /\ client'[d].ch = client[d].ch
    BY <2>3, <2>5
  <2>11. \A d \in Clients : client'[d].ch # <<>> \/ got'[d] # <<>> =>
             Added(d)' /\ client'[d].id # 0
    BY <2>1, <2>5, <2>8, <2>9, <2>10 DEF WsInv
  <2>12. \A d \in Clients : client'[d].rd \in {"new", "making"} => client'[d].id = 0
    BY <2>3, <2>5 DEF WsInv
  <2>13. \A d \in Clients : client'[d].rd \in {"leave", "returned"} => client'[d].done
    BY <2>3, <2>5 DEF WsInv
  <2>14. \A d \in Clients : client'[d].wr # "new" => Added(d)'
    BY <2>8, <2>10 DEF WsInv
  <2>15. \A i \in Ws!Ids, d \in Clients : clients'[i] = d => Added(d)'
    BY <2>1, <2>8 DEF WsInv
  <2> QED BY <1>0, <2>1, <2>5, <2>6, <2>7, <2>11, <2>12, <2>13, <2>14, <2>15 DEF WsInv
<1>6. ASSUME NEW c \in Clients, Ws!Add(c) PROVE WsInv'
  <2>1. /\ client[c].rd = "adding" /\ UNCHANGED <<maxId, sends, got>>
        /\ clients' = [clients EXCEPT ![client[c].id] = c]
    BY <1>6 DEF Ws!Add
  <2>2. PICK r \in ClientType : r = [client[c] EXCEPT !.rd = "listen", !.wr = "listen"]
    BY <1>0 DEF ClientType
  <2>3. r.rd = "listen" /\ r.id = client[c].id /\ r.ch = client[c].ch
    BY <1>0, <2>2 DEF ClientType
  <2>4. Becomes(c, r) BY <1>0, <1>6, <2>2, OneClient
  <2> QED BY <1>3, <2>1, <2>3, <2>4
<1>7. ASSUME NEW c \in Clients, Ws!WriteNext(c) PROVE WsInv'
  <2>1. /\ client[c].ch # <<>> /\ UNCHANGED <<maxId, clients, sends>>
        /\ \/ UNCHANGED got
           \/ got' = [got EXCEPT ![c] = Append(@, Head(client[c].ch))]
    BY <1>7 DEF Ws!WriteNext
  <2>2. client[c].ch \in Seq(Nat) /\ got[c] \in Seq(Nat)
    BY <1>0 DEF ClientType
  <2>3. Tail(client[c].ch) \in Seq(Nat) /\ Append(got[c], Head(client[c].ch)) \in Seq(Nat)
    BY <2>1, <2>2
  <2>4. \/ UNCHANGED got \/ \E s \in Seq(Nat) : got' = [got EXCEPT ![c] = s]
    BY <2>1, <2>3
  <2>5. Added(c) BY <2>1 DEF WsInv
  <2>6. PICK r \in ClientType :
            /\ Becomes(c, r) /\ r.rd = client[c].rd /\ r.id = client[c].id
            /\ r.done = client[c].done \/ r.done
    <3>1. CASE Becomes(c, [client[c] EXCEPT !.ch = Tail(@)])
      <4> DEFINE r == [client[c] EXCEPT !.ch = Tail(@)]
      <4>1. r \in ClientType /\ r.rd = client[c].rd /\ r.id = client[c].id
            /\ r.done = client[c].done
        BY <1>0, <2>3 DEF ClientType
      <4> QED BY <3>1, <4>1
    <3>2. CASE Becomes(c, [client[c] EXCEPT !.ch = Tail(@), !.wr = "returned", !.done = TRUE])
      <4> DEFINE r == [client[c] EXCEPT !.ch = Tail(@), !.wr = "returned", !.done = TRUE]
      <4>1. r \in ClientType /\ r.rd = client[c].rd /\ r.id = client[c].id /\ r.done
        BY <1>0, <2>3 DEF ClientType
      <4> QED BY <3>2, <4>1
    <3> QED BY <1>0, <1>7, <3>1, <3>2, OneClient
  <2>7. r.rd \in {"leave", "returned"} => r.done BY <2>6 DEF WsInv
  <2> QED BY <1>3, <2>1, <2>4, <2>5, <2>6, <2>7 DEF Added
<1>8. ASSUME NEW c \in Clients, Ws!WriterDone(c) PROVE WsInv'
  <2>1. /\ client[c].wr = "listen" /\ UNCHANGED <<maxId, sends, got>>
        /\ clients' = [clients EXCEPT ![client[c].id] = NoClient]
    BY <1>8 DEF Ws!WriterDone, Ws!Del
  <2>2. PICK r \in ClientType : r = [client[c] EXCEPT !.wr = "returned"]
    BY <1>0 DEF ClientType
  <2>3. /\ r.rd = client[c].rd /\ r.id = client[c].id /\ r.ch = client[c].ch
        /\ r.done = client[c].done
    BY <1>0, <2>2 DEF ClientType
  <2>4. Becomes(c, r) BY <1>0, <1>8, <2>2, OneClient
  <2>5. Added(c) /\ (r.rd \in {"leave", "returned"} => r.done) BY <2>1, <2>3 DEF WsInv
  <2> QED BY <1>3, <2>1, <2>3, <2>4, <2>5 DEF Added
<1>9. ASSUME NEW c \in Clients,
             Ws!ReadEOF(c) \/ Ws!ReadMessage(c) \/ Ws!ReaderDone(c)
      PROVE  WsInv'
  <2>1. /\ Added(c) /\ UNCHANGED <<maxId, sends, got>>
        /\ \/ UNCHANGED clients
           \/ clients' = [clients EXCEPT ![client[c].id] = NoClient]
    BY <1>9 DEF Ws!ReadEOF, Ws!ReadMessage, Ws!ReaderDone, Ws!Del, Added
  <2>2. PICK r \in ClientType :
            /\ Becomes(c, r) /\ r.rd \in {"leave", "returned"} /\ r.id = client[c].id
            /\ r.ch = client[c].ch /\ r.done
    <3>1. CASE Ws!ReadEOF(c)
      <4> DEFINE r == [client[c] EXCEPT !.rd = "leave", !.done = TRUE]
      <4>1. r \in ClientType /\ r.rd = "leave" /\ r.id = client[c].id /\ r.ch = client[c].ch
            /\ r.done
        BY <1>0 DEF ClientType
      <4> QED BY <1>0, <3>1, <4>1, OneClient
    <3>2. CASE Ws!ReadMessage(c)
      <4> DEFINE r == [client[c] EXCEPT !.rd = "leave"]
      <4>1. r \in ClientType /\ r.rd = "leave" /\ r.id = client[c].id /\ r.ch = client[c].ch
            /\ r.done = client[c].done
        BY <1>0 DEF ClientType
      <4>2. client[c].done BY <3>2 DEF Ws!ReadMessage
      <4> QED BY <1>0, <3>2, <4>1, <4>2, OneClient
    <3>3. CASE Ws!ReaderDone(c)
      <4> DEFINE r == [client[c] EXCEPT !.rd = "returned"]
      <4>1. r \in ClientType /\ r.rd = "returned" /\ r.id = client[c].id /\ r.ch = client[c].ch
            /\ r.done = client[c].done
        BY <1>0 DEF ClientType
      <4>2. client[c].done BY <3>3 DEF Ws!ReaderDone, WsInv
      <4> QED BY <1>0, <3>3, <4>1, <4>2, OneClient
    <3> QED BY <1>9, <3>1, <3>2, <3>3
  <2> QED BY <1>3, <2>1, <2>2 DEF Added
<1> QED BY <1>1, <1>2, <1>4, <1>5, <1>6, <1>7, <1>8, <1>9 DEF Ws!WsNext

(* The fields of a client after each of its steps.                          *)
LEMMA WsEffects ==
    ASSUME client \in [Clients -> ClientType], NEW c \in Clients
    PROVE  LET next == client'[c]
               now == client[c]
           IN  /\ Ws!Connect(c) => /\ next.rd = "making" /\ next.id = now.id
                                   /\ next.ch = now.ch /\ next.done = now.done
               /\ Ws!NewClient(c) => /\ next.rd = "adding" /\ next.id = maxId
                                     /\ next.ch = now.ch /\ next.done = now.done
               /\ Ws!Add(c) => /\ next.rd = "listen" /\ next.id = now.id
                               /\ next.ch = now.ch /\ next.done = now.done
               /\ Ws!WriteNext(c) => /\ next.rd = now.rd /\ next.id = now.id
                                     /\ next.ch = Tail(now.ch)
                                     /\ next.done = now.done \/ next.done
               /\ Ws!WriterDone(c) => /\ next.rd = now.rd /\ next.id = now.id
                                      /\ next.ch = now.ch /\ next.done = now.done
               /\ Ws!ReadEOF(c) => /\ next.rd = "leave" /\ next.id = now.id
                                   /\ next.ch = now.ch /\ next.done
               /\ Ws!ReadMessage(c) => /\ next.rd = "leave" /\ next.id = now.id
                                       /\ next.ch = now.ch /\ next.done = now.done
               /\ Ws!ReaderDone(c) => /\ next.rd = "returned" /\ next.id = now.id
                                      /\ next.ch = now.ch /\ next.done = now.done
               /\ \/ Ws!Connect(c) \/ Ws!NewClient(c) \/ Ws!Add(c) \/ Ws!WriteNext(c)
                  \/ Ws!WriterDone(c) \/ Ws!ReadEOF(c) \/ Ws!ReadMessage(c)
                  \/ Ws!ReaderDone(c)
                  => \A d \in Clients \ {c} : client'[d] = client[d]
<1>1. client[c] \in ClientType OBVIOUS
<1>2. ASSUME NEW r, Becomes(c, r)
      PROVE  client'[c] = r /\ \A d \in Clients \ {c} : client'[d] = client[d]
  BY <1>2 DEF Becomes
<1>3. ASSUME Ws!Connect(c) PROVE client'[c] = [client[c] EXCEPT !.rd = "making"]
  BY <1>2, <1>3, OneClient
<1>4. ASSUME Ws!NewClient(c)
      PROVE  client'[c] = [client[c] EXCEPT !.rd = "adding", !.id = maxId]
  BY <1>2, <1>4, OneClient
<1>5. ASSUME Ws!Add(c)
      PROVE  client'[c] = [client[c] EXCEPT !.rd = "listen", !.wr = "listen"]
  BY <1>2, <1>5, OneClient
<1>6. ASSUME Ws!WriteNext(c)
      PROVE  \/ client'[c] = [client[c] EXCEPT !.ch = Tail(@)]
             \/ client'[c] = [client[c] EXCEPT !.ch = Tail(@), !.wr = "returned", !.done = TRUE]
  BY <1>2, <1>6, OneClient
<1>7. ASSUME Ws!WriterDone(c) PROVE client'[c] = [client[c] EXCEPT !.wr = "returned"]
  BY <1>2, <1>7, OneClient
<1>8. ASSUME Ws!ReadEOF(c)
      PROVE  client'[c] = [client[c] EXCEPT !.rd = "leave", !.done = TRUE]
  BY <1>2, <1>8, OneClient
<1>9. ASSUME Ws!ReadMessage(c) PROVE client'[c] = [client[c] EXCEPT !.rd = "leave"]
  BY <1>2, <1>9, OneClient
<1>10. ASSUME Ws!ReaderDone(c) PROVE client'[c] = [client[c] EXCEPT !.rd = "returned"]
  BY <1>2, <1>10, OneClient
<1>11. ASSUME \/ Ws!Connect(c) \/ Ws!NewClient(c) \/ Ws!Add(c) \/ Ws!WriteNext(c)
              \/ Ws!WriterDone(c) \/ Ws!ReadEOF(c) \/ Ws!ReadMessage(c) \/ Ws!ReaderDone(c)
       PROVE  \A d \in Clients \ {c} : client'[d] = client[d]
  <2>1. \E r : Becomes(c, r) BY <1>11, OneClient
  <2> QED BY <1>2, <2>1
<1>12. Ws!Connect(c) => /\ client'[c].rd = "making" /\ client'[c].id = client[c].id
                        /\ client'[c].ch = client[c].ch /\ client'[c].done = client[c].done
  BY <1>1, <1>3 DEF ClientType
<1>13. Ws!NewClient(c) => /\ client'[c].rd = "adding" /\ client'[c].id = maxId
                          /\ client'[c].ch = client[c].ch /\ client'[c].done = client[c].done
  BY <1>1, <1>4 DEF ClientType
<1>14. Ws!Add(c) => /\ client'[c].rd = "listen" /\ client'[c].id = client[c].id
                    /\ client'[c].ch = client[c].ch /\ client'[c].done = client[c].done
  BY <1>1, <1>5 DEF ClientType
<1>15. Ws!WriteNext(c) => /\ client'[c].rd = client[c].rd /\ client'[c].id = client[c].id
                          /\ client'[c].ch = Tail(client[c].ch)
                          /\ client'[c].done = client[c].done \/ client'[c].done
  BY <1>1, <1>6 DEF ClientType
<1>16. Ws!WriterDone(c) => /\ client'[c].rd = client[c].rd /\ client'[c].id = client[c].id
                           /\ client'[c].ch = client[c].ch /\ client'[c].done = client[c].done
  BY <1>1, <1>7 DEF ClientType
<1>17. Ws!ReadEOF(c) => /\ client'[c].rd = "leave" /\ client'[c].id = client[c].id
                        /\ client'[c].ch = client[c].ch /\ client'[c].done
  BY <1>1, <1>8 DEF ClientType
<1>18. Ws!ReadMessage(c) => /\ client'[c].rd = "leave" /\ client'[c].id = client[c].id
                            /\ client'[c].ch = client[c].ch /\ client'[c].done = client[c].done
  BY <1>1, <1>9 DEF ClientType
<1>19. Ws!ReaderDone(c) => /\ client'[c].rd = "returned" /\ client'[c].id = client[c].id
                           /\ client'[c].ch = client[c].ch /\ client'[c].done = client[c].done
  BY <1>1, <1>10 DEF ClientType
<1> QED BY <1>11, <1>12, <1>13, <1>14, <1>15, <1>16, <1>17, <1>18, <1>19

(* An id, once taken, is kept: a client that is alone with it has been.     *)
LEMMA IdsKept ==
    ASSUME WsInv, [Ws!WsNext]_wsvars, NEW c \in Clients, client[c].id # 0
    PROVE  /\ client'[c].id = client[c].id
           /\ Ws!Alone(c)' => Ws!Alone(c)
<1>1. client \in [Clients -> ClientType] BY DEF WsInv
<1>2. ASSUME NEW d \in Clients, client[d].id # 0 PROVE client'[d].id = client[d].id
  <2>1. CASE UNCHANGED wsvars BY <2>1 DEF wsvars
  <2>2. CASE Ws!SendAll
    <3>1. client'[d] \in {client[d], [client[d] EXCEPT !.ch = Append(@, sends + 1)]}
      BY <2>2 DEF Ws!SendAll
    <3> QED BY <1>1, <3>1 DEF ClientType
  <2>3. ASSUME NEW e \in Clients,
               \/ Ws!Connect(e) \/ Ws!NewClient(e) \/ Ws!Add(e) \/ Ws!WriteNext(e)
               \/ Ws!WriterDone(e) \/ Ws!ReadEOF(e) \/ Ws!ReadMessage(e) \/ Ws!ReaderDone(e)
        PROVE  client'[d].id = client[d].id
    <3>1. CASE e # d BY <1>1, <2>3, <3>1, WsEffects
    <3>2. CASE e = d
      <4>1. ~Ws!NewClient(d) BY <1>2 DEF WsInv, Ws!NewClient
      <4> QED BY <1>1, <2>3, <3>2, <4>1, WsEffects
    <3> QED BY <3>1, <3>2
  <2> QED BY <2>1, <2>2, <2>3 DEF Ws!WsNext
<1>3. ASSUME Ws!Alone(c)', NEW d \in Clients \ {c} PROVE client[d].id # client[c].id
  BY <1>2, <1>3 DEF Ws!Alone
<1> QED BY <1>2, <1>3 DEF Ws!Alone

LEMMA KnownStep ==
    ASSUME WsInv, Ws!KnownWhileConnected, [Ws!WsNext]_wsvars
    PROVE  Ws!KnownWhileConnected'
<1> SUFFICES ASSUME NEW c \in Clients, client'[c].id # 0, Ws!Alone(c)'
             PROVE  /\ client'[c].rd = "listen" /\ ~client'[c].done => Ws!Registered(c)'
                    /\ client'[c].rd = "returned" => ~Ws!Registered(c)'
  BY DEF Ws!KnownWhileConnected
<1> DEFINE Facts == /\ client[c].rd = "listen" /\ ~client[c].done => Ws!Registered(c)
                    /\ client[c].rd = "returned" => ~Ws!Registered(c)
           Goal == /\ client'[c].rd = "listen" /\ ~client'[c].done => Ws!Registered(c)'
                   /\ client'[c].rd = "returned" => ~Ws!Registered(c)'
<1>0. /\ client \in [Clients -> ClientType] /\ NoClient \notin Clients
      /\ clients \in [Ws!Ids -> Clients \cup {NoClient}]
      /\ \A d \in Clients : client[d].id \in Ws!Ids
  BY RecordsAssumption, CounterBounds DEF WsInv, Ws!WebSocketAssumption
<1>1. ASSUME client[c].id # 0
      PROVE  /\ client'[c].id = client[c].id /\ Facts
             /\ \A d \in Clients \ {c} : client[d].id # client[c].id
  BY <1>1, IdsKept DEF Ws!KnownWhileConnected, Ws!Alone
<1>2. CASE client[c].id = 0
  <2>1. client'[c].rd \notin {"listen", "returned"}
    <3>1. CASE UNCHANGED wsvars BY <1>2, <3>1 DEF wsvars
    <3>2. CASE Ws!SendAll
      <4>1. client'[c] \in {client[c], [client[c] EXCEPT !.ch = Append(@, sends + 1)]}
        BY <3>2 DEF Ws!SendAll
      <4> QED BY <1>0, <1>2, <4>1 DEF ClientType
    <3>3. ASSUME NEW d \in Clients,
                 \/ Ws!Connect(d) \/ Ws!NewClient(d) \/ Ws!Add(d) \/ Ws!WriteNext(d)
                 \/ Ws!WriterDone(d) \/ Ws!ReadEOF(d) \/ Ws!ReadMessage(d) \/ Ws!ReaderDone(d)
          PROVE  client'[c].rd \notin {"listen", "returned"}
      <4>1. CASE d # c
        <5>1. client'[c] = client[c] BY <1>0, <3>3, <4>1, WsEffects
        <5> QED BY <1>2, <5>1
      <4>2. CASE d = c
        BY <1>0, <1>2, <3>3, <4>2, WsEffects
      <4> QED BY <4>1, <4>2
    <3> QED BY <3>1, <3>2, <3>3 DEF Ws!WsNext
  <2> QED BY <2>1
<1>3. CASE client[c].id # 0
  <2>1. CASE UNCHANGED wsvars BY <1>1, <1>3, <2>1 DEF wsvars, Ws!Registered
  <2>2. CASE Ws!SendAll
    <3>1. client'[c] \in {client[c], [client[c] EXCEPT !.ch = Append(@, sends + 1)]}
      BY <2>2 DEF Ws!SendAll
    <3>2. client'[c].rd = client[c].rd /\ client'[c].done = client[c].done
      BY <1>0, <3>1 DEF ClientType
    <3>3. UNCHANGED clients BY <2>2 DEF Ws!SendAll
    <3> QED BY <1>1, <1>3, <3>2, <3>3 DEF Ws!Registered
  <2>3. ASSUME NEW d \in Clients \ {c},
               \/ Ws!Connect(d) \/ Ws!NewClient(d) \/ Ws!Add(d) \/ Ws!WriteNext(d)
               \/ Ws!WriterDone(d) \/ Ws!ReadEOF(d) \/ Ws!ReadMessage(d) \/ Ws!ReaderDone(d)
        PROVE  Goal
    <3>1. client'[c] = client[c] BY <1>0, <2>3, WsEffects
    <3>2. \/ UNCHANGED clients
          \/ \E x : clients' = [clients EXCEPT ![client[d].id] = x]
      BY <2>3 DEF Ws!Connect, Ws!NewClient, Ws!Add, Ws!WriteNext, Ws!WriterDone, Ws!ReadEOF,
                  Ws!ReadMessage, Ws!ReaderDone, Ws!Del
    <3>3. client[d].id # client[c].id BY <1>1, <1>3
    <3>4. clients'[client[c].id] = clients[client[c].id] BY <1>0, <3>2, <3>3
    <3> QED BY <1>1, <1>3, <3>1, <3>4 DEF Ws!Registered
  <2>4. CASE Ws!Connect(c) \/ Ws!NewClient(c)
    BY <1>0, <1>3, <2>4, WsEffects
  <2>5. CASE Ws!Add(c)
    <3>1. client'[c].rd = "listen" BY <1>0, <2>5, WsEffects
    <3>2. clients'[client[c].id] = c BY <1>0, <2>5 DEF Ws!Add
    <3> QED BY <1>1, <1>3, <3>1, <3>2 DEF Ws!Registered
  <2>6. CASE Ws!WriteNext(c)
    <3>1. /\ client'[c].rd = client[c].rd /\ UNCHANGED clients
          /\ ~client'[c].done => ~client[c].done
      BY <1>0, <2>6, WsEffects DEF Ws!WriteNext
    <3> QED BY <1>1, <1>3, <3>1 DEF Ws!Registered
  <2>7. CASE Ws!WriterDone(c)
    <3>1. client'[c].rd = client[c].rd /\ client[c].done /\ client'[c].done = client[c].done
      BY <1>0, <2>7, WsEffects DEF Ws!WriterDone
    <3>2. clients'[client[c].id] = NoClient BY <1>0, <2>7 DEF Ws!WriterDone, Ws!Del
    <3> QED BY <1>0, <1>1, <1>3, <3>1, <3>2 DEF Ws!Registered
  <2>8. CASE Ws!ReadEOF(c) \/ Ws!ReadMessage(c)
    BY <1>0, <2>8, WsEffects
  <2>9. CASE Ws!ReaderDone(c)
    <3>1. client'[c].rd = "returned" BY <1>0, <2>9, WsEffects
    <3>2. clients'[client[c].id] = NoClient BY <1>0, <2>9 DEF Ws!ReaderDone, Ws!Del
    <3> QED BY <1>0, <1>1, <1>3, <3>1, <3>2 DEF Ws!Registered
  <2> QED BY <2>1, <2>2, <2>3, <2>4, <2>5, <2>6, <2>7, <2>8, <2>9 DEF Ws!WsNext
<1> QED BY <1>2, <1>3

LEMMA ElementsOfAppend ==
    ASSUME NEW s \in Seq(Nat), NEW x \in Nat
    PROVE  /\ Append(s, x) \in Seq(Nat)
           /\ Ws!Elements(Append(s, x)) = Ws!Elements(s) \cup {x}
           /\ Ws!Increasing(s) /\ (\A k \in Ws!Elements(s) : k < x) =>
                 Ws!Increasing(Append(s, x))
<1>1. /\ Len(s) \in Nat /\ DOMAIN s = 1 .. Len(s) /\ DOMAIN Append(s, x) = 1 .. Len(s) + 1
      /\ \A i \in 1 .. Len(s) : Append(s, x)[i] = s[i]
      /\ Append(s, x)[Len(s) + 1] = x
  OBVIOUS
<1>2. 1 .. Len(s) + 1 = (1 .. Len(s)) \cup {Len(s) + 1} BY <1>1
<1>3. Ws!Elements(Append(s, x)) = Ws!Elements(s) \cup {x}
  BY <1>1, <1>2 DEF Ws!Elements
<1>4. ASSUME Ws!Increasing(s), \A k \in Ws!Elements(s) : k < x
      PROVE  Ws!Increasing(Append(s, x))
  <2> SUFFICES ASSUME NEW i \in 1 .. Len(s) + 1, NEW j \in 1 .. Len(s) + 1, i < j
               PROVE  Append(s, x)[i] < Append(s, x)[j]
    BY <1>1 DEF Ws!Increasing
  <2>1. i \in 1 .. Len(s) BY <1>1
  <2>2. CASE j \in 1 .. Len(s) BY <1>1, <1>4, <2>1, <2>2 DEF Ws!Increasing
  <2>3. CASE j = Len(s) + 1 BY <1>1, <1>4, <2>1, <2>3 DEF Ws!Elements
  <2> QED BY <1>2, <2>2, <2>3
<1> QED BY <1>3, <1>4

LEMMA ElementsOfTail ==
    ASSUME NEW s \in Seq(Nat), s # <<>>
    PROVE  /\ Head(s) \in Nat /\ Tail(s) \in Seq(Nat)
           /\ Ws!Elements(s) = {Head(s)} \cup Ws!Elements(Tail(s))
           /\ Ws!Increasing(s) => /\ Ws!Increasing(Tail(s))
                                  /\ \A k \in Ws!Elements(Tail(s)) : Head(s) < k
<1>1. /\ Len(s) \in Nat \ {0} /\ DOMAIN s = 1 .. Len(s) /\ Head(s) = s[1] /\ Head(s) \in Nat
      /\ Tail(s) \in Seq(Nat) /\ DOMAIN Tail(s) = 1 .. Len(s) - 1
      /\ \A i \in 1 .. Len(s) - 1 : Tail(s)[i] = s[i + 1]
  OBVIOUS
<1>2. ASSUME NEW k \in Ws!Elements(s) PROVE k = Head(s) \/ k \in Ws!Elements(Tail(s))
  <2>1. PICK i \in 1 .. Len(s) : s[i] = k BY <1>1 DEF Ws!Elements
  <2>2. CASE i = 1 BY <1>1, <2>1, <2>2
  <2>3. CASE i # 1
    <3>1. i - 1 \in 1 .. Len(s) - 1 /\ Tail(s)[i - 1] = k BY <1>1, <2>1, <2>3
    <3> QED BY <1>1, <3>1 DEF Ws!Elements
  <2> QED BY <2>2, <2>3
<1>3. ASSUME NEW k \in Ws!Elements(Tail(s))
      PROVE  \E i \in 2 .. Len(s) : s[i] = k
  <2>1. PICK i \in 1 .. Len(s) - 1 : Tail(s)[i] = k BY <1>1 DEF Ws!Elements
  <2>2. i + 1 \in 2 .. Len(s) /\ s[i + 1] = k BY <1>1, <2>1
  <2> QED BY <2>2
<1>4. Ws!Elements(s) = {Head(s)} \cup Ws!Elements(Tail(s))
  <2>1. Head(s) \in Ws!Elements(s) BY <1>1 DEF Ws!Elements
  <2>2. \A k \in Ws!Elements(Tail(s)) : k \in Ws!Elements(s) BY <1>1, <1>3 DEF Ws!Elements
  <2> QED BY <1>2, <2>1, <2>2
<1>5. ASSUME Ws!Increasing(s)
      PROVE  Ws!Increasing(Tail(s)) /\ \A k \in Ws!Elements(Tail(s)) : Head(s) < k
  <2>1. \A k \in Ws!Elements(Tail(s)) : Head(s) < k BY <1>1, <1>3, <1>5 DEF Ws!Increasing
  <2>2. ASSUME NEW i \in 1 .. Len(s) - 1, NEW j \in 1 .. Len(s) - 1, i < j
        PROVE  Tail(s)[i] < Tail(s)[j]
    <3>1. i + 1 \in 1 .. Len(s) /\ j + 1 \in 1 .. Len(s) /\ i + 1 < j + 1 BY <1>1, <2>2
    <3>2. s[i + 1] < s[j + 1] BY <1>1, <1>5, <3>1 DEF Ws!Increasing
    <3> QED BY <1>1, <3>2
  <2>3. Ws!Increasing(Tail(s)) BY <1>1, <2>2 DEF Ws!Increasing
  <2> QED BY <2>1, <2>3
<1> QED BY <1>1, <1>4, <1>5

(* What a peer has been sent and what is queued for it are older than the   *)
(* next record; a queue that is not empty belongs to a client the server    *)
(* knows, so that the next record follows without a gap.                    *)
Queue(c) == client[c].ch
Wanted(c) == Ws!Elements(got[c]) \cup unsent[c] \cup (Ws!Elements(Queue(c)) \cap Wants[c])
InOrderOf(c) ==
    /\ \A k \in Ws!Elements(got[c]) \cup Ws!Elements(Queue(c)) : k \in Nat /\ k <= sends
    /\ Ws!Increasing(got[c]) /\ Ws!Increasing(Queue(c))
    /\ \A k \in Ws!Elements(got[c]), n \in Ws!Elements(Queue(c)) : k < n
    /\ Ws!Elements(got[c]) \subseteq Wants[c]
NoGap(c) ==
    ~client[c].done /\ Ws!Alone(c) =>
        \A k \in Wants[c] :
            k <= sends /\ (\E n \in Wanted(c) : n <= k) => k \in Wanted(c) \cup missed[c]
OrderInv ==
    /\ unsent \in [Clients -> SUBSET Nat]
    /\ \A c \in Clients : unsent[c] # {} => Added(c) /\ client[c].id # 0
    /\ \A c \in Clients : InOrderOf(c) /\ NoGap(c)

LEMMA OrderUnchanged ==
    ASSUME WsInv, OrderInv, [Ws!WsNext]_wsvars, NEW c \in Clients, UNCHANGED sends,
           Queue(c)' = Queue(c), got'[c] = got[c], missed'[c] = missed[c],
           unsent'[c] = unsent[c],
           client[c].done => client'[c].done
    PROVE  InOrderOf(c)' /\ NoGap(c)'
<1>1. Wanted(c)' = Wanted(c) BY DEF Wanted
<1>2. InOrderOf(c)' BY DEF OrderInv, InOrderOf
<1>3. ASSUME ~client'[c].done, Ws!Alone(c)', NEW k \in Wants[c],
             k <= sends, \E n \in Wanted(c) : n <= k
      PROVE  k \in Wanted(c) \cup missed[c]
  <2>1. client[c].ch # <<>> \/ got[c] # <<>> \/ unsent[c] # {}
    BY <1>3 DEF Wanted, Queue, Ws!Elements
  <2>2. client[c].id # 0 BY <2>1 DEF WsInv, OrderInv
  <2>3. Ws!Alone(c) BY <1>3, <2>2, IdsKept
  <2> QED BY <1>3, <2>3 DEF OrderInv, NoGap
<1> QED BY <1>1, <1>2, <1>3 DEF NoGap

(* A record that could not be sent to c.                                    *)
Lost(c, h) ==
    /\ h \in Wants[c] /\ got'[c] = got[c]
    /\ unsent'[c] = unsent[c] \cup {h}

LEMMA UnsentStep ==
    ASSUME WsInv, OrderInv, [Ws!WsNext]_wsvars
    PROVE  /\ unsent' \in [Clients -> SUBSET Nat]
           /\ \A c \in Clients : unsent'[c] # {} => Added(c)' /\ client'[c].id # 0
<1>1. WsInv' BY WsInvStep
<1>2. client \in [Clients -> ClientType] BY DEF WsInv
<1>3. ASSUME NEW c \in Clients, Added(c), client[c].id # 0
      PROVE  Added(c)' /\ client'[c].id # 0
  <2>1. client'[c].id # 0 BY <1>3, IdsKept
  <2>2. client'[c].rd \in {"listen", "leave", "returned"}
    <3>1. CASE UNCHANGED wsvars BY <1>3, <3>1 DEF wsvars, Added
    <3>2. CASE Ws!SendAll
      <4>1. client'[c] \in {client[c], [client[c] EXCEPT !.ch = Append(@, sends + 1)]}
        BY <3>2 DEF Ws!SendAll
      <4> QED BY <1>2, <1>3, <4>1 DEF ClientType, Added
    <3>3. ASSUME NEW d \in Clients,
                 \/ Ws!Connect(d) \/ Ws!NewClient(d) \/ Ws!Add(d) \/ Ws!WriteNext(d)
                 \/ Ws!WriterDone(d) \/ Ws!ReadEOF(d) \/ Ws!ReadMessage(d) \/ Ws!ReaderDone(d)
          PROVE  client'[c].rd \in {"listen", "leave", "returned"}
      <4>1. CASE d # c
        <5>1. client'[c] = client[c] BY <1>2, <3>3, <4>1, WsEffects
        <5> QED BY <1>3, <5>1 DEF Added
      <4>2. CASE d = c
        <5>1. ~Ws!Connect(c) /\ ~Ws!NewClient(c)
          BY <1>3 DEF Ws!Connect, Ws!NewClient, Added
        <5> QED BY <1>2, <1>3, <3>3, <4>2, <5>1, WsEffects DEF Added
      <4> QED BY <4>1, <4>2
    <3> QED BY <3>1, <3>2, <3>3 DEF Ws!WsNext
  <2> QED BY <2>1, <2>2 DEF Added
<1>4. CASE UNCHANGED unsent
  BY <1>3, <1>4 DEF OrderInv
<1>5. ASSUME NEW c \in Clients, Ws!WriteNext(c),
             unsent' = [unsent EXCEPT ![c] = unsent[c] \cup {Head(client[c].ch)}]
      PROVE  /\ unsent' \in [Clients -> SUBSET Nat]
             /\ \A d \in Clients : unsent'[d] # {} => Added(d)' /\ client'[d].id # 0
  <2>1. client[c].ch # <<>> BY <1>5 DEF Ws!WriteNext
  <2>2. Added(c) /\ client[c].id # 0 BY <2>1 DEF WsInv
  <2>3. client[c].ch \in Seq(Nat) BY <1>2 DEF ClientType
  <2>4. Head(client[c].ch) \in Nat BY <2>1, <2>3
  <2>5. unsent' \in [Clients -> SUBSET Nat] BY <1>5, <2>4 DEF OrderInv
  <2>6. \A d \in Clients \ {c} : unsent'[d] = unsent[d] BY <1>5 DEF OrderInv
  <2> QED BY <1>3, <2>2, <2>5, <2>6 DEF OrderInv
<1>6. \/ UNCHANGED unsent
      \/ \E c \in Clients : /\ Ws!WriteNext(c)
                            /\ unsent' = [unsent EXCEPT ![c] = unsent[c] \cup {Head(client[c].ch)}]
  <2>1. CASE UNCHANGED wsvars BY <2>1 DEF wsvars
  <2>2. CASE Ws!SendAll BY <2>2 DEF Ws!SendAll
  <2>3. ASSUME NEW c \in Clients,
               \/ Ws!Connect(c) \/ Ws!NewClient(c) \/ Ws!Add(c)
               \/ Ws!WriterDone(c) \/ Ws!ReadEOF(c) \/ Ws!ReadMessage(c) \/ Ws!ReaderDone(c)
        PROVE  UNCHANGED unsent
    BY <2>3 DEF Ws!Connect, Ws!NewClient, Ws!Add, Ws!WriterDone, Ws!ReadEOF,
                Ws!ReadMessage, Ws!ReaderDone
  <2>4. ASSUME NEW c \in Clients, Ws!WriteNext(c)
        PROVE  \/ UNCHANGED unsent
               \/ unsent' = [unsent EXCEPT ![c] = unsent[c] \cup {Head(client[c].ch)}]
    BY <2>4 DEF Ws!WriteNext
  <2> QED BY <2>1, <2>2, <2>3, <2>4 DEF Ws!WsNext
<1> QED BY <1>4, <1>5, <1>6

LEMMA OrderStep ==
    ASSUME WsInv, Ws!KnownWhileConnected, OrderInv, [Ws!WsNext]_wsvars
    PROVE  OrderInv'
<1>6. /\ unsent' \in [Clients -> SUBSET Nat]
      /\ \A c \in Clients : unsent'[c] # {} => Added(c)' /\ client'[c].id # 0
  BY UnsentStep
<1> SUFFICES ASSUME NEW c \in Clients PROVE InOrderOf(c)' /\ NoGap(c)' BY <1>6 DEF OrderInv
<1>0. /\ client \in [Clients -> ClientType] /\ sends \in Nat /\ Wants[c] \subseteq Nat
      /\ Queue(c) \in Seq(Nat) /\ got[c] \in Seq(Nat)
      /\ client[c] \in ClientType
  BY RecordsAssumption DEF WsInv, ClientType, Queue, Ws!WebSocketAssumption
<1>1. CASE UNCHANGED wsvars BY <1>1, OrderUnchanged DEF wsvars, Queue
<1>2. CASE Ws!SendAll
  <2>1. PICK known \in SUBSET Clients, full \in SUBSET Clients :
            /\ known = {d \in Clients : client[d].id # 0 /\ Ws!Registered(d)}
            /\ full \subseteq known
            /\ client' = [d \in Clients |-> IF d \in known \ full
                             THEN [client[d] EXCEPT !.ch = Append(@, sends + 1)] ELSE client[d]]
            /\ missed' = [d \in Clients |-> IF d \in full THEN missed[d] \cup {sends + 1}
                                                         ELSE missed[d]]
    <3> DEFINE K == {d \in Clients : client[d].id # 0 /\ Ws!Registered(d)}
               F == {d \in K : Len(client[d].ch) = QueueCap}
    <3>1. /\ K \in SUBSET Clients /\ F \in SUBSET Clients /\ F \subseteq K
          /\ client' = [d \in Clients |-> IF d \in K \ F
                           THEN [client[d] EXCEPT !.ch = Append(@, sends + 1)] ELSE client[d]]
          /\ missed' = [d \in Clients |-> IF d \in F THEN missed[d] \cup {sends + 1}
                                                    ELSE missed[d]]
      BY <1>2 DEF Ws!SendAll
    <3> QED BY <3>1
  <2>2. sends' = sends + 1 /\ UNCHANGED <<got, unsent>> BY <1>2 DEF Ws!SendAll
  <2>3. /\ client'[c].done = client[c].done
        /\ c \in known \ full => Queue(c)' = Append(Queue(c), sends + 1)
        /\ c \notin known \ full => Queue(c)' = Queue(c)
    <3>1. client'[c] = IF c \in known \ full
                       THEN [client[c] EXCEPT !.ch = Append(client[c].ch, sends + 1)]
                       ELSE client[c]
      BY <2>1
    <3> QED BY <1>0, <3>1 DEF ClientType, Queue
  <2>4. \A k \in Ws!Elements(got[c]) \cup Ws!Elements(Queue(c)) :
            k \in Nat /\ k <= sends /\ k < sends + 1
    <3>1. \A k \in Ws!Elements(got[c]) \cup Ws!Elements(Queue(c)) : k \in Nat /\ k <= sends
      BY DEF OrderInv, InOrderOf
    <3> QED BY <1>0, <3>1
  <2>5. CASE c \in known \ full
    <3>1. Queue(c)' = Append(Queue(c), sends + 1) /\ UNCHANGED <<got[c], missed[c], unsent[c]>>
      BY <2>1, <2>2, <2>3, <2>5
    <3>2. /\ Ws!Elements(Queue(c)') = Ws!Elements(Queue(c)) \cup {sends + 1}
          /\ Ws!Increasing(Queue(c)')
      BY <1>0, <2>4, <3>1, ElementsOfAppend DEF OrderInv, InOrderOf
    <3>3. Ws!Elements(Queue(c))' = Ws!Elements(Queue(c)') BY DEF Ws!Elements
    <3>4. InOrderOf(c)'
      <4>1. \A k \in Ws!Elements(got[c]) \cup Ws!Elements(Queue(c)') : k \in Nat /\ k <= sends + 1
        BY <1>0, <2>4, <3>2
      <4>2. \A k \in Ws!Elements(got[c]), n \in Ws!Elements(Queue(c)') : k < n
        BY <2>4, <3>2 DEF OrderInv, InOrderOf
      <4>3. Ws!Increasing(Queue(c))' BY <3>2 DEF Ws!Increasing
      <4> QED
        BY <2>2, <3>1, <3>3, <4>1, <4>2, <4>3
           DEF OrderInv, InOrderOf, Ws!Elements, Ws!Increasing
    <3>5. NoGap(c)'
      <4> SUFFICES ASSUME ~client'[c].done, Ws!Alone(c)', NEW k \in Wants[c], k <= sends + 1,
                          NEW n \in Wanted(c)', n <= k
                   PROVE  k \in Wanted(c)' \cup missed'[c]
        BY <2>2 DEF NoGap
      <4>1. Wanted(c)' = Wanted(c) \cup ({sends + 1} \cap Wants[c])
        BY <2>2, <3>1, <3>2, <3>3 DEF Wanted, Ws!Elements
      <4>2. CASE k = sends + 1 BY <4>1, <4>2
      <4>3. CASE k # sends + 1
        <5>1. k \in Nat /\ k <= sends BY <1>0, <4>3
        <5>2. n \in Wanted(c) BY <1>0, <4>1, <5>1
        <5>3. client[c].id # 0 BY <2>1, <2>5
        <5>4. Ws!Alone(c) BY <1>2, <5>3, IdsKept
        <5>5. k \in Wanted(c) \cup missed[c]
          BY <2>3, <5>1, <5>2, <5>4 DEF OrderInv, NoGap
        <5> QED BY <3>1, <4>1, <5>5
      <4> QED BY <4>2, <4>3
    <3> QED BY <3>4, <3>5
  <2>6. CASE c \notin known \ full
    <3>1. Queue(c)' = Queue(c) /\ UNCHANGED <<got[c], unsent[c]>> BY <2>2, <2>3, <2>6
    <3>2. Wanted(c)' = Wanted(c) BY <3>1 DEF Wanted, Ws!Elements
    <3>3. InOrderOf(c)'
      <4>1. /\ Ws!Elements(got[c])' = Ws!Elements(got[c])
            /\ Ws!Elements(Queue(c))' = Ws!Elements(Queue(c))
        BY <3>1 DEF Ws!Elements
      <4>2. Ws!Increasing(got[c])' /\ Ws!Increasing(Queue(c))'
        BY <3>1 DEF OrderInv, InOrderOf, Ws!Increasing
      <4>3. \A k \in Ws!Elements(got[c]) \cup Ws!Elements(Queue(c)) : k \in Nat /\ k <= sends'
        BY <1>0, <2>2, <2>4
      <4> QED BY <4>1, <4>2, <4>3 DEF OrderInv, InOrderOf
    <3>4. NoGap(c)'
      <4> SUFFICES ASSUME ~client'[c].done, Ws!Alone(c)', NEW k \in Wants[c], k <= sends + 1,
                          NEW n \in Wanted(c), n <= k
                   PROVE  k \in Wanted(c) \cup missed'[c]
        BY <2>2, <3>2 DEF NoGap
      <4>1. client[c].ch # <<>> \/ got[c] # <<>> \/ unsent[c] # {}
        BY DEF Wanted, Queue, Ws!Elements
      <4>2. Added(c) /\ client[c].id # 0 BY <4>1 DEF WsInv, OrderInv
      <4>3. Ws!Alone(c) BY <1>2, <4>2, IdsKept
      <4>4. client[c].rd = "listen" /\ ~client[c].done
        BY <2>3, <4>2 DEF WsInv, Added
      <4>5. Ws!Registered(c) BY <4>2, <4>3, <4>4 DEF Ws!KnownWhileConnected
      <4>6. c \in full BY <2>1, <2>6, <4>2, <4>5
      <4>7. missed'[c] = missed[c] \cup {sends + 1} BY <2>1, <4>6
      <4>8. CASE k = sends + 1 BY <4>7, <4>8
      <4>9. CASE k # sends + 1
        <5>1. k <= sends BY <1>0, <4>9
        <5>2. k \in Wanted(c) \cup missed[c] BY <4>3, <4>4, <5>1 DEF OrderInv, NoGap
        <5> QED BY <4>7, <5>2
      <4> QED BY <4>8, <4>9
    <3> QED BY <3>3, <3>4
  <2> QED BY <2>5, <2>6
<1>3. CASE Ws!WriteNext(c)
  <2> DEFINE h == Head(client[c].ch)
  <2>1. /\ Queue(c) # <<>> /\ Queue(c)' = Tail(Queue(c)) /\ UNCHANGED <<sends, missed>>
        /\ client'[c].id = client[c].id
        /\ client'[c].done = client[c].done \/ client'[c].done
    BY <1>0, <1>3, WsEffects DEF Queue, Ws!WriteNext
  <2>2. /\ h \in Nat /\ h \in Ws!Elements(Queue(c))
        /\ Ws!Elements(Queue(c)) = {h} \cup Ws!Elements(Queue(c)')
        /\ Ws!Increasing(Queue(c)')
        /\ \A k \in Ws!Elements(Queue(c)') : h < k
    BY <1>0, <2>1, ElementsOfTail DEF OrderInv, InOrderOf, Queue
  <2>3. \A k \in Ws!Elements(got[c]) : k < h BY <2>2 DEF OrderInv, InOrderOf
  <2>4. \/ h \in Wants[c] /\ got'[c] = Append(got[c], h)
        \/ h \notin Wants[c] /\ got'[c] = got[c]
        \/ client'[c].done /\ got'[c] = got[c]
        \/ Lost(c, h)
    <3>1. CASE client' = [client EXCEPT ![c].ch = Tail(@)]
               /\ got' = IF h \in Wants[c] THEN [got EXCEPT ![c] = Append(@, h)] ELSE got
      BY <3>1 DEF WsInv
    <3>3. CASE UNCHANGED got /\ unsent' = [unsent EXCEPT ![c] = @ \cup {h}]
               /\ h \in Wants[c]
      BY <3>3 DEF OrderInv, Lost
    <3>2. CASE UNCHANGED got /\ client' = [[client EXCEPT ![c].ch = Tail(@)]
                                             EXCEPT ![c].wr = "returned", ![c].done = TRUE]
      <4>1. client'[c] = [client[c] EXCEPT !.ch = Tail(@), !.wr = "returned", !.done = TRUE]
        BY <1>0, <3>2
      <4>2. client'[c].done BY <1>0, <4>1 DEF ClientType
      <4> QED BY <3>2, <4>2
    <3> QED BY <1>3, <3>1, <3>2, <3>3 DEF Ws!WriteNext
  <2>9. Lost(c, h) \/ unsent'[c] = unsent[c] BY <1>3 DEF Ws!WriteNext, OrderInv, Lost
  <2> HIDE DEF h
  <2>5. /\ got'[c] \in Seq(Nat) /\ Ws!Increasing(got'[c])
        /\ Ws!Elements(got'[c]) \subseteq Ws!Elements(got[c]) \cup {h}
        /\ Ws!Elements(got'[c]) \subseteq Wants[c]
    <3>1. CASE got'[c] = got[c] BY <1>0, <3>1 DEF OrderInv, InOrderOf
    <3>2. CASE h \in Wants[c] /\ got'[c] = Append(got[c], h)
      BY <1>0, <2>2, <2>3, <3>2, ElementsOfAppend DEF OrderInv, InOrderOf
    <3> QED BY <2>4, <3>1, <3>2 DEF Lost
  <2>6. /\ Ws!Elements(Queue(c))' = Ws!Elements(Queue(c)')
        /\ Ws!Elements(got[c])' = Ws!Elements(got'[c])
    BY DEF Ws!Elements
  <2>7. InOrderOf(c)'
    <3>1. \A k \in Ws!Elements(got'[c]) \cup Ws!Elements(Queue(c)') : k \in Nat /\ k <= sends
      BY <2>2, <2>5 DEF OrderInv, InOrderOf
    <3>2. Ws!Increasing(got[c])' /\ Ws!Increasing(Queue(c))'
      BY <2>2, <2>5 DEF Ws!Increasing
    <3>3. \A k \in Ws!Elements(got'[c]), n \in Ws!Elements(Queue(c)') : k < n
      BY <2>2, <2>5 DEF OrderInv, InOrderOf
    <3> QED BY <2>1, <2>5, <2>6, <3>1, <3>2, <3>3 DEF InOrderOf
  <2>8. NoGap(c)'
    <3>1. CASE client'[c].done BY <3>1 DEF NoGap
    <3>2. CASE ~client'[c].done
      <4>1. Wanted(c)' = Wanted(c)
        <5>0. CASE Lost(c, h)
          BY <2>2, <2>6, <5>0 DEF Wanted, Lost
        <5>1. CASE unsent'[c] = unsent[c] /\ h \in Wants[c] /\ got'[c] = Append(got[c], h)
          <6>1. Ws!Elements(got'[c]) = Ws!Elements(got[c]) \cup {h}
            BY <1>0, <2>2, <5>1, ElementsOfAppend
          <6> QED BY <2>2, <2>6, <5>1, <6>1 DEF Wanted
        <5>2. CASE unsent'[c] = unsent[c] /\ h \notin Wants[c] /\ got'[c] = got[c]
          BY <2>2, <2>6, <5>2 DEF Wanted
        <5> QED BY <2>4, <2>9, <3>2, <5>0, <5>1, <5>2
      <4>2. ~client[c].done BY <2>1, <3>2
      <4>3. client[c].id # 0 BY <2>1 DEF WsInv, Queue
      <4>4. Ws!Alone(c)' => Ws!Alone(c) BY <4>3, IdsKept
      <4> QED BY <2>1, <4>1, <4>2, <4>4 DEF NoGap, OrderInv
    <3> QED BY <3>1, <3>2
  <2> QED BY <2>7, <2>8
<1>4. ASSUME NEW d \in Clients \ {c},
             \/ Ws!Connect(d) \/ Ws!NewClient(d) \/ Ws!Add(d) \/ Ws!WriteNext(d)
             \/ Ws!WriterDone(d) \/ Ws!ReadEOF(d) \/ Ws!ReadMessage(d) \/ Ws!ReaderDone(d)
      PROVE  InOrderOf(c)' /\ NoGap(c)'
  <2>1. client'[c] = client[c] BY <1>0, <1>4, WsEffects
  <2>2. UNCHANGED <<sends, missed>> /\ got'[c] = got[c] /\ unsent'[c] = unsent[c]
    BY <1>4 DEF Ws!Connect, Ws!NewClient, Ws!Add, Ws!WriteNext, Ws!WriterDone, Ws!ReadEOF,
                Ws!ReadMessage, Ws!ReaderDone, WsInv, OrderInv
  <2> QED BY <2>1, <2>2, OrderUnchanged DEF Queue
<1>5. CASE \/ Ws!Connect(c) \/ Ws!NewClient(c) \/ Ws!Add(c)
           \/ Ws!WriterDone(c) \/ Ws!ReadEOF(c) \/ Ws!ReadMessage(c) \/ Ws!ReaderDone(c)
  <2>1. client'[c].ch = client[c].ch /\ (client[c].done => client'[c].done)
    BY <1>0, <1>5, WsEffects
  <2>2. UNCHANGED <<sends, missed, unsent, got>>
    BY <1>5 DEF Ws!Connect, Ws!NewClient, Ws!Add, Ws!WriterDone, Ws!ReadEOF,
                Ws!ReadMessage, Ws!ReaderDone
  <2> QED BY <2>1, <2>2, OrderUnchanged DEF Queue
<1> QED BY <1>1, <1>2, <1>3, <1>4, <1>5 DEF Ws!WsNext

LEMMA WsStart ==
    ASSUME Init
    PROVE  WsInv /\ Ws!KnownWhileConnected /\ OrderInv
<1>1. /\ maxId = 0 /\ sends = 0
      /\ client = [c \in Clients |-> [id |-> 0, rd |-> "new", wr |-> "new", ch |-> <<>>,
                                      done |-> FALSE]]
      /\ clients = [i \in Ws!Ids |-> NoClient]
      /\ got = [c \in Clients |-> <<>>] /\ unsent = [c \in Clients |-> {}]
  BY DEF Init, Start, Ws!WsInit
<1>2. NoClient \notin Clients BY RecordsAssumption DEF Ws!WebSocketAssumption
<1>3. [id |-> 0, rd |-> "new", wr |-> "new", ch |-> <<>>, done |-> FALSE] \in ClientType
  BY DEF ClientType
<1>4. \A c \in Clients : /\ client[c].id = 0 /\ client[c].rd = "new" /\ client[c].wr = "new"
                         /\ client[c].ch = <<>> /\ got[c] = <<>>
  BY <1>1
<1>5. Connected = {} BY <1>4 DEF Connected
<1>6. WsInv
  <2>1. client \in [Clients -> ClientType] BY <1>1, <1>3
  <2>2. got \in [Clients -> Seq(Nat)] BY <1>1
  <2>3. maxId = Cardinality(Connected) BY <1>1, <1>5, FS_EmptySet
  <2> QED BY <1>1, <1>2, <1>4, <2>1, <2>2, <2>3 DEF WsInv
<1>7. Ws!KnownWhileConnected BY <1>4 DEF Ws!KnownWhileConnected
<1>8. OrderInv
  <2>1. \A c \in Clients : Ws!Elements(got[c]) = {} /\ Ws!Elements(Queue(c)) = {}
    BY <1>4 DEF Ws!Elements, Queue
  <2>2. \A c \in Clients : Ws!Increasing(got[c]) /\ Ws!Increasing(Queue(c))
    BY <1>4 DEF Ws!Increasing, Queue
  <2>3. \A c \in Clients : unsent[c] = {} BY <1>1
  <2>4. unsent \in [Clients -> SUBSET Nat] BY <1>1
  <2> QED BY <2>1, <2>2, <2>3, <2>4 DEF OrderInv, InOrderOf, NoGap, Wanted
<1> QED BY <1>6, <1>7, <1>8

(* A client that shares its id with no other is known to the server from    *)
(* the step that adds it until one of its goroutines has noticed that the   *)
(* peer has gone, and is forgotten when both have ended.                    *)
THEOREM KnownClients == Spec => []KnownWhileConnected
<1> DEFINE Inv == WsInv /\ Ws!KnownWhileConnected
<1>1. Init => Inv
  BY WsStart
<1>2. Inv /\ [Next]_vars => Inv' BY WsSteps, WsInvStep, KnownStep
<1>3. Inv => KnownWhileConnected BY DEF KnownWhileConnected
<1> QED BY <1>1, <1>2, <1>3, PTL DEF Spec

(* A peer is sent what it wants in the order of the stream, each record     *)
(* once, and while it is connected all of them but for those that found its *)
(* queue full or whose sending failed.                                      *)
THEOREM OrderedPeers == Spec => []PeersInOrder
<1> DEFINE Inv == WsInv /\ Ws!KnownWhileConnected /\ OrderInv
<1>1. Init => Inv BY WsStart
<1>2. Inv /\ [Next]_vars => Inv' BY WsSteps, WsInvStep, KnownStep, OrderStep
<1>3. Inv => PeersInOrder
  BY DEF OrderInv, InOrderOf, NoGap, Wanted, Queue, PeersInOrder, Ws!PeersInOrder
<1> QED BY <1>1, <1>2, <1>3, PTL DEF Spec

(***************************************************************************)
(* Configuration.                                                          *)
(***************************************************************************)
LEMMA ConfigSteps == [Next]_vars => [Config!ConfigNext]_configvars
BY DEF Next, Only, vars, configvars

(* What each step has made sure of when the next one is taken.              *)
NamesOk ==
    /\ toml.input.name \in Known.input /\ toml.output.name \in Known.output
    /\ \A i \in DOMAIN toml.filters : toml.filters[i].name \in Known.filter
    /\ toml.metrics.name # "" => toml.metrics.name \in Known.metrics
SectionsOk ==
    /\ ~Config!BadSection(toml.input) /\ ~Config!BadSection(toml.output)
    /\ \A i \in DOMAIN toml.filters : ~Config!BadSection(toml.filters[i])
    /\ toml.upload.name # "" => /\ toml.upload.name \in Known.upload
                                /\ ~Config!BadSection(toml.upload)
    /\ toml.metrics.name # "" => ~Config!BadSection(toml.metrics)
UserOk ==
    /\ \A i \in DOMAIN toml.user : ~Config!BadUser(toml.user[i])
    /\ ~toml.unknownKeys
FieldsOk ==
    /\ toml.compByName = toml.compNames /\ toml.compNames = (toml.fields = <<>>)
    /\ Config!Distinct(toml.fields) /\ fields = Config!Fields
ValidationOk ==
    /\ toml.validation # {} => ~toml.compValidate
    /\ \A v \in toml.validation :
           v.compiles /\ \E i \in DOMAIN Config!Fields : Config!Fields[i] = v.field
DefaultsOk ==
    /\ toml.createRecord \/ toml.separator \in {"", "1"}
    /\ \A k \in DOMAIN sizes : sizes[k] # 0
ComponentsOk ==
    /\ toml.input.name \notin toml.refused
    /\ toml.metrics.name # "" => toml.metrics.name \notin toml.refused
    /\ \A i \in DOMAIN toml.filters : toml.filters[i].name \notin toml.refused
OutputsOk ==
    /\ toml.outFields # <<>> \/ toml.raw
    /\ \A i \in DOMAIN toml.outFields :
           \E j \in DOMAIN Config!Fields : Config!Fields[j] = toml.outFields[i]
    /\ sizes.procs > 0 => toml.output.name \notin toml.refused
ChannelsOk ==
    toml.sharding # "" =>
        /\ \E i \in DOMAIN Config!Fields : Config!Fields[i] = toml.sharding
        /\ toml.sharding \in Shards /\ toml.canShard
UploadOk == toml.upload.name # "" => toml.upload.name \notin toml.refused

Past1 == {"sections", "user", "fields", "validation", "defaults", "components", "outputs",
          "channels", "upload", "topology"}
Past2 == Past1 \ {"sections"}
Past3 == Past2 \ {"user"}
Past4 == Past3 \ {"fields"}
Past5 == Past4 \ {"validation"}
Past6 == Past5 \ {"defaults"}
Past7 == Past6 \ {"components"}
Past8 == Past7 \ {"outputs"}
Past9 == Past8 \ {"channels"}

Typed(s) == s \in [{"procs", "filterProcs", "inChan", "outChan"} -> Int]

ConfigInv ==
    /\ toml \in TomlFiles /\ Typed(sizes)
    /\ step \in Past1 \cup {"names", "error", "panic"}
    /\ step = "error" => ~Config!Sound \/ Config!Unchecked
    /\ step = "panic" => Config!Unchecked
    /\ step \in Past1 => NamesOk
    /\ step \in Past2 => SectionsOk
    /\ step \in Past3 => UserOk
    /\ step \in Past4 => FieldsOk
    /\ step \in Past5 => ValidationOk
    /\ step \in Past6 => DefaultsOk
    /\ step \in Past7 => ComponentsOk
    /\ step \in Past8 => OutputsOk
    /\ step \in Past9 => ChannelsOk
    /\ step = "topology" => UploadOk

LEMMA CompleteIs ==
    ASSUME NEW kind, NEW comp
    PROVE  Config!Complete(kind, comp) <=>
               /\ comp.name \in Known[kind] /\ comp.name \notin toml.refused
               /\ ~Config!BadSection(comp)
BY DEF Config!Complete, Config!BadSection

(* With all of these a file is sound, but for what the code does not check. *)
LEMMA AllOkIsSound ==
    ASSUME ConfigInv, step = "topology"
    PROVE  /\ Config!Sound \/ Config!Unchecked
           /\ ~Config!Unchecked => sizes.procs > 0 /\ sizes.filterProcs > 0
<1>1. /\ NamesOk /\ SectionsOk /\ UserOk /\ FieldsOk /\ ValidationOk /\ DefaultsOk
      /\ ComponentsOk /\ OutputsOk /\ ChannelsOk /\ UploadOk
  BY DEF ConfigInv, Past1, Past2, Past3, Past4, Past5, Past6, Past7, Past8, Past9
<1>2. ~Config!Unchecked => sizes.procs > 0 /\ sizes.filterProcs > 0
  <2>1. /\ {"procs", "filterProcs"} \subseteq DOMAIN sizes
        /\ \A k \in DOMAIN sizes : sizes[k] \in Int /\ sizes[k] # 0
    BY <1>1 DEF ConfigInv, Typed, DefaultsOk
  <2>2. ~Config!Unchecked => \A k \in DOMAIN sizes : ~(sizes[k] < 0)
    BY DEF Config!Unchecked
  <2>3. ~Config!Unchecked => \A k \in DOMAIN sizes : sizes[k] > 0 BY <2>1, <2>2
  <2> QED BY <2>1, <2>3
<1>3. ASSUME ~Config!Unchecked PROVE Config!Sound
  <2>1. /\ Config!Complete("input", toml.input) /\ Config!Complete("output", toml.output)
        /\ \A i \in DOMAIN toml.filters : Config!Complete("filter", toml.filters[i])
        /\ toml.upload.name # "" => Config!Complete("upload", toml.upload)
        /\ toml.metrics.name # "" => Config!Complete("metrics", toml.metrics)
    BY <1>1, <1>2, <1>3, CompleteIs DEF NamesOk, SectionsOk, ComponentsOk, OutputsOk, UploadOk
  <2>2. Config!Distinct(Config!Fields)
    BY <1>1, <1>3 DEF FieldsOk, Config!Fields, Config!Unchecked
  <2>3. \A f \in {toml.outFields[i] : i \in DOMAIN toml.outFields}
                     \cup ({toml.sharding} \ {""}) :
            \E i \in DOMAIN Config!Fields : Config!Fields[i] = f
    BY <1>1 DEF OutputsOk, ChannelsOk
  <2> QED
    BY <1>1, <2>1, <2>2, <2>3
       DEF Config!Sound, UserOk, FieldsOk, ValidationOk, DefaultsOk, OutputsOk, ChannelsOk
<1> QED BY <1>2, <1>3

LEMMA SameFile ==
    ASSUME UNCHANGED toml
    PROVE  /\ NamesOk' = NamesOk /\ SectionsOk' = SectionsOk /\ UserOk' = UserOk
           /\ ValidationOk' = ValidationOk /\ ComponentsOk' = ComponentsOk
           /\ ChannelsOk' = ChannelsOk /\ UploadOk' = UploadOk /\ Config!Sound' = Config!Sound
           /\ UNCHANGED fields => FieldsOk' = FieldsOk
           /\ UNCHANGED sizes => /\ DefaultsOk' = DefaultsOk /\ OutputsOk' = OutputsOk
                                 /\ Config!Unchecked' = Config!Unchecked
<1>1. NamesOk' = NamesOk BY DEF NamesOk
<1>2. SectionsOk' = SectionsOk BY DEF SectionsOk, Config!BadSection
<1>3. UserOk' = UserOk BY DEF UserOk, Config!BadUser
<1>4. Config!Fields' = Config!Fields BY DEF Config!Fields
<1>5. ValidationOk' = ValidationOk BY <1>4 DEF ValidationOk
<1>6. ComponentsOk' = ComponentsOk BY DEF ComponentsOk
<1>7. ChannelsOk' = ChannelsOk BY <1>4 DEF ChannelsOk
<1>8. UploadOk' = UploadOk BY DEF UploadOk
<1>9. Config!Sound' = Config!Sound
  BY <1>4 DEF Config!Sound, Config!Complete, Config!BadUser, Config!Distinct
<1>10. UNCHANGED fields => FieldsOk' = FieldsOk BY <1>4 DEF FieldsOk, Config!Distinct
<1>11. UNCHANGED sizes => DefaultsOk' = DefaultsOk BY DEF DefaultsOk
<1>12. UNCHANGED sizes => OutputsOk' = OutputsOk BY <1>4 DEF OutputsOk
<1>13. UNCHANGED sizes => Config!Unchecked' = Config!Unchecked
  BY DEF Config!Unchecked, Config!Distinct
<1> QED BY <1>1, <1>2, <1>3, <1>5, <1>6, <1>7, <1>8, <1>9, <1>10, <1>11, <1>12, <1>13

LEMMA ConfigStep ==
    ASSUME ConfigInv, [Config!ConfigNext]_configvars
    PROVE  ConfigInv'
<1> USE DEF Past1, Past2, Past3, Past4, Past5, Past6, Past7, Past8, Past9
<1>0. /\ toml.compByName \in BOOLEAN /\ toml.compNames \in BOOLEAN /\ "" \notin toml.refused
      /\ toml \in TomlFiles /\ Typed(sizes)
  BY RecordsAssumption DEF Config!ConfigAssumption, ConfigInv
<1>1. CASE UNCHANGED configvars BY <1>1, SameFile DEF configvars, ConfigInv, Typed
<1>2. CASE Config!MatchNames
  <2>1. step = "names" /\ step' \in {"error", "sections"} /\ UNCHANGED <<toml, fields, sizes>>
    BY <1>2 DEF Config!MatchNames, Config!Go
  <2>2. step' = "error" => ~Config!Sound
    BY <1>2, CompleteIs DEF Config!MatchNames, Config!Go, Config!Sound
  <2>3. step' = "sections" => NamesOk BY <1>2 DEF Config!MatchNames, Config!Go, NamesOk
  <2> QED BY <2>1, <2>2, <2>3, SameFile DEF ConfigInv, Typed
<1>3. CASE Config!DecodeSections
  <2> DEFINE before == \/ Config!BadSection(toml.input) \/ Config!BadSection(toml.output)
                       \/ \E i \in DOMAIN toml.filters : Config!BadSection(toml.filters[i])
             unknown == toml.upload.name \notin Known.upload \cup {""}
             wrong == \/ before
                      \/ ~unknown /\ toml.upload.name # "" /\ Config!BadSection(toml.upload)
                      \/ toml.metrics.name # "" /\ Config!BadSection(toml.metrics)
  <2>1. /\ step = "sections" /\ UNCHANGED <<toml, fields, sizes>>
        /\ step' = IF ~before /\ unknown THEN "panic" ELSE IF wrong THEN "error" ELSE "user"
    BY <1>3 DEF Config!DecodeSections, Config!Go
  <2>2. step' = "panic" => Config!Unchecked BY <2>1 DEF Config!Unchecked
  <2>3. step' = "error" => ~Config!Sound BY <2>1, CompleteIs DEF Config!Sound
  <2>4. step' = "user" => SectionsOk BY <2>1 DEF SectionsOk
  <2>5. step' \in {"panic", "error", "user"} BY <2>1
  <2> HIDE DEF before, unknown, wrong
  <2> QED BY <2>1, <2>2, <2>3, <2>4, <2>5, SameFile DEF ConfigInv, Typed
<1>4. CASE Config!DecodeUser
  <2>1. /\ step = "user" /\ step' \in {"panic", "error", "fields"}
        /\ UNCHANGED <<toml, fields, sizes>>
    BY <1>4 DEF Config!DecodeUser, Config!Go
  <2>2. step' = "panic" => Config!Unchecked
    BY <1>4 DEF Config!DecodeUser, Config!Go, Config!Unchecked
  <2>3. step' = "error" => ~Config!Sound
    BY <1>4 DEF Config!DecodeUser, Config!Go, Config!Sound
  <2>4. step' = "fields" => UserOk BY <1>4 DEF Config!DecodeUser, Config!Go, UserOk
  <2> QED BY <2>1, <2>2, <2>3, <2>4, SameFile DEF ConfigInv, Typed
<1>5. CASE Config!AssignFields
  <2> DEFINE compOk == toml.compByName /\ toml.compNames
             wrong == \/ toml.compByName # toml.compNames
                      \/ (toml.fields # <<>>) = compOk
                      \/ ~Config!Distinct(toml.fields)
  <2>1. /\ step = "fields" /\ UNCHANGED <<toml, sizes>>
        /\ step' = IF wrong THEN "error" ELSE "validation"
        /\ fields' = IF compOk THEN toml.compFields ELSE toml.fields
    BY <1>5 DEF Config!AssignFields, Config!Go
  <2>2. step' = "error" => ~Config!Sound
    <3> SUFFICES ASSUME wrong, Config!Sound PROVE FALSE BY <2>1
    <3>1. /\ toml.compByName = toml.compNames /\ toml.compNames = (toml.fields = <<>>)
          /\ Config!Distinct(Config!Fields)
      BY DEF Config!Sound
    <3>2. ~Config!Distinct(toml.fields) BY <1>0, <3>1
    <3>3. toml.fields # <<>> BY <3>2 DEF Config!Distinct
    <3> QED BY <3>1, <3>2, <3>3 DEF Config!Fields
  <2>3. step' = "validation" => FieldsOk'
    <3> SUFFICES ASSUME ~wrong PROVE FieldsOk' BY <2>1
    <3>1. /\ toml.compByName = toml.compNames /\ toml.compNames = (toml.fields = <<>>)
          /\ Config!Distinct(toml.fields)
      BY <1>0
    <3>2. fields' = Config!Fields BY <1>0, <2>1, <3>1 DEF Config!Fields
    <3> QED BY <2>1, <3>1, <3>2 DEF FieldsOk, Config!Fields, Config!Distinct
  <2>4. step' \in {"error", "validation"} BY <2>1
  <2> HIDE DEF wrong, compOk
  <2> QED BY <2>1, <2>2, <2>3, <2>4, SameFile DEF ConfigInv, Typed
<1>6. CASE Config!AssignValidation
  <2>1. /\ step = "validation" /\ step' \in {"error", "defaults"}
        /\ UNCHANGED <<toml, fields, sizes>>
    BY <1>6 DEF Config!AssignValidation, Config!Go
  <2>2. fields = Config!Fields BY <2>1 DEF ConfigInv, FieldsOk
  <2>3. step' = "error" => ~Config!Sound
    BY <1>6, <2>2 DEF Config!AssignValidation, Config!Go, Config!Sound, Config!HasField
  <2>4. step' = "defaults" => ValidationOk
    BY <1>6, <2>2 DEF Config!AssignValidation, Config!Go, ValidationOk, Config!HasField
  <2> QED BY <2>1, <2>3, <2>4, SameFile DEF ConfigInv, Typed
<1>7. CASE Config!FillDefaults
  <2>0. /\ step = "defaults" /\ UNCHANGED <<toml, fields>>
        /\ step' = IF ~toml.createRecord /\ toml.separator \notin {"", "1"} THEN "error"
                   ELSE "components"
    BY <1>7 DEF Config!FillDefaults, Config!Go
  <2>1. sizes' = [k \in DOMAIN sizes |-> IF sizes[k] = 0 THEN Config!Default[k] ELSE sizes[k]]
    BY <1>7 DEF Config!FillDefaults
  <2>2. \A k \in {"procs", "filterProcs", "inChan", "outChan"} :
            Config!Default[k] \in Int /\ Config!Default[k] # 0
    BY SMT DEF Config!Default
  <2>3. Typed(sizes)' /\ \A k \in DOMAIN sizes' : sizes'[k] # 0
    BY <1>0, <2>1, <2>2 DEF Typed
  <2>4. step' = "error" => ~Config!Sound BY <2>0 DEF Config!Sound
  <2>5. step' = "components" => DefaultsOk' BY <2>0, <2>3 DEF DefaultsOk
  <2>6. step' \in {"error", "components"} BY <2>0
  <2>7. NamesOk' /\ SectionsOk' /\ UserOk' /\ FieldsOk' /\ ValidationOk'
    BY <2>0, SameFile DEF ConfigInv
  <2>8. /\ toml' \in TomlFiles
        /\ step' = "error" => ~Config!Sound'
    <3>1. toml' = toml BY <2>0
    <3>2. Config!Sound' = Config!Sound BY <3>1, SameFile
    <3> QED BY <1>0, <2>4, <3>1, <3>2
  <2> QED BY <2>3, <2>5, <2>6, <2>7, <2>8 DEF ConfigInv
<1>8. CASE Config!NewComponents
  <2>1. /\ step = "components" /\ step' \in {"error", "outputs"}
        /\ UNCHANGED <<toml, fields, sizes>>
    BY <1>8 DEF Config!NewComponents, Config!Go
  <2>2. step' = "error" => ~Config!Sound
    BY <1>0, <1>8, CompleteIs DEF Config!NewComponents, Config!Go, Config!Sound
  <2>3. step' = "outputs" => ComponentsOk
    BY <1>8 DEF Config!NewComponents, Config!Go, ComponentsOk
  <2> QED BY <2>1, <2>2, <2>3, SameFile DEF ConfigInv, Typed
<1>9. CASE Config!NewOutputs
  <2>1. /\ step = "outputs" /\ step' \in {"error", "channels"}
        /\ UNCHANGED <<toml, fields, sizes>>
    BY <1>9 DEF Config!NewOutputs, Config!Go
  <2>2. fields = Config!Fields BY <2>1 DEF ConfigInv, FieldsOk
  <2>3. step' = "error" => ~Config!Sound
    BY <1>9, <2>2, CompleteIs DEF Config!NewOutputs, Config!Go, Config!Sound, Config!HasField
  <2>4. step' = "channels" => OutputsOk
    BY <1>9, <2>2 DEF Config!NewOutputs, Config!Go, OutputsOk, Config!HasField
  <2> QED BY <2>1, <2>3, <2>4, SameFile DEF ConfigInv, Typed
<1>10. CASE Config!NewChannels
  <2> DEFINE cannot == toml.sharding # "" /\ \/ ~Config!HasField(toml.sharding)
                                             \/ toml.sharding \notin Shards
                                             \/ ~toml.canShard
             fatal == sizes.inChan < 0 \/ sizes.procs < 0 \/ (~cannot /\ sizes.outChan < 0)
  <2>1. /\ step = "channels" /\ UNCHANGED <<toml, fields, sizes>>
        /\ step' = IF fatal THEN "panic" ELSE IF cannot THEN "error" ELSE "upload"
    BY <1>10 DEF Config!NewChannels, Config!Go
  <2>2. fields = Config!Fields BY <2>1 DEF ConfigInv, FieldsOk
  <2>3. fatal => Config!Unchecked
    <3>1. {"inChan", "procs", "outChan"} \subseteq DOMAIN sizes BY <1>0 DEF Typed
    <3> QED BY <3>1 DEF Config!Unchecked
  <2>4. cannot => ~Config!Sound BY <2>2 DEF Config!Sound, Config!HasField
  <2>5. ~cannot => ChannelsOk BY <2>2 DEF ChannelsOk, Config!HasField
  <2> HIDE DEF cannot, fatal
  <2> QED BY <2>1, <2>3, <2>4, <2>5, SameFile DEF ConfigInv, Typed
<1>11. CASE Config!NewUpload
  <2>1. /\ step = "upload" /\ step' \in {"error", "topology"}
        /\ UNCHANGED <<toml, fields, sizes>>
    BY <1>11 DEF Config!NewUpload, Config!Go
  <2>2. step' = "error" => ~Config!Sound
    BY <1>11, CompleteIs DEF Config!NewUpload, Config!Go, Config!Sound
  <2>3. step' = "topology" => UploadOk BY <1>11 DEF Config!NewUpload, Config!Go, UploadOk
  <2> QED BY <2>1, <2>2, <2>3, SameFile DEF ConfigInv, Typed
<1> QED
  BY <1>1, <1>2, <1>3, <1>4, <1>5, <1>6, <1>7, <1>8, <1>9, <1>10, <1>11
     DEF Config!ConfigNext

(* A configuration file gives a topology exactly when it is sound, and an   *)
(* error otherwise: no check is missing, but for the ones in Unchecked, and *)
(* none refuses a file that could run; a topology has workers.              *)
THEOREM ConfigurationUsable == Spec => []UsableOrRefused
<1>1. Init => ConfigInv
  <2> SUFFICES ASSUME Init PROVE ConfigInv OBVIOUS
  <2>1. /\ toml \in TomlFiles /\ step = "names"
        /\ sizes = [procs |-> toml.procs, filterProcs |-> toml.filterProcs,
                    inChan |-> toml.inChan, outChan |-> toml.outChan]
    BY DEF Init, Start, Config!ConfigInit
  <2>2. {toml.procs, toml.filterProcs, toml.inChan, toml.outChan} \subseteq Int
    BY <2>1, RecordsAssumption DEF Config!ConfigAssumption
  <2>3. Typed(sizes) BY <2>1, <2>2 DEF Typed
  <2> QED BY <2>1, <2>3 DEF ConfigInv, Past1, Past2, Past3, Past4, Past5, Past6, Past7, Past8, Past9
<1>2. ConfigInv /\ [Next]_vars => ConfigInv' BY ConfigSteps, ConfigStep
<1>3. ConfigInv => UsableOrRefused
  <2> SUFFICES ASSUME ConfigInv, Config!Ended, ~Config!Unchecked
               PROVE  /\ step = IF Config!Sound THEN "topology" ELSE "error"
                      /\ step = "topology" => sizes.procs > 0 /\ sizes.filterProcs > 0
    BY DEF UsableOrRefused, Config!UsableOrRefused
  <2>1. step = "topology" => Config!Sound /\ sizes.procs > 0 /\ sizes.filterProcs > 0
    BY AllOkIsSound
  <2>2. step \in {"error", "topology"} /\ (step = "error" => ~Config!Sound)
    BY DEF ConfigInv, Config!Ended
  <2> QED BY <2>1, <2>2
<1> QED BY <1>1, <1>2, <1>3, PTL DEF Spec
=============================================================================
