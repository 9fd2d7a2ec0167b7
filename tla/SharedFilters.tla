---------------------------- MODULE SharedFilters ----------------------------
(***************************************************************************)
(* The filters that keep state, which every filter goroutine shares:       *)
(* Dedup (filter/dedup.go), ExternalMatch (filter/external_match.go),      *)
(* whose values are loaded again from time to time by a goroutine of its   *)
(* own, and MetadataUrl (filter/metadata_url.go) with its cache            *)
(* (filter/metadata/cache.go).  A worker takes a record through the three  *)
(* in this order; the files of ExternalMatch change at any moment.         *)
(***************************************************************************)
EXTENDS Integers, Sequences, FiniteSets

CONSTANTS Workers,
          KeyOf, ValueOf, UrlOf,  \* sequences: what the filters read in a record
          Content,                \* sequence of files: sequence of versions: set of values
          NoUrl,                  \* the record's metadata has no url
          MaxEntries              \* maxCacheEntries

Unlocked == "nobody"

SharedAssumption ==
    /\ Len(KeyOf) \in Nat /\ DOMAIN KeyOf = 1 .. Len(KeyOf)
    /\ DOMAIN KeyOf = DOMAIN ValueOf /\ DOMAIN ValueOf = DOMAIN UrlOf
    /\ Len(Content) \in Nat /\ DOMAIN Content = 1 .. Len(Content)
    /\ \A f \in DOMAIN Content : Len(Content[f]) \in Nat \ {0}
    /\ Unlocked \notin Workers
    /\ MaxEntries \in Nat \ {0}

VARIABLES keep,      \* KeepOnMatch
          worker,    \* per worker: pc and record
          received,  \* records taken by the workers
          dedupSet, duplicates,
          version,   \* per file: its version on the disk
          values,    \* per file: the version f.values was made from
          loading,   \* updateValues: the versions of the files read so far
          cache, nentries, mx, \* the cache: its urls, its count, who has the mutex
          dst        \* record -> the url its field was set to

sharedvars == <<keep, worker, received, dedupSet, duplicates, version, values, loading,
                cache, nentries, mx, dst>>
matchvars == <<version, values, loading>>
cachevars == <<cache, nentries, mx, dst>>

Recs == DOMAIN KeyOf
Files == DOMAIN Content

SharedInit ==
    /\ keep \in BOOLEAN
    /\ worker = [w \in Workers |-> [pc |-> "idle", rec |-> 0]]
    /\ received = 0 /\ dedupSet = {} /\ duplicates = {}
    /\ version = [f \in Files |-> 1] /\ values = [f \in Files |-> 1] /\ loading = <<>>
    /\ cache = {} /\ nentries = 0 /\ mx = Unlocked /\ dst = [r \in Recs |-> "none"]

Rec(w) == worker[w].rec
At(w, pc) == worker[w].pc = pc
To(w, pc) == worker' = [worker EXCEPT ![w].pc = pc]

Take(w) ==
    /\ At(w, "idle") /\ received < Len(KeyOf)
    /\ received' = received + 1
    /\ worker' = [worker EXCEPT ![w] = [pc |-> "dedup", rec |-> received + 1]]
    /\ UNCHANGED <<keep, dedupSet, duplicates, matchvars, cachevars>>

(* Fault: Load, and Store in a later step.                                  *)
LoadThenStore(w) ==
    LET stored == dedupSet \ {KeyOf[Rec(v)] : v \in {u \in Workers : At(u, "match")}}
    IN  /\ At(w, "dedup")
        /\ dedupSet' = dedupSet \cup {KeyOf[Rec(w)]}
        /\ IF KeyOf[Rec(w)] \in stored
           THEN duplicates' = duplicates \cup {Rec(w)} /\ To(w, "idle")
           ELSE UNCHANGED duplicates /\ To(w, "match")
        /\ UNCHANGED <<keep, received, matchvars, cachevars>>

(* Dedup.Process: LoadOrStore of the record's key.                          *)
LoadOrStore(w) ==
    /\ At(w, "dedup")
    /\ dedupSet' = dedupSet \cup {KeyOf[Rec(w)]}
    /\ IF KeyOf[Rec(w)] \in dedupSet
       THEN duplicates' = duplicates \cup {Rec(w)} /\ To(w, "idle")
       ELSE UNCHANGED duplicates /\ To(w, "match")
    /\ UNCHANGED <<keep, received, matchvars, cachevars>>

(* ExternalMatch.Process, under the read lock.                              *)
Match(w) ==
    LET ok == \E f \in Files : ValueOf[Rec(w)] \in Content[f][values[f]]
    IN  /\ At(w, "match")
        /\ To(w, IF ok = keep THEN "load" ELSE "idle")
        /\ UNCHANGED <<keep, received, dedupSet, duplicates, matchvars, cachevars>>

(* A file is replaced.                                                      *)
FileChanges(f) ==
    /\ version[f] < Len(Content[f])
    /\ version' = [version EXCEPT ![f] = @ + 1]
    /\ UNCHANGED <<keep, worker, received, dedupSet, duplicates, values, loading, cachevars>>

(* updateValues: the files are read one after the other ...                 *)
ProcessURL ==
    /\ Len(loading) < Len(Content)
    /\ loading' = Append(loading, version[Len(loading) + 1])
    /\ UNCHANGED <<keep, worker, received, dedupSet, duplicates, version, values, cachevars>>

(* ... one of them cannot be read, and the values stay what they were ...   *)
FailedReload ==
    /\ loading # <<>>
    /\ loading' = <<>>
    /\ UNCHANGED <<keep, worker, received, dedupSet, duplicates, version, values, cachevars>>

(* Fault: the values are replaced before every file has been read again.    *)
SwapValuesEarly ==
    /\ loading # <<>>
    /\ values' = [f \in Files |-> IF f <= Len(loading) THEN loading[f] ELSE 1]
    /\ loading' = <<>>
    /\ UNCHANGED <<keep, worker, received, dedupSet, duplicates, version, cachevars>>

(* ... and replaced at once when all have been read.                        *)
SwapValues ==
    /\ Len(loading) = Len(Content)
    /\ values' = loading /\ loading' = <<>>
    /\ UNCHANGED <<keep, worker, received, dedupSet, duplicates, version, cachevars>>

(* MetadataUrl.Process: Load, without the mutex.                            *)
SetDst(w, url) == dst' = [dst EXCEPT ![Rec(w)] = url]
Load(w) ==
    /\ At(w, "load")
    /\ IF UrlOf[Rec(w)] \in cache \cup {NoUrl}
       THEN SetDst(w, UrlOf[Rec(w)]) /\ To(w, "idle")
       ELSE UNCHANGED dst /\ To(w, "lock")
    /\ UNCHANGED <<keep, received, dedupSet, duplicates, matchvars, cache, nentries, mx>>

(* Store: a full cache is emptied, key by key; then the url is added.       *)
Lock(w) ==
    /\ At(w, "lock") /\ mx = Unlocked
    /\ mx' = w
    /\ To(w, IF nentries = MaxEntries THEN "clear" ELSE "store")
    /\ UNCHANGED <<keep, received, dedupSet, duplicates, matchvars, cache, nentries, dst>>

Clear(w) ==
    /\ At(w, "clear")
    /\ IF cache = {} THEN To(w, "store") /\ UNCHANGED <<cache, nentries>>
       ELSE /\ \E u \in cache : cache' = cache \ {u}
            /\ nentries' = nentries - 1
            /\ UNCHANGED worker
    /\ UNCHANGED <<keep, received, dedupSet, duplicates, matchvars, mx, dst>>

Store(w) ==
    /\ At(w, "store")
    /\ cache' = cache \cup {UrlOf[Rec(w)]}
    /\ nentries' = IF UrlOf[Rec(w)] \in cache THEN nentries ELSE nentries + 1
    /\ mx' = Unlocked
    /\ SetDst(w, UrlOf[Rec(w)]) /\ To(w, "idle")
    /\ UNCHANGED <<keep, received, dedupSet, duplicates, matchvars>>

SharedNext ==
    \/ \E w \in Workers : \/ Take(w) \/ LoadOrStore(w) \/ Match(w) \/ Load(w) \/ Lock(w)
                          \/ Clear(w) \/ Store(w)
    \/ \E f \in Files : FileChanges(f)
    \/ ProcessURL \/ FailedReload \/ SwapValues
SharedSpec == SharedInit /\ [][SharedNext]_sharedvars

SharedTypeOK ==
    /\ received \in 0..Len(KeyOf) /\ duplicates \subseteq Recs
    /\ \A w \in Workers : worker[w].pc \in {"idle", "dedup", "match", "load", "lock", "clear", "store"}
    /\ mx \in Workers \cup {Unlocked} /\ nentries \in 0..MaxEntries

(* Dedup: of the records with the same key exactly one passes, whichever    *)
(* workers have them, and the others are counted as filtered.               *)
OneOfEachKey ==
    LET judged == {r \in 1 .. received : ~\E w \in Workers : At(w, "dedup") /\ Rec(w) = r}
    IN  \A k \in {KeyOf[r] : r \in judged} :
            Cardinality({r \in judged \ duplicates : KeyOf[r] = k}) = 1

(* ExternalMatch: what records are matched against is always the whole of   *)
(* some load, of every file, and no load is followed by an older one.       *)
LoadsAreWhole ==
    [][/\ \A f \in Files : values'[f] >= values[f]
       /\ values' # values => Len(loading) = Len(Content) /\ values' = loading]_sharedvars

(* MetadataUrl: a record gets its own url, also when the cache is emptied   *)
(* between its Load and its Store or two workers store the same url; the    *)
(* count is the number of entries, which is what bounds the cache.          *)
CacheAgrees ==
    /\ \A r \in Recs : dst[r] \in {"none", UrlOf[r]}
    /\ mx = Unlocked => nentries = Cardinality(cache) /\ nentries <= MaxEntries
=============================================================================
