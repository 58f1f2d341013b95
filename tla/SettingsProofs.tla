---------------------------- MODULE SettingsProofs ----------------------------
(***************************************************************************)
(* The settings stay sound, for any number of services, volumes, requests, *)
(* tasks and crashes.  The argument: a file belongs to who has locked it,  *)
(* so that what a holder has loaded is what is there, but for a copy; a    *)
(* copy that meets a write is noted.  The rest is what each thread will do *)
(* next, block by block and copy by copy.                                  *)
(***************************************************************************)
EXTENDS SettingsProperties, SequenceTheorems, FiniteSetTheorems, TLAPS

-----------------------------------------------------------------------------
(* Processes, files and what a write does                                    *)

LEMMA ProcFacts ==
    /\ Procs = {"api", "worker"} /\ Other("api") = "worker" /\ Other("worker") = "api"
    /\ Files = {"userdata", "secrets"}
    /\ Copied[1] = "userdata" /\ Copied[2] = "secrets" /\ Len(Copied) = 2
BY DEF Procs, Other, Files, Copied

LEMMA NoWriterFacts ==
    /\ NoWriter.file = None /\ NoWriter.dumped = FALSE /\ NoWriter.mixed = FALSE
    /\ DOMAIN NoWriter = {"file", "data", "dumped", "mixed"}
    /\ None \notin Files /\ None # "userdata" /\ None # "secrets"
BY SettingsAssumption DEF NoWriter, Files

LEMMA RestFacts ==
    /\ Rest \in [pc : {"idle", "stash", "locate", "truncate", "fill", "relocate", "save"},
                 n : {1, 2}, was : Places, drives : Places, left : SUBSET Services]
    /\ Rest.pc = "idle" /\ Rest.n = 1 /\ Rest.left = {}
    /\ DOMAIN Rest.was = {} /\ DOMAIN Rest.drives = {} /\ Rest.was = Rest.drives
<1> DEFINE nowhere == [s \in {} |-> None]
<1>1. nowhere \in [{} -> Volumes] OBVIOUS
<1>2. nowhere \in Places BY <1>1 DEF Places
<1> HIDE DEF nowhere
<1>3. Rest = [pc |-> "idle", n |-> 1, was |-> nowhere, drives |-> nowhere, left |-> {}]
  BY DEF Rest, nowhere
<1>4. DOMAIN nowhere = {} BY DEF nowhere
<1>5. QED BY <1>2, <1>3, <1>4

\* What each write does to the user data.
LEMMA ApplyFacts ==
    ASSUME NEW w \in Writes, w.op # "token", NEW d, Plain(d)
    PROVE  /\ Plain(Apply(w, d))
           /\ w.op # "configure" => Apply(w, d).subdomain = d.subdomain
           /\ w.op = "configure" => /\ w.service \in Services /\ w.subdomain \in Subdomains
                                    /\ Apply(w, d).subdomain
                                         = [d.subdomain EXCEPT ![w.service] = w.subdomain]
           /\ w.op \notin {"place", "location"} => Apply(w, d).location = d.location
           /\ w.op = "place" =>
                Apply(w, d).location
                  = [d.location EXCEPT ![w.service] = IF @ = None THEN Root ELSE @]
           /\ w.op = "location" => /\ w.service \in Services /\ w.volume \in Volumes
                                   /\ Apply(w, d).location
                                        = [d.location EXCEPT ![w.service] = KernelName[w.volume]]
           /\ w.op # "provider" => Apply(w, d).provider = d.provider
           /\ w.op = "provider" => Apply(w, d).provider = w.provider
<1>1. CASE w.op = "enable"
  <2>1. w.service \in Services BY <1>1 DEF Writes, Whats
  <2>2. Apply(w, d) = [d EXCEPT !.modules = @ \cup {w.service}, !.enabled = @ \cup {w.service}]
    BY <1>1 DEF Apply, SetEnable
  <2>3. QED BY <1>1, <2>1, <2>2 DEF Plain
<1>2. CASE w.op = "disable"
  <2>1. w.service \in Services BY <1>2 DEF Writes, Whats
  <2>2. Apply(w, d) = [d EXCEPT !.modules = @ \cup {w.service}, !.enabled = @ \ {w.service}]
    BY <1>2 DEF Apply, SetEnable
  <2>3. QED BY <1>2, <2>1, <2>2 DEF Plain
<1>3. CASE w.op = "place"
  <2>1. w.service \in Services BY <1>3 DEF Writes, Whats
  <2> DEFINE place == IF d.location[w.service] = None THEN Root ELSE d.location[w.service]
  <2>2. Apply(w, d) = [d EXCEPT !.modules = @ \cup {w.service},
                                !.location = [@ EXCEPT ![w.service] = place]]
    BY <1>3 DEF Apply, DefaultLocation
  <2>3. place \in Volumes \cup {None} BY <2>1, SettingsAssumption DEF Plain
  <2>4. [d.location EXCEPT ![w.service] = IF @ = None THEN Root ELSE @]
          = [d.location EXCEPT ![w.service] = place]
    OBVIOUS
  <2> HIDE DEF place
  <2>5. QED BY <1>3, <2>1, <2>2, <2>3, <2>4 DEF Plain
<1>4. CASE w.op = "location"
  <2>1. w.service \in Services /\ w.volume \in Volumes BY <1>4 DEF Writes, Whats
  <2>2. Apply(w, d) = [d EXCEPT !.modules = @ \cup {w.service},
                                !.location = [@ EXCEPT ![w.service] = KernelName[w.volume]]]
    BY <1>4 DEF Apply, SetLocation
  <2>3. QED BY <1>4, <2>1, <2>2, SettingsAssumption DEF Plain
<1>5. CASE w.op = "configure"
  <2>1. w.service \in Services /\ w.subdomain \in Subdomains BY <1>5 DEF Writes, Whats
  <2>2. Apply(w, d) = [d EXCEPT !.modules = @ \cup {w.service},
                                !.subdomain = [@ EXCEPT ![w.service] = w.subdomain]]
    BY <1>5 DEF Apply, SetSubdomain
  <2>3. QED BY <1>5, <2>1, <2>2 DEF Plain
<1>6. CASE w.op = "add key" BY <1>6 DEF Apply, AddKey, Plain
<1>7. CASE w.op = "remove key" BY <1>7 DEF Apply, RemoveKey, Plain
<1>8. CASE w.op = "timezone" BY <1>8 DEF Apply, SetTimezone, Plain
<1>9. CASE w.op = "ssh" BY <1>9 DEF Apply, SetSsh, Plain
<1>10. CASE w.op = "upgrade"
  <2>1. Apply(w, d) = SetAutoUpgrade(d, w.on, w.reboot) BY <1>10 DEF Apply
  <2>2. QED BY <1>10, <2>1 DEF SetAutoUpgrade, Plain
<1>11. CASE w.op = "mount"
  <2>1. w.volume \in Volumes BY <1>11, SettingsAssumption DEF Writes, Whats
  <2>2. Apply(w, d) = [d EXCEPT !.volumes = @ \cup {w.volume}] BY <1>11 DEF Apply, Mount
  <2>3. QED BY <1>11, <2>1, <2>2 DEF Plain
<1>12. CASE w.op = "unmount"
  <2>1. Apply(w, d) = [d EXCEPT !.volumes = @ \ {w.volume}] BY <1>12 DEF Apply, Unmount
  <2>2. QED BY <1>12, <2>1 DEF Plain
<1>13. CASE w.op = "provider" BY <1>13 DEF Apply, Plain
<1>14. w.op \in {"enable", "disable", "place", "location", "configure", "add key", "remove key",
                 "timezone", "ssh", "upgrade", "mount", "unmount", "provider"}
  BY DEF Writes, Whats
<1>15. QED
  BY <1>1, <1>2, <1>3, <1>4, <1>5, <1>6, <1>7, <1>8, <1>9, <1>10, <1>11, <1>12, <1>13, <1>14

-----------------------------------------------------------------------------
(* The types, in parts                                                       *)

WriterTyped ==
    /\ DOMAIN writer = Procs
    /\ \A p \in Procs :
         /\ DOMAIN writer[p] = {"file", "data", "dumped", "mixed"}
         /\ writer[p].file \in Files \cup {None}
         /\ writer[p].dumped \in BOOLEAN /\ writer[p].mixed \in BOOLEAN
         /\ writer[p].file = "userdata" => Plain(writer[p].data)
CacheTyped ==
    /\ DOMAIN cache = Procs /\ \A p \in Procs : cache[p] # None => Plain(cache[p])
    /\ coincided \in [Procs -> BOOLEAN] /\ coincidences \in Nat
WorkerTyped ==
    worker \in [pc : {"idle", "stash", "locate", "truncate", "fill", "relocate", "save"},
                n : {1, 2}, was : Places, drives : Places, left : SUBSET Services]
FlakeTyped ==
    /\ flake \in [channel : Channels, whole : BOOLEAN,
                  modules : [Services -> Channels \cup {None}]]
    /\ defined \subseteq Services
CountsTyped ==
    tasks \in Nat /\ crashes \in Nat /\ raced \in BOOLEAN /\ overlapped \in BOOLEAN

LEMMA TypeParts ==
    TypeOK <=> /\ Stored(file) /\ Stored(snapshot) /\ WriterTyped /\ CacheTyped
               /\ todo \in [Procs -> Seq(Writes)] /\ req \in Seq(Asked)
               /\ FlakeTyped /\ WorkerTyped /\ CountsTyped
BY DEF TypeOK, WriterTyped, CacheTyped, FlakeTyped, WorkerTyped, CountsTyped

LEMMA TypePartsNext ==
    TypeOK' <=> /\ Stored(file)' /\ Stored(snapshot)' /\ WriterTyped' /\ CacheTyped'
                /\ (todo \in [Procs -> Seq(Writes)])' /\ (req \in Seq(Asked))'
                /\ FlakeTyped' /\ WorkerTyped' /\ CountsTyped'
BY TypeParts, PTL

LEMMA AskedFields ==
    ASSUME NEW r \in Asked,
           NEW pc \in {"look", "edit", "format", "put", "save", "done", "failed", "lost"}
    PROVE  [r EXCEPT !.pc = pc] \in Asked
BY DEF Asked

\* A sequence changed in place.
LEMMA InPlace ==
    ASSUME NEW S, NEW s \in Seq(S), NEW t, t \in [DOMAIN s -> S]
    PROVE  t \in Seq(S)
<1>1. Len(s) \in Nat /\ DOMAIN s = 1..Len(s) BY LenProperties
<1>2. t \in [1..Len(s) -> S] BY <1>1
<1>3. QED BY <1>1, <1>2, SeqDef

\* The block that is under way.
LEMMA BlockFacts ==
    ASSUME todo \in [Procs -> Seq(Writes)], NEW p \in Procs, todo[p] # <<>>
    PROVE  /\ Block(p) \in Writes /\ FileOf(Block(p)) \in Files
           /\ FileOf(Block(p)) = "userdata" <=> Block(p).op # "token"
           /\ Tail(todo[p]) \in Seq(Writes) /\ Len(todo[p]) \in Nat
           /\ Len(todo[p]) = 1 => Tail(todo[p]) = <<>>
           /\ Len(todo[p]) = 2 => /\ Tail(todo[p]) # <<>> /\ Len(Tail(todo[p])) = 1
                                  /\ Head(Tail(todo[p])) = todo[p][2]
<1>1. todo[p] \in Seq(Writes) OBVIOUS
<1>2. Head(todo[p]) \in Writes /\ Tail(todo[p]) \in Seq(Writes) BY <1>1, HeadTailProperties
<1>3. FileOf(Block(p)) \in Files /\ (FileOf(Block(p)) = "userdata" <=> Block(p).op # "token")
  BY DEF FileOf, Files
<1>4. Len(todo[p]) \in Nat BY <1>1, LenProperties
<1>5. /\ Len(Tail(todo[p])) = Len(todo[p]) - 1
      /\ \A i \in 1 .. Len(Tail(todo[p])) : Tail(todo[p])[i] = todo[p][i + 1]
  BY <1>1, HeadTailProperties
<1> DEFINE rest == Tail(todo[p])
<1>6. Len(todo[p]) = 1 => rest = <<>>
  <2>1. Len(rest) = Len(todo[p]) - 1 /\ rest \in Seq(Writes) BY <1>2, <1>5
  <2> HIDE DEF rest
  <2>2. rest # <<>> => Len(rest) \in Nat \ {0} BY <2>1, EmptySeq
  <2>3. QED BY <1>4, <2>1, <2>2
<1>7. ASSUME Len(todo[p]) = 2
      PROVE  /\ Tail(todo[p]) # <<>> /\ Len(Tail(todo[p])) = 1
             /\ Head(Tail(todo[p])) = todo[p][2]
  <2>1. Len(rest) = 1 /\ rest[1] = todo[p][2]
    <3>1. Len(rest) = Len(todo[p]) - 1 /\ \A i \in 1 .. Len(rest) : rest[i] = todo[p][i + 1]
      BY <1>5
    <3> HIDE DEF rest
    <3>2. Len(rest) = 1 BY <1>7, <3>1
    <3>3. 1 \in 1 .. Len(rest) /\ 1 + 1 = 2 BY <3>2
    <3>4. QED BY <3>1, <3>2, <3>3
  <2>2. rest # <<>>
    <3>1. Len(<<>>) = 0 /\ 0 # 1 BY EmptySeq
    <3> HIDE DEF rest
    <3>2. QED BY <2>1, <3>1, Zenon
  <2>3. Head(Tail(todo[p])) = Tail(todo[p])[1] BY <1>2, <2>2
  <2>4. QED BY <2>1, <2>2, <2>3
<1>8. QED BY <1>2, <1>3, <1>4, <1>6, <1>7 DEF Block

\* The thread is through with its blocks: where the requests and the worker go.
Onward ==
    /\ DOMAIN req' = DOMAIN req /\ req' \in Seq(Asked)
    /\ \A i \in DOMAIN req :
         /\ req'[i].what = req[i].what /\ req'[i].channel = req[i].channel
         /\ req'[i].modules = req[i].modules
         /\ \/ req'[i].pc = req[i].pc
            \/ req[i].pc = "save" /\ req'[i].pc \in {"done", "failed"}
            \/ req'[i].pc = "lost"

LEMMA SameIsOnward ==
    ASSUME req \in Seq(Asked), UNCHANGED req
    PROVE  Onward
BY DEF Onward

LEMMA EndsFacts ==
    ASSUME TypeOK, NEW p \in Procs, NEW pc \in {"done", "failed"}, Ends(p, pc)
    PROVE  /\ todo' = [todo EXCEPT ![p] = <<>>] /\ (todo \in [Procs -> Seq(Writes)])'
           /\ Onward
           /\ p = "api" => /\ \A i \in DOMAIN req : req'[i].pc # "save"
                           /\ UNCHANGED worker
           /\ p = "worker" => /\ UNCHANGED req
                              /\ worker' = IF pc = "done" THEN [worker EXCEPT !.pc = "relocate"]
                                           ELSE Rest
           /\ WorkerTyped'
<1>1. todo \in [Procs -> Seq(Writes)] /\ req \in Seq(Asked) /\ WorkerTyped BY TypeParts
<1>2. todo' = [todo EXCEPT ![p] = <<>>] BY DEF Ends
<1>3. (todo \in [Procs -> Seq(Writes)])' BY <1>1, <1>2, EmptySeq
<1>4. CASE p = "api"
  <2>1. req' = [i \in DOMAIN req |-> IF i \in Saving THEN [req[i] EXCEPT !.pc = pc] ELSE req[i]]
        /\ UNCHANGED worker
    BY <1>4 DEF Ends
  <2>2. \A i \in DOMAIN req : req[i] \in Asked BY <1>1, ElementOfSeq, LenProperties
  <2>3. ASSUME NEW i \in DOMAIN req
        PROVE  /\ req'[i] \in Asked /\ req'[i].what = req[i].what
               /\ req'[i].channel = req[i].channel /\ req'[i].modules = req[i].modules
               /\ req'[i].pc # "save"
               /\ req'[i].pc = req[i].pc \/ (req[i].pc = "save" /\ req'[i].pc \in {"done", "failed"})
    <3>1. [req[i] EXCEPT !.pc = pc] \in Asked BY <2>2, AskedFields
    <3>2. CASE i \in Saving BY <2>1, <2>2, <3>1, <3>2 DEF Saving, Asked
    <3>3. CASE i \notin Saving BY <2>1, <2>2, <3>3 DEF Saving
    <3>4. QED BY <3>2, <3>3
  <2>4. req' \in [DOMAIN req -> Asked] BY <2>1, <2>3
  <2>5. req' \in Seq(Asked) BY <1>1, <2>4, InPlace
  <2>6. QED BY <1>1, <1>2, <1>3, <1>4, <2>1, <2>3, <2>5 DEF Onward, WorkerTyped
<1>5. CASE p = "worker"
  <2>1. UNCHANGED req /\ worker' = IF pc = "done" THEN [worker EXCEPT !.pc = "relocate"] ELSE Rest
    BY <1>5 DEF Ends
  <2>2. WorkerTyped' BY <1>1, <2>1, RestFacts DEF WorkerTyped
  <2>3. QED BY <1>1, <1>2, <1>3, <1>5, <2>1, <2>2, SameIsOnward
<1>6. QED BY <1>4, <1>5 DEF Procs

\* What is left of the readings when the file has a new stamp.
LEMMA RestampFacts ==
    ASSUME CacheTyped, NEW f \in Files, NEW forgets, Restamp(f, forgets)
    PROVE  /\ CacheTyped' /\ coincidences' >= coincidences
           /\ f # "userdata" => UNCHANGED <<cache, coincidences, coincided>>
           /\ f = "userdata" => \A p \in Procs :
                /\ cache'[p] # None => cache'[p] = cache[p] /\ coincided'[p]
                /\ coincided'[p] => p \notin forgets /\ coincidences' > 0
<1>1. CASE f # "userdata"
  <2>1. UNCHANGED <<cache, coincidences, coincided>> BY <1>1 DEF Restamp
  <2>2. QED BY <1>1, <2>1 DEF CacheTyped
<1>2. CASE f = "userdata"
  <2>1. PICK kept \in SUBSET {p \in Procs \ forgets : cache[p] # None} :
          /\ coincidences' = coincidences + Cardinality(kept)
          /\ coincided' = [p \in Procs |-> p \in kept]
          /\ cache' = [p \in Procs |-> IF p \in kept THEN cache[p] ELSE None]
    BY <1>2 DEF Restamp
  <2>2. IsFiniteSet(Procs)
    <3>1. IsFiniteSet({"api"}) BY FS_Singleton
    <3>2. IsFiniteSet({"api"} \cup {"worker"}) BY <3>1, FS_AddElement
    <3>3. Procs = {"api"} \cup {"worker"} BY DEF Procs
    <3>4. QED BY <3>2, <3>3
  <2>3. IsFiniteSet(kept) BY <2>1, <2>2, FS_Subset
  <2>4. Cardinality(kept) \in Nat /\ (Cardinality(kept) = 0 <=> kept = {})
    BY <2>3, FS_CardinalityType, FS_EmptySet
  <2>5. coincidences \in Nat BY DEF CacheTyped
  <2>6. coincidences' \in Nat /\ coincidences' >= coincidences
        /\ (kept # {} => coincidences' > 0)
    BY <2>1, <2>4, <2>5
  <2>7. coincided' \in [Procs -> BOOLEAN] BY <2>1
  <2>8. DOMAIN cache' = Procs /\ \A p \in Procs : cache'[p] # None => Plain(cache'[p])
    BY <2>1 DEF CacheTyped
  <2>9. CacheTyped' BY <2>6, <2>7, <2>8 DEF CacheTyped
  <2>10. ASSUME NEW p \in Procs
         PROVE  /\ cache'[p] # None => cache'[p] = cache[p] /\ coincided'[p]
                /\ coincided'[p] => p \notin forgets /\ coincidences' > 0
    BY <2>1, <2>6
  <2>11. QED BY <1>2, <2>6, <2>9, <2>10
<1>3. QED BY <1>1, <1>2

\* What a request asks for, and the blocks it runs.
LEMMA BlocksFacts ==
    ASSUME NEW what \in Whats, what.op # "channel"
    PROVE  /\ Blocks(what) \in Seq(Writes) /\ Blocks(what) # <<>>
           /\ \/ /\ Blocks(what) = <<what>> /\ what \in Writes
                 /\ what.op \notin {"place", "location", "provider", "token", "dns"}
              \/ /\ what.op = "enable" /\ what.service \in Movable
                 /\ Blocks(what) = <<[op |-> "place", service |-> what.service], what>>
              \/ /\ what.op = "dns"
                 /\ Blocks(what) = <<[op |-> "provider", provider |-> what.provider],
                                     [op |-> "token", provider |-> what.provider]>>
<1> DEFINE place == [op |-> "place", service |-> what.service]
           provider == [op |-> "provider", provider |-> what.provider]
           token == [op |-> "token", provider |-> what.provider]
<1>1. CASE what.op = "enable" /\ what.service \in Movable
  <2>1. what.service \in Services BY <1>1, SettingsAssumption
  <2>2. place \in Writes BY <2>1 DEF Writes
  <2>3. what \in Writes BY <1>1 DEF Writes
  <2>4. Blocks(what) = <<place, what>> BY <1>1 DEF Blocks
  <2> HIDE DEF place
  <2>5. <<place, what>> \in Seq(Writes) /\ <<place, what>> # <<>> BY <2>2, <2>3
  <2>6. QED BY <1>1, <2>4, <2>5 DEF place
<1>2. CASE what.op = "dns"
  <2>1. what.provider \in Providers BY <1>2 DEF Whats
  <2>2. provider \in Writes /\ token \in Writes BY <2>1 DEF Writes
  <2>3. Blocks(what) = <<provider, token>> BY <1>2 DEF Blocks
  <2> HIDE DEF provider, token
  <2>4. <<provider, token>> \in Seq(Writes) /\ <<provider, token>> # <<>> BY <2>2
  <2>5. QED BY <1>2, <2>3, <2>4 DEF provider, token
<1>3. CASE what.op # "dns" /\ ~(what.op = "enable" /\ what.service \in Movable)
  <2>1. what \in Writes BY <1>3 DEF Writes
  <2>2. Blocks(what) = <<what>> BY <1>3 DEF Blocks
  <2>3. what.op \notin {"place", "location", "provider", "token", "dns"} BY <1>3 DEF Whats
  <2>4. <<what>> \in Seq(Writes) /\ <<what>> # <<>> BY <2>1
  <2>5. QED BY <2>1, <2>2, <2>3, <2>4
<1>4. QED BY <1>1, <1>2, <1>3

-----------------------------------------------------------------------------
(* What the steps of a write change                                          *)

\* The part of the types that a write touches.
WriteTyped ==
    /\ Stored(file) /\ WriterTyped /\ CacheTyped /\ todo \in [Procs -> Seq(Writes)]
    /\ WorkerTyped

LEMMA BeginFacts ==
    ASSUME TypeOK, NEW p \in Procs, Begin(p)
    PROVE  /\ WriteTyped' /\ Onward /\ UNCHANGED <<file, cache, coincidences, coincided>>
           /\ todo[p] # <<>> /\ writer[p] = NoWriter
           /\ FileOf(Block(p)) \in Files /\ writer[Other(p)].file # FileOf(Block(p))
           /\ \/ /\ file[FileOf(Block(p))].whole
                 /\ writer' = [writer EXCEPT ![p] =
                      [NoWriter EXCEPT !.file = FileOf(Block(p)),
                                       !.data = file[FileOf(Block(p))].data]]
                 /\ UNCHANGED <<todo, req, worker>>
              \/ ~file[FileOf(Block(p))].whole /\ Ends(p, "failed") /\ UNCHANGED writer
<1> DEFINE f == FileOf(Block(p))
<1>1. todo[p] # <<>> /\ writer[p] = NoWriter /\ UNCHANGED <<file, cache, coincidences, coincided>>
  BY DEF Begin
<1>2. Stored(file) /\ WriterTyped /\ CacheTyped /\ todo \in [Procs -> Seq(Writes)]
      /\ WorkerTyped /\ req \in Seq(Asked)
  BY TypeParts
<1>3. f \in Files BY <1>1, <1>2, BlockFacts
<1>4. writer[Other(p)].file # f BY DEF Begin, Locked
<1>5. Stored(file)' /\ CacheTyped' BY <1>1, <1>2 DEF Stored, CacheTyped
<1>6. CASE /\ file[f].whole /\ UNCHANGED <<todo, req, worker>>
           /\ writer' = [writer EXCEPT ![p] = [NoWriter EXCEPT !.file = f, !.data = file[f].data]]
  <2> DEFINE w == [NoWriter EXCEPT !.file = f, !.data = file[f].data]
  <2>1. /\ DOMAIN w = {"file", "data", "dumped", "mixed"} /\ w.file = f /\ w.data = file[f].data
        /\ w.dumped = FALSE /\ w.mixed = FALSE
    BY DEF NoWriter
  <2>2. f = "userdata" => Plain(file[f].data) BY <1>2 DEF Stored
  <2> HIDE DEF w, f
  <2>3. writer' = [writer EXCEPT ![p] = w] BY <1>6 DEF w
  <2>4. WriterTyped' BY <1>2, <1>3, <2>1, <2>2, <2>3 DEF WriterTyped
  <2>5. Onward BY <1>2, <1>6, SameIsOnward
  <2>6. (todo \in [Procs -> Seq(Writes)])' /\ WorkerTyped' BY <1>2, <1>6 DEF WorkerTyped
  <2>7. QED BY <1>1, <1>3, <1>4, <1>5, <1>6, <2>4, <2>5, <2>6 DEF WriteTyped, f
<1>7. CASE ~file[f].whole /\ Ends(p, "failed") /\ UNCHANGED writer
  <2>1. (todo \in [Procs -> Seq(Writes)])' /\ WorkerTyped' /\ Onward BY <1>7, EndsFacts
  <2>2. WriterTyped' BY <1>2, <1>7 DEF WriterTyped
  <2>3. QED BY <1>1, <1>3, <1>4, <1>5, <1>7, <2>1, <2>2 DEF WriteTyped
<1>8. QED BY <1>6, <1>7 DEF Begin

LEMMA RefuseFacts ==
    ASSUME TypeOK, TurnInv, NEW p \in Procs, Refuse(p)
    PROVE  /\ WriteTyped' /\ Onward /\ UNCHANGED <<file, coincidences>>
           /\ todo[p] # <<>> /\ Ends(p, "failed") /\ ~writer[p].dumped
           /\ writer' = [writer EXCEPT ![p] = NoWriter]
           /\ cache' = [cache EXCEPT ![p] = None]
           /\ coincided' = [coincided EXCEPT ![p] = FALSE]
           /\ Block(p).op \in {"add key", "remove key"}
<1>1. Stored(file) /\ WriterTyped /\ CacheTyped /\ todo \in [Procs -> Seq(Writes)]
      /\ WorkerTyped /\ req \in Seq(Asked)
  BY TypeParts
<1>2. /\ UNCHANGED <<file, coincidences>> /\ Ends(p, "failed") /\ writer[p].file # None
      /\ writer' = [writer EXCEPT ![p] = NoWriter] /\ ~writer[p].dumped
      /\ cache' = [cache EXCEPT ![p] = None] /\ coincided' = [coincided EXCEPT ![p] = FALSE]
      /\ Block(p).op \in {"add key", "remove key"}
  BY DEF Refuse, Unlock, Raises
<1>3. todo[p] # <<>> BY <1>2 DEF TurnInv
<1>4. Stored(file)' BY <1>1, <1>2 DEF Stored
<1>5. WriterTyped'
  <2>1. writer'[p] = NoWriter /\ DOMAIN writer' = Procs
        /\ \A q \in Procs : q # p => writer'[q] = writer[q]
    BY <1>1, <1>2 DEF WriterTyped
  <2>2. QED BY <1>1, <2>1, NoWriterFacts DEF WriterTyped
<1>6. CacheTyped' BY <1>1, <1>2 DEF CacheTyped
<1>7. (todo \in [Procs -> Seq(Writes)])' /\ WorkerTyped' /\ Onward BY <1>2, EndsFacts
<1>8. QED BY <1>2, <1>3, <1>4, <1>5, <1>6, <1>7 DEF WriteTyped

LEMMA DumpFacts ==
    ASSUME TypeOK, TurnInv, NEW p \in Procs, Dump(p)
    PROVE  /\ WriteTyped' /\ Onward
           /\ UNCHANGED <<todo, cache, coincidences, coincided, req, worker>>
           /\ todo[p] # <<>> /\ writer[p].file \in Files /\ writer[p].file # None
           /\ file' = [file EXCEPT ![writer[p].file].whole = FALSE]
           /\ writer' = [writer EXCEPT ![p].dumped = TRUE]
<1>1. Stored(file) /\ WriterTyped /\ CacheTyped /\ todo \in [Procs -> Seq(Writes)]
      /\ WorkerTyped /\ req \in Seq(Asked)
  BY TypeParts
<1>2. /\ UNCHANGED <<todo, cache, coincidences, coincided, req, worker>>
      /\ writer[p].file # None
      /\ file' = [file EXCEPT ![writer[p].file].whole = FALSE]
      /\ writer' = [writer EXCEPT ![p].dumped = TRUE]
  BY DEF Dump
<1>3. todo[p] # <<>> /\ writer[p].file \in Files BY <1>1, <1>2 DEF TurnInv, WriterTyped
<1>4. Stored(file)'
  <2>1. /\ DOMAIN file' = Files
        /\ \A f \in Files : /\ file'[f].data = file[f].data /\ DOMAIN file'[f] = {"data", "whole"}
                             /\ file'[f].whole \in BOOLEAN
    BY <1>1, <1>2, <1>3 DEF Stored
  <2>2. QED BY <1>1, <2>1 DEF Stored, Files
<1>5. WriterTyped' BY <1>1, <1>2 DEF WriterTyped
<1>6. CacheTyped' /\ (todo \in [Procs -> Seq(Writes)])' /\ WorkerTyped' /\ Onward
  BY <1>1, <1>2, SameIsOnward DEF CacheTyped, WorkerTyped
<1>7. QED BY <1>2, <1>3, <1>4, <1>5, <1>6 DEF WriteTyped

LEMMA FinishFacts ==
    ASSUME TypeOK, TurnInv, NEW p \in Procs, Finish(p)
    PROVE  /\ WriteTyped' /\ Onward /\ todo[p] # <<>> /\ writer[p].dumped
           /\ writer[p].file = FileOf(Block(p)) /\ writer[p].file \in Files
           /\ writer[p].file # None
           /\ DOMAIN file' = Files
           /\ file'[writer[p].file].data = Apply(Block(p), writer[p].data)
           /\ file'[writer[p].file].whole \in BOOLEAN
           /\ ~writer[p].mixed => file'[writer[p].file].whole
           /\ \A g \in Files : g # writer[p].file => file'[g] = file[g]
           /\ writer' = [writer EXCEPT ![p] = NoWriter]
           /\ Restamp(writer[p].file, {p})
           /\ \/ Len(todo[p]) = 1 /\ Ends(p, "done")
              \/ /\ Len(todo[p]) = 2 /\ todo' = [todo EXCEPT ![p] = Tail(@)]
                 /\ p = "api" /\ UNCHANGED <<req, worker>>
<1> DEFINE f == writer[p].file
<1>1. Stored(file) /\ WriterTyped /\ CacheTyped /\ todo \in [Procs -> Seq(Writes)]
      /\ WorkerTyped /\ req \in Seq(Asked)
  BY TypeParts
<1>2. /\ writer[p].dumped /\ writer' = [writer EXCEPT ![p] = NoWriter] /\ Restamp(f, {p})
      /\ IF Len(todo[p]) = 1 THEN Ends(p, "done")
         ELSE todo' = [todo EXCEPT ![p] = Tail(@)] /\ UNCHANGED <<req, worker>>
  BY DEF Finish, Unlock
<1>3. PICK whole \in IF writer[p].mixed THEN BOOLEAN ELSE {TRUE} :
        file' = [file EXCEPT ![f] = [data |-> Apply(Block(p), writer[p].data), whole |-> whole]]
  BY DEF Finish
<1>4. f # None /\ todo[p] # <<>> /\ f = FileOf(Block(p)) BY <1>2 DEF TurnInv
<1>5. f \in Files /\ (f = "userdata" => Plain(writer[p].data)) BY <1>1, <1>4 DEF WriterTyped
<1>6. Block(p) \in Writes /\ (f = "userdata" => Block(p).op # "token") /\ Tail(todo[p]) \in Seq(Writes)
  BY <1>1, <1>4, BlockFacts
<1> DEFINE written == Apply(Block(p), writer[p].data)
<1>7. f = "userdata" => Plain(written) BY <1>5, <1>6, ApplyFacts
<1> HIDE DEF written, f
<1>8. /\ DOMAIN file' = Files /\ file'[f].data = written /\ file'[f].whole = whole
      /\ DOMAIN file'[f] = {"data", "whole"} /\ \A g \in Files : g # f => file'[g] = file[g]
  <2>1. file' = [file EXCEPT ![f] = [data |-> written, whole |-> whole]] BY <1>3 DEF written
  <2>2. QED BY <1>1, <1>5, <2>1 DEF Stored
<1>9. whole \in BOOLEAN /\ (~writer[p].mixed => whole) OBVIOUS
<1>10. Stored(file)' BY <1>1, <1>7, <1>8, <1>9, <1>5 DEF Stored, Files
<1>11. WriterTyped'
  <2>1. writer'[p] = NoWriter /\ DOMAIN writer' = Procs
        /\ \A q \in Procs : q # p => writer'[q] = writer[q]
    BY <1>1, <1>2 DEF WriterTyped
  <2>2. QED BY <1>1, <2>1, NoWriterFacts DEF WriterTyped
<1>12. CacheTyped' BY <1>1, <1>2, <1>5, RestampFacts
<1>13. CASE Len(todo[p]) = 1
  <2>1. Ends(p, "done") BY <1>2, <1>13
  <2>2. (todo \in [Procs -> Seq(Writes)])' /\ WorkerTyped' /\ Onward BY <2>1, EndsFacts
  <2>3. QED BY <1>2, <1>4, <1>5, <1>8, <1>9, <1>10, <1>11, <1>12, <1>13, <2>1, <2>2
         DEF WriteTyped, f, written
<1>14. CASE Len(todo[p]) # 1
  <2>1. p = "api" /\ Len(todo[p]) = 2 BY <1>4, <1>14 DEF TurnInv, Procs
  <2>2. todo' = [todo EXCEPT ![p] = Tail(@)] /\ UNCHANGED <<req, worker>> BY <1>2, <1>14
  <2>3. (todo \in [Procs -> Seq(Writes)])' BY <1>1, <1>6, <2>2
  <2>4. WorkerTyped' /\ Onward BY <1>1, <2>2, SameIsOnward DEF WorkerTyped
  <2>5. QED BY <1>2, <1>4, <1>5, <1>8, <1>9, <1>10, <1>11, <1>12, <2>1, <2>2, <2>3, <2>4
         DEF WriteTyped, f, written
<1>15. QED BY <1>13, <1>14

-----------------------------------------------------------------------------
(* What the other actions of the API change                                  *)

LEMMA RequestAsks ==
    ASSUME Request
    PROVE  \E what \in Whats : Ask(what)
<1> DEFINE Asks == \E what \in Whats : Ask(what)
<1>1. ASSUME NEW s \in Services, EnableService(s) \/ DisableService(s)
      PROVE  Asks
  BY <1>1 DEF EnableService, DisableService, Whats
<1>2. ASSUME NEW s \in Services, NEW x \in Subdomains, SetServiceConfiguration(s, x)
      PROVE  Asks
  BY <1>2 DEF SetServiceConfiguration, Whats
<1>3. ASSUME NEW z \in Timezones, ChangeTimezone(z) PROVE Asks
  BY <1>3 DEF ChangeTimezone, Whats
<1>4. ASSUME NEW on \in Switch, ChangeSshSettings(on) \/ ChangeAutoUpgradeSettings(None, on)
      PROVE  Asks
  BY <1>4 DEF ChangeSshSettings, ChangeAutoUpgradeSettings, Whats
<1>5. ASSUME NEW u \in Owners, NEW k \in Keys, AddSshKey(u, k) \/ RemoveSshKey(u, k) PROVE Asks
  BY <1>5 DEF AddSshKey, RemoveSshKey, Whats
<1>6. ASSUME NEW v \in Mountable, MountVolume(v) \/ UnmountVolume(v) PROVE Asks
  BY <1>6 DEF MountVolume, UnmountVolume, Whats
<1>7. ASSUME NEW p \in Providers, SetDnsProvider(p) PROVE Asks
  BY <1>7 DEF SetDnsProvider, Whats
<1>8. ASSUME NEW c \in Channels, SetUpdateChannel(c) PROVE Asks
  BY <1>8 DEF SetUpdateChannel, Whats
<1>9. QED BY <1>1, <1>2, <1>3, <1>4, <1>5, <1>6, <1>7, <1>8 DEF Request

LEMMA AskFacts ==
    ASSUME TypeOK, NEW what \in Whats, Ask(what)
    PROVE  /\ IdleLoop /\ req' \in Seq(Asked)
           /\ DOMAIN req' = DOMAIN req \cup {Len(req) + 1} /\ Len(req) + 1 \notin DOMAIN req
           /\ \A i \in DOMAIN req : req'[i] = req[i]
           /\ req'[Len(req) + 1] = [what |-> what, pc |-> FirstStep(what),
                                    channel |-> None, modules |-> None]
           /\ FirstStep(what) \in {"failed", "look", "edit", "save"}
           /\ todo' = [todo EXCEPT !["api"] = IF FirstStep(what) = "save" THEN Blocks(what)
                                              ELSE <<>>]
           /\ FirstStep(what) = "save" => what.op \notin {"enable", "channel"}
           /\ (todo \in [Procs -> Seq(Writes)])' /\ CacheTyped'
           /\ UNCHANGED <<file, writer, coincidences, coincided, flake, defined, snapshot, worker,
                          tasks, crashes>>
<1> DEFINE first == FirstStep(what)
           r == [what |-> what, pc |-> first, channel |-> None, modules |-> None]
<1>1. CacheTyped /\ todo \in [Procs -> Seq(Writes)] /\ req \in Seq(Asked) /\ Stored(file)
  BY TypeParts
<1>2. /\ IdleLoop
      /\ UNCHANGED <<file, writer, coincidences, coincided, flake, defined, snapshot, worker,
                     tasks, crashes>>
      /\ todo' = [todo EXCEPT !["api"] = IF first = "save" THEN Blocks(what) ELSE <<>>]
      /\ req' = Append(req, r)
  BY DEF Ask
<1>3. first \in {"failed", "look", "edit", "save"}
      /\ (first = "save" => what.op \notin {"enable", "channel"})
  BY DEF FirstStep
<1>4. r \in Asked BY <1>3 DEF Asked
<1>5. /\ req' \in Seq(Asked) /\ Len(req) \in Nat /\ Len(req') = Len(req) + 1
      /\ DOMAIN req = 1 .. Len(req) /\ DOMAIN req' = 1 .. Len(req')
      /\ \A i \in 1 .. Len(req) : req'[i] = req[i]
      /\ req'[Len(req) + 1] = r
  <2> HIDE DEF r
  <2>1. QED BY <1>1, <1>2, <1>4, AppendProperties, LenProperties
<1>6. DOMAIN req' = DOMAIN req \cup {Len(req) + 1} /\ Len(req) + 1 \notin DOMAIN req BY <1>5
<1>7. (todo \in [Procs -> Seq(Writes)])'
  <2>1. first = "save" => Blocks(what) \in Seq(Writes) BY <1>3, BlocksFacts
  <2>2. (IF first = "save" THEN Blocks(what) ELSE <<>>) \in Seq(Writes) BY <2>1, EmptySeq
  <2> HIDE DEF first
  <2>3. QED BY <1>1, <1>2, <2>2
<1>8. CacheTyped'
  <2>1. CASE UNCHANGED cache BY <1>1, <1>2, <2>1 DEF CacheTyped
  <2>2. CASE cache' = [cache EXCEPT !["api"] = IF Garbled("api") THEN @ ELSE Reading("api")]
    <3>1. Plain(Reading("api")) BY <1>1 DEF Reading, Hit, CacheTyped, Stored, Procs
    <3>2. QED BY <1>1, <1>2, <2>2, <3>1 DEF CacheTyped
  <2>3. QED BY <2>1, <2>2 DEF Ask
<1>9. QED BY <1>2, <1>3, <1>5, <1>6, <1>7, <1>8

\* One request goes on.
LEMMA GoToFacts ==
    ASSUME req \in Seq(Asked), NEW i \in DOMAIN req,
           NEW pc \in {"look", "edit", "format", "put", "save", "done", "failed", "lost"},
           GoTo(i, pc)
    PROVE  /\ req' \in Seq(Asked) /\ DOMAIN req' = DOMAIN req
           /\ \A j \in DOMAIN req : j # i => req'[j] = req[j]
           /\ \A j \in DOMAIN req : /\ req'[j].what = req[j].what
                                    /\ req'[j].channel = req[j].channel
                                    /\ req'[j].modules = req[j].modules
           /\ req'[i].pc = pc
<1>1. \A j \in DOMAIN req : req[j] \in Asked BY ElementOfSeq, LenProperties
<1>2. [req[i] EXCEPT !.pc = pc] \in Asked BY <1>1, AskedFields
<1>3. req' = [req EXCEPT ![i] = [req[i] EXCEPT !.pc = pc]] BY DEF GoTo
<1>4. req' \in [DOMAIN req -> Asked] BY <1>1, <1>2, <1>3
<1>5. req' \in Seq(Asked) BY <1>4, InPlace
<1>6. QED BY <1>1, <1>3, <1>5 DEF Asked

\* The fields of a request.
LEMMA RequestFacts ==
    ASSUME req \in Seq(Asked), NEW i \in DOMAIN req
    PROVE  /\ req[i] \in Asked /\ req[i].what \in Whats
           /\ req[i].what.op \in {"enable", "disable", "configure"} => Service(i) \in Services
           /\ req[i].what.op = "channel" => req[i].what.channel \in Channels
<1>1. req[i] \in Asked BY ElementOfSeq, LenProperties
<1>2. req[i].what \in Whats BY <1>1 DEF Asked
<1>3. QED BY <1>1, <1>2 DEF Whats, Service

\* What a request that goes through does.
LEMMA ThroughFacts ==
    ASSUME TypeOK, NEW i \in DOMAIN req, Through(i), req[i].pc # "done"
    PROVE  /\ req' \in Seq(Asked) /\ DOMAIN req' = DOMAIN req
           /\ \A j \in DOMAIN req : j # i => req'[j] = req[j]
           /\ \A j \in DOMAIN req : /\ req'[j].what = req[j].what
                                    /\ req'[j].channel = req[j].channel
                                    /\ req'[j].modules = req[j].modules
           /\ req'[i].pc \in {"save", "done"}
           /\ (todo \in [Procs -> Seq(Writes)])'
           /\ req'[i].pc = "save" => /\ req[i].what.op = "enable"
                                     /\ todo' = [todo EXCEPT !["api"] = Blocks(req[i].what)]
           /\ req'[i].pc = "done" => req[i].what.op # "enable" /\ UNCHANGED todo
<1>1. todo \in [Procs -> Seq(Writes)] /\ req \in Seq(Asked) BY TypeParts
<1>2. CASE req[i].what.op = "enable"
  <2>1. GoTo(i, "save") /\ todo' = [todo EXCEPT !["api"] = Blocks(req[i].what)]
    BY <1>2 DEF Through
  <2>2. Blocks(req[i].what) \in Seq(Writes) BY <1>1, <1>2, RequestFacts, BlocksFacts
  <2>3. QED BY <1>1, <1>2, <2>1, <2>2, GoToFacts
<1>3. CASE req[i].what.op # "enable"
  <2>1. GoTo(i, "done") /\ UNCHANGED todo BY <1>3 DEF Through
  <2>2. QED BY <1>1, <1>3, <2>1, GoToFacts
<1>4. QED BY <1>2, <1>3

LEMMA LookFacts ==
    ASSUME TypeOK, TurnInv, NEW i \in DOMAIN req, Look(i)
    PROVE  /\ IdleLoop /\ req[i].pc = "look" /\ req[i].what.op = "enable"
           /\ req' \in Seq(Asked) /\ DOMAIN req' = DOMAIN req
           /\ \A j \in DOMAIN req : j # i => req'[j] = req[j]
           /\ \A j \in DOMAIN req : /\ req'[j].what = req[j].what
                                    /\ req'[j].channel = req[j].channel
                                    /\ req'[j].modules = req[j].modules
           /\ (todo \in [Procs -> Seq(Writes)])'
           /\ \/ /\ req'[i].pc = "save" /\ Installed(Service(i))
                 /\ todo' = [todo EXCEPT !["api"] = Blocks(req[i].what)]
              \/ req'[i].pc \in {"edit", "failed"} /\ UNCHANGED todo
           /\ UNCHANGED flake /\ Otherwise
<1>1. todo \in [Procs -> Seq(Writes)] /\ req \in Seq(Asked) BY TypeParts
<1>2. IdleLoop /\ req[i].pc = "look" /\ req[i].what.op = "enable" /\ UNCHANGED flake /\ Otherwise
  BY DEF Look, TurnInv
<1>3. CASE flake.whole /\ Installed(Service(i))
  <2>1. GoTo(i, "save") /\ todo' = [todo EXCEPT !["api"] = Blocks(req[i].what)]
    BY <1>3 DEF Look
  <2>2. Blocks(req[i].what) \in Seq(Writes) BY <1>1, <1>2, RequestFacts, BlocksFacts
  <2>3. QED BY <1>1, <1>2, <1>3, <2>1, <2>2, GoToFacts
<1>4. CASE ~(flake.whole /\ Installed(Service(i)))
  <2>1. GoTo(i, IF flake.whole /\ Service(i) \in Suggested THEN "edit" ELSE "failed")
        /\ UNCHANGED todo
    BY <1>4 DEF Look
  <2>2. PICK pc \in {"edit", "failed"} : GoTo(i, pc) BY <2>1
  <2>3. QED BY <1>1, <1>2, <2>1, <2>2, GoToFacts
<1>5. QED BY <1>3, <1>4

\* The flake that a request makes of the one it reads.
LEMMA EditedFacts ==
    ASSUME TypeOK, TurnInv, NEW i \in DOMAIN req, req[i].pc = "edit"
    PROVE  /\ Edited(i).channel \in Channels
           /\ Edited(i).modules \in [Services -> Channels \cup {None}]
           /\ \A s \in Services : Installed(s) => Edited(i).modules[s] # None
           /\ req[i].what.op = "enable" =>
                /\ Service(i) \in Services /\ Edited(i).modules[Service(i)] # None
           /\ (\A s \in Services : Installed(s) => flake.modules[s] = flake.channel) =>
                \A s \in Services : Edited(i).modules[s] # None =>
                    Edited(i).modules[s] = Edited(i).channel
<1>1. /\ flake.channel \in Channels /\ flake.modules \in [Services -> Channels \cup {None}]
      /\ req \in Seq(Asked)
  BY TypeParts DEF FlakeTyped
<1>2. None \notin Channels BY SettingsAssumption
<1>3. CASE req[i].what.op = "enable"
  <2>1. Service(i) \in Services BY <1>1, <1>3, RequestFacts
  <2>2. Edited(i) = [channel |-> flake.channel,
                     modules |-> [flake.modules EXCEPT ![Service(i)] = flake.channel]]
    BY <1>3 DEF Edited, WithModule
  <2>3. QED BY <1>1, <1>2, <1>3, <2>1, <2>2 DEF Installed
<1>4. CASE req[i].what.op = "channel"
  <2> DEFINE c == req[i].what.channel
  <2>1. c \in Channels BY <1>1, <1>4, RequestFacts
  <2>2. Edited(i) = [channel |-> c,
                     modules |-> [s \in Services |-> IF flake.modules[s] = flake.channel THEN c
                                                     ELSE flake.modules[s]]]
    BY <1>4 DEF Edited, WithChannel, ComesFromChannel
  <2> HIDE DEF c
  <2>3. QED BY <1>1, <1>2, <1>4, <2>1, <2>2 DEF Installed
<1>5. QED BY <1>3, <1>4 DEF TurnInv

LEMMA EditFacts ==
    ASSUME TypeOK, TurnInv, NEW i \in DOMAIN req, Edit(i)
    PROVE  /\ IdleLoop /\ req[i].pc = "edit"
           /\ req' \in Seq(Asked) /\ DOMAIN req' = DOMAIN req
           /\ \A j \in DOMAIN req : j # i => req'[j] = req[j]
           /\ req'[i].what = req[i].what /\ (todo \in [Procs -> Seq(Writes)])'
           /\ \/ req'[i].pc = "failed" /\ UNCHANGED todo
              \/ /\ Edited(i).channel = flake.channel /\ Edited(i).modules = flake.modules
                 /\ \/ /\ req'[i].pc = "save" /\ req[i].what.op = "enable"
                       /\ todo' = [todo EXCEPT !["api"] = Blocks(req[i].what)]
                    \/ req'[i].pc = "done" /\ req[i].what.op # "enable" /\ UNCHANGED todo
              \/ /\ req'[i].pc = "format" /\ UNCHANGED todo
                 /\ req'[i].channel = Edited(i).channel /\ req'[i].modules = Edited(i).modules
           /\ UNCHANGED flake /\ Otherwise
<1>1. todo \in [Procs -> Seq(Writes)] /\ req \in Seq(Asked) BY TypeParts
<1>2. IdleLoop /\ req[i].pc = "edit" /\ UNCHANGED flake /\ Otherwise BY DEF Edit
<1>3. CASE GoTo(i, "failed") /\ UNCHANGED todo
  <2>1. QED BY <1>1, <1>2, <1>3, GoToFacts
<1>4. CASE Edited(i) = [channel |-> flake.channel, modules |-> flake.modules] /\ Through(i)
  <2>1. Edited(i).channel = flake.channel /\ Edited(i).modules = flake.modules BY <1>4
  <2>2. QED BY <1>1, <1>2, <1>4, <2>1, ThroughFacts
<1>5. CASE /\ req' = [req EXCEPT ![i].pc = "format", ![i].channel = Edited(i).channel,
                                 ![i].modules = Edited(i).modules]
           /\ UNCHANGED todo
  <2> DEFINE e == Edited(i)
             r == [req[i] EXCEPT !.pc = "format", !.channel = e.channel, !.modules = e.modules]
  <2>1. e.channel \in Channels /\ e.modules \in [Services -> Channels \cup {None}]
    BY <1>2, EditedFacts
  <2> HIDE DEF e
  <2>2. \A j \in DOMAIN req : req[j] \in Asked BY <1>1, RequestFacts
  <2>3. /\ r \in Asked /\ r.what = req[i].what /\ r.pc = "format" /\ r.channel = e.channel
        /\ r.modules = e.modules
    BY <2>1, <2>2 DEF Asked
  <2>4. req' = [req EXCEPT ![i] = r] BY <1>5 DEF e
  <2> HIDE DEF r
  <2>5. req' \in [DOMAIN req -> Asked] BY <2>2, <2>3, <2>4
  <2>6. req' \in Seq(Asked) BY <1>1, <2>5, InPlace
  <2>7. QED BY <1>1, <1>2, <1>5, <2>3, <2>4, <2>6 DEF e
<1>6. QED BY <1>3, <1>4, <1>5 DEF Edit

LEMMA EmptyFacts ==
    ASSUME TypeOK, NEW i \in DOMAIN req, Empty(i)
    PROVE  /\ IdleLoop /\ req[i].pc = "format"
           /\ req' \in Seq(Asked) /\ DOMAIN req' = DOMAIN req
           /\ \A j \in DOMAIN req : j # i => req'[j] = req[j]
           /\ \A j \in DOMAIN req : /\ req'[j].what = req[j].what
                                    /\ req'[j].channel = req[j].channel
                                    /\ req'[j].modules = req[j].modules
           /\ req'[i].pc = "put" /\ UNCHANGED todo
           /\ flake'.whole = FALSE /\ flake'.channel = flake.channel
           /\ flake'.modules = flake.modules /\ FlakeTyped' /\ Otherwise
<1>1. req \in Seq(Asked) /\ FlakeTyped BY TypeParts
<1>2. /\ IdleLoop /\ req[i].pc = "format" /\ UNCHANGED todo /\ Otherwise /\ GoTo(i, "put")
      /\ flake' = [flake EXCEPT !.whole = FALSE]
  BY DEF Empty
<1>3. UNCHANGED defined BY <1>2 DEF Otherwise
<1>4. QED BY <1>1, <1>2, <1>3, GoToFacts DEF FlakeTyped

LEMMA PutFacts ==
    ASSUME TypeOK, TurnInv, NEW i \in DOMAIN req, Put(i)
    PROVE  /\ IdleLoop /\ req[i].pc = "put"
           /\ req' \in Seq(Asked) /\ DOMAIN req' = DOMAIN req
           /\ \A j \in DOMAIN req : j # i => req'[j] = req[j]
           /\ \A j \in DOMAIN req : /\ req'[j].what = req[j].what
                                    /\ req'[j].channel = req[j].channel
                                    /\ req'[j].modules = req[j].modules
           /\ (todo \in [Procs -> Seq(Writes)])'
           /\ \/ /\ req'[i].pc = "save" /\ req[i].what.op = "enable"
                 /\ todo' = [todo EXCEPT !["api"] = Blocks(req[i].what)]
              \/ req'[i].pc = "done" /\ req[i].what.op # "enable" /\ UNCHANGED todo
           /\ flake'.channel = req[i].channel /\ flake'.modules = req[i].modules
           /\ FlakeTyped' /\ Otherwise
<1>1. req \in Seq(Asked) /\ FlakeTyped BY TypeParts
<1>2. /\ IdleLoop /\ req[i].pc = "put" /\ Otherwise /\ Through(i) BY DEF Put
<1>3. PICK whole \in BOOLEAN :
        flake' = [channel |-> req[i].channel, modules |-> req[i].modules, whole |-> whole]
  BY DEF Put
<1>4. req[i].channel \in Channels /\ req[i].modules \in [Services -> Channels \cup {None}]
  BY <1>2 DEF TurnInv
<1>5. UNCHANGED defined BY <1>2 DEF Otherwise
<1>6. FlakeTyped' BY <1>1, <1>3, <1>4, <1>5 DEF FlakeTyped
<1>7. flake'.channel = req[i].channel /\ flake'.modules = req[i].modules BY <1>3
<1>8. QED BY <1>2, <1>6, <1>7, ThroughFacts

-----------------------------------------------------------------------------
(* What the worker changes                                                   *)

\* The places a look finds are volumes.
LEMMA GetDriveFacts ==
    ASSUME NEW d, Plain(d), NEW s \in Services
    PROVE  GetDrive(d, s) \in Volumes /\ (s \in Movable /\ d.location[s] # None =>
                                             GetDrive(d, s) = d.location[s])
BY SettingsAssumption DEF GetDrive, Plain

LEMMA ReadingFacts ==
    ASSUME TypeOK, NEW p \in Procs
    PROVE  Plain(Reading(p)) /\ Plain(file["userdata"].data)
<1>1. Stored(file) /\ CacheTyped BY TypeParts
<1>2. QED BY <1>1 DEF Stored, CacheTyped, Reading, Hit

\* Who dumps while the file is copied over writes a mixture.
LEMMA MixedFacts ==
    ASSUME WriterTyped, NEW f, Mixed(f)
    PROVE  /\ WriterTyped'
           /\ \A p \in Procs : /\ writer'[p].file = writer[p].file
                               /\ writer'[p].data = writer[p].data
                               /\ writer'[p].dumped = writer[p].dumped
                               /\ writer'[p].mixed = (writer[p].mixed \/ (writer[p].file = f
                                                                  /\ writer[p].dumped))
BY DEF Mixed, WriterTyped

LEMMA LocateFacts ==
    ASSUME TypeOK, Locate
    PROVE  /\ worker.pc = "locate" /\ WorkerTyped' /\ CacheTyped'
           /\ UNCHANGED <<file, writer, todo, coincidences, coincided, snapshot, tasks,
                          req, flake, defined, crashes>>
           /\ \/ worker' = Rest /\ UNCHANGED cache
              \/ /\ worker'.pc = "truncate" /\ worker'.n = worker.n /\ worker'.left = worker.left
                 /\ worker'.was = [s \in MovableServices |-> GetDrive(Reading("worker"), s)]
                 /\ worker'.drives
                      = [s \in MovableServices |-> GetDrive(file["userdata"].data, s)]
                 /\ cache' = [cache EXCEPT !["worker"] = Reading("worker")]
<1>1. WorkerTyped /\ CacheTyped /\ FlakeTyped BY TypeParts
<1>2. worker.pc = "locate" /\ UNCHANGED <<snapshot, tasks, req, flake, defined, crashes>>
  BY DEF Locate, Kept
<1>3. "worker" \in Procs BY DEF Procs
<1>4. CASE worker' = Rest /\ UNCHANGED files
  <2>1. WorkerTyped' BY <1>4, RestFacts DEF WorkerTyped
  <2>2. CacheTyped' BY <1>1, <1>4 DEF CacheTyped, files
  <2>3. QED BY <1>2, <1>4, <2>1, <2>2 DEF files
<1>5. CASE /\ worker' = [worker EXCEPT !.pc = "truncate",
                !.was    = [s \in MovableServices |-> GetDrive(Reading("worker"), s)],
                !.drives = [s \in MovableServices |-> GetDrive(file["userdata"].data, s)]]
           /\ Remember("worker")
  <2>1. Plain(Reading("worker")) /\ Plain(file["userdata"].data) BY <1>3, ReadingFacts
  <2> DEFINE was == [s \in MovableServices |-> GetDrive(Reading("worker"), s)]
             drives == [s \in MovableServices |-> GetDrive(file["userdata"].data, s)]
  <2>2. MovableServices \subseteq Services BY <1>1 DEF MovableServices, FlakeTyped
  <2>3. was \in [MovableServices -> Volumes] /\ drives \in [MovableServices -> Volumes]
    BY <2>1, <2>2, GetDriveFacts
  <2>4. was \in Places /\ drives \in Places BY <2>2, <2>3 DEF Places
  <2> HIDE DEF was, drives
  <2>5. worker' = [worker EXCEPT !.pc = "truncate", !.was = was, !.drives = drives]
    BY <1>5 DEF was, drives
  <2>6. /\ WorkerTyped' /\ worker'.pc = "truncate" /\ worker'.n = worker.n
        /\ worker'.left = worker.left /\ worker'.was = was /\ worker'.drives = drives
    BY <1>1, <2>4, <2>5 DEF WorkerTyped
  <2>7. /\ cache' = [cache EXCEPT !["worker"] = Reading("worker")]
        /\ UNCHANGED <<file, writer, todo, coincidences, coincided>>
    BY <1>5 DEF Remember
  <2>8. CacheTyped' BY <1>1, <2>1, <2>7 DEF CacheTyped
  <2>9. QED BY <1>2, <2>6, <2>7, <2>8 DEF was, drives
<1>6. QED BY <1>4, <1>5 DEF Locate

LEMMA TruncateFacts ==
    ASSUME TypeOK, Truncate
    PROVE  LET f == Copied[worker.n] IN
           /\ worker.pc = "truncate" /\ f \in Files /\ WriteTyped'
           /\ file' = [file EXCEPT ![f].whole = FALSE] /\ Mixed(f)
           /\ worker' = [worker EXCEPT !.pc = "fill"]
           /\ UNCHANGED <<todo, cache, coincidences, coincided, snapshot, tasks,
                          req, flake, defined, crashes>>
<1> DEFINE f == Copied[worker.n]
<1>1. Stored(file) /\ WriterTyped /\ CacheTyped /\ todo \in [Procs -> Seq(Writes)] /\ WorkerTyped
  BY TypeParts
<1>2. worker.n \in {1, 2} BY <1>1 DEF WorkerTyped
<1>3. f \in Files BY <1>2, ProcFacts
<1>4. /\ worker.pc = "truncate" /\ file' = [file EXCEPT ![f].whole = FALSE] /\ Mixed(f)
      /\ worker' = [worker EXCEPT !.pc = "fill"]
      /\ UNCHANGED <<todo, cache, coincidences, coincided, snapshot, tasks,
                     req, flake, defined, crashes>>
  BY DEF Truncate, Step, Kept
<1> HIDE DEF f
<1>5. Stored(file)'
  <2>1. /\ DOMAIN file' = Files
        /\ \A g \in Files : /\ file'[g].data = file[g].data /\ DOMAIN file'[g] = {"data", "whole"}
                            /\ file'[g].whole \in BOOLEAN
    BY <1>1, <1>3, <1>4 DEF Stored
  <2>2. QED BY <1>1, <2>1 DEF Stored, Files
<1>6. WriterTyped' BY <1>1, <1>4, MixedFacts
<1>7. CacheTyped' /\ (todo \in [Procs -> Seq(Writes)])' BY <1>1, <1>4 DEF CacheTyped
<1>8. WorkerTyped' BY <1>1, <1>4 DEF WorkerTyped
<1>9. QED BY <1>3, <1>4, <1>5, <1>6, <1>7, <1>8 DEF WriteTyped, f

LEMMA FillFacts ==
    ASSUME TypeOK, Fill
    PROVE  LET f == Copied[worker.n] IN
           /\ worker.pc = "fill" /\ f \in Files /\ WriteTyped'
           /\ DOMAIN file' = Files /\ file'[f].data = snapshot[f].data
           /\ \A g \in Files : g # f => file'[g] = file[g]
           /\ ~file'[f].whole => \/ writer["api"].file = f /\ writer["api"].dumped
                                 \/ ~snapshot[f].whole \/ file[f].whole
           /\ file'[f].whole => ~(writer["api"].file = f /\ writer["api"].dumped)
           /\ Mixed(f) /\ Restamp(f, {})
           /\ \/ worker.n = 1 /\ worker' = [worker EXCEPT !.pc = "truncate", !.n = 2]
              \/ worker.n = 2 /\ worker' = [worker EXCEPT !.pc = "relocate",
                                                          !.left = MovableServices]
           /\ UNCHANGED <<todo, snapshot, tasks, req, flake, defined, crashes>>
<1> DEFINE f == Copied[worker.n]
           dumping == writer["api"].file = f /\ writer["api"].dumped
<1>1. /\ Stored(file) /\ WriterTyped /\ CacheTyped /\ todo \in [Procs -> Seq(Writes)]
      /\ WorkerTyped /\ Stored(snapshot) /\ FlakeTyped
  BY TypeParts
<1>2. worker.n \in {1, 2} BY <1>1 DEF WorkerTyped
<1>3. f \in Files BY <1>2, ProcFacts
<1>4. /\ worker.pc = "fill" /\ Mixed(f) /\ Restamp(f, {})
      /\ UNCHANGED <<todo, snapshot, tasks, req, flake, defined, crashes>>
  BY DEF Fill, Kept
<1>5. PICK whole \in IF dumping \/ ~snapshot[f].whole THEN {FALSE}
                     ELSE IF file[f].whole THEN BOOLEAN ELSE {TRUE} :
        file' = [file EXCEPT ![f] = [data |-> snapshot[f].data, whole |-> whole]]
  BY DEF Fill
<1>6. worker' = IF worker.n < Len(Copied)
                THEN [worker EXCEPT !.pc = "truncate", !.n = @ + 1]
                ELSE [worker EXCEPT !.pc = "relocate", !.left = MovableServices]
  BY DEF Fill
<1>7. \/ worker.n = 1 /\ worker' = [worker EXCEPT !.pc = "truncate", !.n = 2]
      \/ worker.n = 2 /\ worker' = [worker EXCEPT !.pc = "relocate", !.left = MovableServices]
  <2>1. CASE worker.n = 1
    <3>1. worker.n < Len(Copied) BY <2>1, ProcFacts
    <3>2. worker' = [worker EXCEPT !.pc = "truncate", !.n = @ + 1] BY <1>6, <3>1
    <3>3. worker.n + 1 = 2 BY <2>1
    <3>4. QED BY <2>1, <3>2, <3>3
  <2>2. CASE worker.n = 2
    <3>1. ~(worker.n < Len(Copied)) BY <2>2, ProcFacts
    <3>2. QED BY <1>6, <2>2, <3>1
  <2>3. QED BY <1>2, <2>1, <2>2
<1>8. WorkerTyped'
  <2>1. MovableServices \subseteq Services BY <1>1 DEF MovableServices, FlakeTyped
  <2> HIDE DEF f
  <2>2. QED BY <1>1, <1>7, <2>1 DEF WorkerTyped
<1>9. WriterTyped' /\ CacheTyped' /\ (todo \in [Procs -> Seq(Writes)])'
  BY <1>1, <1>3, <1>4, MixedFacts, RestampFacts
<1>10. whole \in BOOLEAN /\ (~whole => dumping \/ ~snapshot[f].whole \/ file[f].whole)
       /\ (whole => ~dumping)
  OBVIOUS
<1>11. /\ DOMAIN file' = Files /\ \A g \in Files : g # f => file'[g] = file[g]
       /\ file'[f].data = snapshot[f].data /\ file'[f].whole = whole
       /\ DOMAIN file'[f] = {"data", "whole"}
  <2> HIDE DEF f
  <2>1. QED BY <1>1, <1>3, <1>5 DEF Stored
<1>12. Stored(file)' BY <1>1, <1>3, <1>10, <1>11 DEF Stored, Files
<1>13. QED BY <1>3, <1>4, <1>7, <1>8, <1>9, <1>10, <1>11, <1>12 DEF WriteTyped

LEMMA StashFacts ==
    ASSUME TypeOK, Stash
    PROVE  LET f == Copied[worker.n] IN
           /\ worker.pc = "stash" /\ f \in Files /\ Stored(snapshot)' /\ WorkerTyped'
           /\ snapshot' = [snapshot EXCEPT ![f] = file[f]]
           /\ \/ worker.n = 1 /\ worker' = [worker EXCEPT !.n = 2]
              \/ worker.n = 2 /\ worker' = Rest
           /\ UNCHANGED <<file, writer, todo, cache, coincidences, coincided, tasks,
                          req, flake, defined, crashes>>
<1> DEFINE f == Copied[worker.n]
<1>1. Stored(file) /\ WorkerTyped /\ Stored(snapshot) BY TypeParts
<1>2. worker.n \in {1, 2} BY <1>1 DEF WorkerTyped
<1>3. f \in Files BY <1>2, ProcFacts
<1>4. /\ worker.pc = "stash" /\ snapshot' = [snapshot EXCEPT ![f] = file[f]]
      /\ worker' = IF worker.n = Len(Copied) THEN Rest ELSE [worker EXCEPT !.n = @ + 1]
      /\ UNCHANGED <<file, writer, todo, cache, coincidences, coincided, tasks,
                     req, flake, defined, crashes>>
  BY DEF Stash, Kept, files
<1>5. \/ worker.n = 1 /\ worker' = [worker EXCEPT !.n = 2]
      \/ worker.n = 2 /\ worker' = Rest
  <2>1. CASE worker.n = 1
    <3>1. worker.n # Len(Copied) /\ worker.n + 1 = 2 BY <2>1, ProcFacts
    <3>2. QED BY <1>4, <2>1, <3>1
  <2>2. CASE worker.n = 2 BY <1>4, <2>2, ProcFacts
  <2>3. QED BY <1>2, <2>1, <2>2
<1>6. WorkerTyped' BY <1>1, <1>5, RestFacts DEF WorkerTyped
<1> HIDE DEF f
<1>7. Stored(snapshot)'
  <2>1. /\ DOMAIN snapshot' = Files
        /\ \A g \in Files : snapshot'[g] = IF g = f THEN file[g] ELSE snapshot[g]
    BY <1>1, <1>3, <1>4 DEF Stored
  <2>2. QED BY <1>1, <2>1 DEF Stored, Files
<1>8. QED BY <1>3, <1>4, <1>5, <1>6, <1>7 DEF f

LEMMA RelocateFacts ==
    ASSUME TypeOK, NEW s \in Services, Relocate(s)
    PROVE  /\ worker.pc = "relocate" /\ s \in worker.left
           /\ (todo \in [Procs -> Seq(Writes)])' /\ WorkerTyped'
           /\ \/ worker' = Rest /\ UNCHANGED todo
              \/ /\ s \in DOMAIN worker.was => worker.was[s] \notin Volumes
                 /\ worker' = [worker EXCEPT !.left = worker.left \ {s}] /\ UNCHANGED todo
              \/ /\ s \in DOMAIN worker.was /\ worker.was[s] \in Volumes
                 /\ worker' = [worker EXCEPT !.pc = "save", !.left = worker.left \ {s}]
                 /\ todo' = [todo EXCEPT !["worker"] =
                        <<[op |-> "location", service |-> s, volume |-> worker.was[s]]>>]
           /\ UNCHANGED <<file, writer, cache, coincidences, coincided, snapshot, tasks,
                          req, flake, defined, crashes>>
<1>1. WorkerTyped /\ todo \in [Procs -> Seq(Writes)] BY TypeParts
<1>2. /\ worker.pc = "relocate" /\ s \in worker.left
      /\ UNCHANGED <<file, writer, cache, coincidences, coincided, snapshot, tasks,
                     req, flake, defined, crashes>>
  BY DEF Relocate, Kept
<1>3. CASE worker' = Rest /\ UNCHANGED todo
  <2>1. WorkerTyped' BY <1>3, RestFacts DEF WorkerTyped
  <2>2. QED BY <1>1, <1>2, <1>3, <2>1
<1>4. CASE /\ s \in DOMAIN worker.was /\ worker.was[s] \notin Volumes
           /\ worker' = [worker EXCEPT !.left = worker.left \ {s}] /\ UNCHANGED todo
  <2>1. WorkerTyped' BY <1>1, <1>4 DEF WorkerTyped
  <2>2. QED BY <1>1, <1>2, <1>4, <2>1
<1>5. CASE /\ s \in DOMAIN worker.was /\ worker.was[s] \in Volumes
           /\ worker' = [worker EXCEPT !.pc = "save", !.left = worker.left \ {s}]
           /\ todo' = [todo EXCEPT !["worker"] =
                  <<[op |-> "location", service |-> s, volume |-> worker.was[s]]>>]
  <2> DEFINE w == [op |-> "location", service |-> s, volume |-> worker.was[s]]
  <2>1. w \in Writes BY <1>5 DEF Writes
  <2>2. todo' = [todo EXCEPT !["worker"] = <<w>>] BY <1>5
  <2> HIDE DEF w
  <2>3. (todo \in [Procs -> Seq(Writes)])'
    <3>1. <<w>> \in Seq(Writes) BY <2>1
    <3>2. DOMAIN todo' = Procs /\ \A p \in Procs : todo'[p] = IF p = "worker" THEN <<w>> ELSE todo[p]
      BY <1>1, <2>2
    <3>3. todo' = [p \in Procs |-> todo'[p]] BY <1>1, <2>2
    <3>4. QED BY <1>1, <3>1, <3>2, <3>3
  <2>4. WorkerTyped' BY <1>1, <1>5 DEF WorkerTyped
  <2>5. QED BY <1>2, <1>5, <2>3, <2>4
<1>6. QED BY <1>3, <1>4, <1>5 DEF Relocate

LEMMA MoveEndsFacts ==
    ASSUME TypeOK, NEW s \in Services, NEW v \in Volumes, MoveEnds(s, v)
    PROVE  /\ worker.pc = "idle" /\ todo["worker"] = <<>> /\ WorkerTyped'
           /\ (todo \in [Procs -> Seq(Writes)])' /\ worker' = [worker EXCEPT !.pc = "save"]
           /\ todo' = [todo EXCEPT !["worker"] =
                         <<[op |-> "location", service |-> s, volume |-> v]>>]
           /\ UNCHANGED <<file, writer, cache, coincidences, coincided, snapshot,
                          req, flake, defined, crashes>>
           /\ tasks' = tasks + 1
<1> DEFINE w == [op |-> "location", service |-> s, volume |-> v]
<1>1. WorkerTyped /\ todo \in [Procs -> Seq(Writes)] BY TypeParts
<1>2. /\ worker.pc = "idle" /\ todo["worker"] = <<>> /\ tasks' = tasks + 1
      /\ worker' = [worker EXCEPT !.pc = "save"] /\ todo' = [todo EXCEPT !["worker"] = <<w>>]
      /\ UNCHANGED <<file, writer, cache, coincidences, coincided, snapshot,
                     req, flake, defined, crashes>>
  BY DEF MoveEnds, Step, Kept
<1>3. w \in Writes BY DEF Writes
<1>4. WorkerTyped' BY <1>1, <1>2 DEF WorkerTyped
<1>5. (todo \in [Procs -> Seq(Writes)])'
  <2> HIDE DEF w
  <2>1. <<w>> \in Seq(Writes) BY <1>3
  <2>2. DOMAIN todo' = Procs /\ \A p \in Procs : todo'[p] = IF p = "worker" THEN <<w>> ELSE todo[p]
    BY <1>1, <1>2
  <2>3. todo' = [p \in Procs |-> todo'[p]] BY <1>1, <1>2
  <2>4. QED BY <1>1, <2>1, <2>2, <2>3
<1>6. QED BY <1>2, <1>4, <1>5

LEMMA CrashFacts ==
    ASSUME TypeOK, NEW p \in Procs, Crash(p)
    PROVE  /\ WriteTyped' /\ Onward /\ crashes' = crashes + 1
           /\ writer' = [writer EXCEPT ![p] = NoWriter]
           /\ todo' = [todo EXCEPT ![p] = <<>>]
           /\ cache' = [cache EXCEPT ![p] = None]
           /\ coincided' = [coincided EXCEPT ![p] = FALSE]
           /\ p = "api" => /\ UNCHANGED worker
                           /\ \A i \in DOMAIN req : req'[i].pc \in {"done", "failed", "lost"}
           /\ p = "worker" => worker' = Rest /\ UNCHANGED req
           /\ UNCHANGED <<file, coincidences, flake, defined, snapshot, tasks>>
<1>1. /\ Stored(file) /\ WriterTyped /\ CacheTyped /\ todo \in [Procs -> Seq(Writes)]
      /\ WorkerTyped /\ req \in Seq(Asked)
  BY TypeParts
<1>2. /\ writer' = [writer EXCEPT ![p] = NoWriter] /\ todo' = [todo EXCEPT ![p] = <<>>]
      /\ cache' = [cache EXCEPT ![p] = None] /\ coincided' = [coincided EXCEPT ![p] = FALSE]
      /\ UNCHANGED <<file, coincidences, flake, defined, snapshot, tasks>>
      /\ crashes' = crashes + 1
  BY DEF Crash
<1>3. WriterTyped'
  <2>1. writer'[p] = NoWriter /\ DOMAIN writer' = Procs
        /\ \A q \in Procs : q # p => writer'[q] = writer[q]
    BY <1>1, <1>2 DEF WriterTyped
  <2>2. QED BY <1>1, <2>1, NoWriterFacts DEF WriterTyped
<1>4. CacheTyped' /\ (todo \in [Procs -> Seq(Writes)])' /\ Stored(file)'
  BY <1>1, <1>2, EmptySeq DEF CacheTyped, Stored
<1>5. CASE p = "api"
  <2>1. /\ req' = [i \in DOMAIN req |-> IF req[i].pc \in {"done", "failed"} THEN req[i]
                                        ELSE [req[i] EXCEPT !.pc = "lost"]]
        /\ UNCHANGED worker
    BY <1>5 DEF Crash
  <2>2. ASSUME NEW i \in DOMAIN req
        PROVE  /\ req'[i] \in Asked /\ req'[i].what = req[i].what
               /\ req'[i].channel = req[i].channel /\ req'[i].modules = req[i].modules
               /\ req'[i].pc \in {"done", "failed", "lost"}
               /\ req'[i].pc = req[i].pc \/ req'[i].pc = "lost"
    <3>1. req[i] \in Asked BY <1>1, RequestFacts
    <3>2. [req[i] EXCEPT !.pc = "lost"] \in Asked BY <3>1, AskedFields
    <3>3. CASE req[i].pc \in {"done", "failed"} BY <2>1, <3>1, <3>3
    <3>4. CASE req[i].pc \notin {"done", "failed"} BY <2>1, <3>1, <3>2, <3>4 DEF Asked
    <3>5. QED BY <3>3, <3>4
  <2>3. DOMAIN req' = DOMAIN req /\ req' \in [DOMAIN req -> Asked] BY <2>1, <2>2
  <2>4. req' \in Seq(Asked) BY <1>1, <2>3, InPlace
  <2>5. Onward BY <2>2, <2>3, <2>4 DEF Onward
  <2>6. WorkerTyped' BY <1>1, <2>1 DEF WorkerTyped
  <2>7. QED BY <1>2, <1>3, <1>4, <1>5, <2>1, <2>2, <2>5, <2>6 DEF WriteTyped
<1>6. CASE p = "worker"
  <2>1. worker' = Rest /\ UNCHANGED req BY <1>6 DEF Crash
  <2>2. WorkerTyped' /\ Onward BY <1>1, <2>1, RestFacts, SameIsOnward DEF WorkerTyped
  <2>3. QED BY <1>2, <1>3, <1>4, <1>6, <2>1, <2>2 DEF WriteTyped
<1>7. QED BY <1>5, <1>6 DEF Procs

-----------------------------------------------------------------------------
(* The types hold                                                            *)

\* What a step is: the action, and what the histories note of it.
Act ==
    \/ \E p \in Procs : Write(p) \/ Crash(p)
    \/ Request
    \/ \E i \in DOMAIN req : Look(i) \/ Edit(i) \/ Empty(i) \/ Put(i)
    \/ Take("stash") \/ Take("locate") \/ \E m \in Moves : MoveEnds(m[1], m[2])
    \/ Stash \/ Locate \/ Truncate \/ Fill \/ TaskEnds
    \/ \E s \in Services : Relocate(s)
    \/ Rebuild

LEMMA NextFacts ==
    ASSUME TypeOK, Next
    PROVE  /\ Act /\ raced' \in BOOLEAN /\ overlapped' \in BOOLEAN
           /\ (raced => raced') /\ (overlapped => overlapped')
           /\ todo'["api"] # <<>> /\ Copying(worker') => raced'
           /\ ~overlapped' => ~(Cardinality(Flaking(req')) > 1)
BY DEF Next, Act, TypeOK

LEMMA MovesFacts ==
    ASSUME NEW m \in Moves
    PROVE  m[1] \in Services /\ m[2] \in Volumes
BY SettingsAssumption

LEMMA TypeStep ==
    ASSUME TypeOK, TurnInv, Next
    PROVE  TypeOK'
<1>1. /\ Stored(file) /\ Stored(snapshot) /\ WriterTyped /\ CacheTyped
      /\ todo \in [Procs -> Seq(Writes)] /\ req \in Seq(Asked)
      /\ FlakeTyped /\ WorkerTyped /\ CountsTyped
  BY TypeParts
<1>2. Act /\ raced' \in BOOLEAN /\ overlapped' \in BOOLEAN BY NextFacts
<1> DEFINE Goal == /\ Stored(file)' /\ Stored(snapshot)' /\ WriterTyped' /\ CacheTyped'
                   /\ (todo \in [Procs -> Seq(Writes)])' /\ req' \in Seq(Asked)
                   /\ FlakeTyped' /\ WorkerTyped' /\ tasks' \in Nat /\ crashes' \in Nat
<1>3. tasks \in Nat /\ crashes \in Nat BY <1>1 DEF CountsTyped
<1>4. ASSUME NEW p \in Procs, Write(p) PROVE Goal
  <2>1. UNCHANGED <<flake, defined, snapshot, tasks, crashes>> BY <1>4 DEF Write
  <2>2. WriteTyped' /\ Onward
    BY <1>4, BeginFacts, RefuseFacts, DumpFacts, FinishFacts DEF Write
  <2>3. FlakeTyped' /\ Stored(snapshot)' BY <1>1, <2>1 DEF FlakeTyped, Stored
  <2>4. QED BY <1>3, <2>1, <2>2, <2>3 DEF WriteTyped, Onward
<1>5. ASSUME NEW p \in Procs, Crash(p) PROVE Goal
  <2>1. /\ UNCHANGED <<flake, defined, snapshot, tasks>> /\ crashes' = crashes + 1
        /\ WriteTyped' /\ Onward
    BY <1>5, CrashFacts
  <2>2. FlakeTyped' /\ Stored(snapshot)' BY <1>1, <2>1 DEF FlakeTyped, Stored
  <2>3. QED BY <1>3, <2>1, <2>2 DEF WriteTyped, Onward
<1>6. ASSUME NEW what \in Whats, Ask(what) PROVE Goal
  <2>1. /\ req' \in Seq(Asked) /\ (todo \in [Procs -> Seq(Writes)])' /\ CacheTyped'
        /\ UNCHANGED <<file, writer, coincidences, coincided, flake, defined, snapshot, worker,
                       tasks, crashes>>
    BY <1>6, AskFacts
  <2>2. FlakeTyped' /\ Stored(snapshot)' /\ Stored(file)' /\ WriterTyped' /\ WorkerTyped'
    BY <1>1, <2>1 DEF FlakeTyped, Stored, WriterTyped, WorkerTyped
  <2>3. QED BY <1>3, <2>1, <2>2
<1>7. ASSUME NEW i \in DOMAIN req, Look(i) \/ Edit(i) \/ Empty(i) \/ Put(i) PROVE Goal
  <2>1. /\ req' \in Seq(Asked) /\ (todo \in [Procs -> Seq(Writes)])' /\ Otherwise
        /\ FlakeTyped' \/ UNCHANGED flake
    BY <1>1, <1>7, LookFacts, EditFacts, EmptyFacts, PutFacts
  <2>2. UNCHANGED <<file, writer, cache, coincidences, coincided, defined, snapshot, worker,
                    tasks, crashes>>
    BY <2>1 DEF Otherwise
  <2>3. FlakeTyped' BY <1>1, <2>1, <2>2 DEF FlakeTyped
  <2>4. /\ Stored(snapshot)' /\ Stored(file)' /\ WriterTyped' /\ WorkerTyped' /\ CacheTyped'
    BY <1>1, <2>2 DEF Stored, WriterTyped, WorkerTyped, CacheTyped
  <2>5. QED BY <1>3, <2>1, <2>2, <2>3, <2>4
<1>8. ASSUME UNCHANGED <<req, flake, defined, crashes>>,
             Stored(file)' /\ Stored(snapshot)' /\ WriterTyped' /\ CacheTyped',
             (todo \in [Procs -> Seq(Writes)])' /\ WorkerTyped' /\ tasks' \in Nat
      PROVE  Goal
  BY <1>1, <1>3, <1>8 DEF FlakeTyped
<1>9. ASSUME NEW pc \in {"stash", "locate"}, Take(pc) PROVE Goal
  <2>1. /\ worker' = [worker EXCEPT !.pc = pc] /\ tasks' = tasks + 1
        /\ UNCHANGED <<file, writer, todo, cache, coincidences, coincided, snapshot,
                       req, flake, defined, crashes>>
    BY <1>9 DEF Take, Step, Kept, files
  <2>2. WorkerTyped' BY <1>1, <2>1 DEF WorkerTyped
  <2>3. Stored(snapshot)' /\ Stored(file)' /\ WriterTyped' /\ CacheTyped'
    BY <1>1, <2>1 DEF Stored, WriterTyped, CacheTyped
  <2>4. QED BY <1>1, <1>3, <1>8, <2>1, <2>2, <2>3
<1>10. ASSUME NEW m \in Moves, MoveEnds(m[1], m[2]) PROVE Goal
  <2>1. /\ WorkerTyped' /\ (todo \in [Procs -> Seq(Writes)])' /\ tasks' = tasks + 1
        /\ UNCHANGED <<file, writer, cache, coincidences, coincided, snapshot,
                       req, flake, defined, crashes>>
    BY <1>10, MovesFacts, MoveEndsFacts
  <2>2. Stored(snapshot)' /\ Stored(file)' /\ WriterTyped' /\ CacheTyped'
    BY <1>1, <2>1 DEF Stored, WriterTyped, CacheTyped
  <2>3. QED BY <1>3, <1>8, <2>1, <2>2
<1>11. ASSUME Stash PROVE Goal
  <2>1. /\ Stored(snapshot)' /\ WorkerTyped'
        /\ UNCHANGED <<file, writer, todo, cache, coincidences, coincided, tasks,
                       req, flake, defined, crashes>>
    BY <1>11, StashFacts
  <2>2. Stored(file)' /\ WriterTyped' /\ CacheTyped'
    BY <1>1, <2>1 DEF Stored, WriterTyped, CacheTyped
  <2>3. QED BY <1>1, <1>3, <1>8, <2>1, <2>2
<1>12. ASSUME Locate PROVE Goal
  <2>1. /\ CacheTyped' /\ WorkerTyped'
        /\ UNCHANGED <<file, writer, todo, snapshot, tasks, req, flake, defined, crashes>>
    BY <1>12, LocateFacts
  <2>2. Stored(file)' /\ WriterTyped' /\ Stored(snapshot)'
    BY <1>1, <2>1 DEF Stored, WriterTyped
  <2>3. QED BY <1>1, <1>3, <1>8, <2>1, <2>2
<1>13. ASSUME Truncate \/ Fill PROVE Goal
  <2>1. WriteTyped' /\ UNCHANGED <<snapshot, tasks, req, flake, defined, crashes>>
    BY <1>13, TruncateFacts, FillFacts
  <2>2. Stored(snapshot)' BY <1>1, <2>1 DEF Stored
  <2>3. QED BY <1>3, <1>8, <2>1, <2>2 DEF WriteTyped
<1>14. ASSUME TaskEnds PROVE Goal
  <2>1. /\ worker' = Rest
        /\ UNCHANGED <<file, writer, todo, cache, coincidences, coincided, snapshot, tasks,
                       req, flake, defined, crashes>>
    BY <1>14 DEF TaskEnds, Kept, files
  <2>2. WorkerTyped' BY <2>1, RestFacts DEF WorkerTyped
  <2>3. Stored(snapshot)' /\ Stored(file)' /\ WriterTyped' /\ CacheTyped'
    BY <1>1, <2>1 DEF Stored, WriterTyped, CacheTyped
  <2>4. QED BY <1>1, <1>3, <1>8, <2>1, <2>2, <2>3
<1>15. ASSUME NEW s \in Services, Relocate(s) PROVE Goal
  <2>1. /\ WorkerTyped' /\ (todo \in [Procs -> Seq(Writes)])'
        /\ UNCHANGED <<file, writer, cache, coincidences, coincided, snapshot, tasks,
                       req, flake, defined, crashes>>
    BY <1>15, RelocateFacts
  <2>2. Stored(snapshot)' /\ Stored(file)' /\ WriterTyped' /\ CacheTyped'
    BY <1>1, <2>1 DEF Stored, WriterTyped, CacheTyped
  <2>3. QED BY <1>3, <1>8, <2>1, <2>2
<1>16. ASSUME Rebuild PROVE Goal
  <2>1. /\ defined' \subseteq Services
        /\ UNCHANGED <<file, writer, todo, cache, coincidences, coincided, snapshot, tasks,
                       req, flake, worker, crashes>>
    BY <1>16 DEF Rebuild, files
  <2>2. Stored(snapshot)' /\ Stored(file)' /\ WriterTyped' /\ CacheTyped' /\ WorkerTyped'
        /\ FlakeTyped'
    BY <1>1, <2>1 DEF Stored, WriterTyped, CacheTyped, WorkerTyped, FlakeTyped
  <2>3. QED BY <1>1, <1>3, <2>1, <2>2
<1>17. Goal
  <2> HIDE DEF Goal
  <2>1. QED
    BY <1>2, <1>4, <1>5, <1>6, <1>7, <1>9, <1>10, <1>11, <1>12, <1>13, <1>14, <1>15, <1>16,
       RequestAsks DEF Act
<1>18. QED BY <1>2, <1>17, TypePartsNext DEF CountsTyped

-----------------------------------------------------------------------------
(* Steps of the API, steps of the worker                                     *)

ApiAct ==
    \/ \E what \in Whats : Ask(what)
    \/ \E i \in DOMAIN req : Look(i) \/ Edit(i) \/ Empty(i) \/ Put(i)
WorkerAct ==
    \/ \E pc \in {"stash", "locate"} : Take(pc)
    \/ \E s \in Services, v \in Volumes : MoveEnds(s, v)
    \/ Stash \/ Locate \/ Truncate \/ Fill \/ TaskEnds
    \/ \E s \in Services : Relocate(s)

LEMMA ActFacts ==
    ASSUME TypeOK, Next
    PROVE  \/ \E p \in Procs : Write(p) \/ Crash(p)
           \/ ApiAct \/ WorkerAct \/ Rebuild
<1>1. Act BY NextFacts
<1>2. Request => ApiAct BY RequestAsks DEF ApiAct
<1>3. (\E i \in DOMAIN req : Look(i) \/ Edit(i) \/ Empty(i) \/ Put(i)) => ApiAct BY DEF ApiAct
<1>4. (Take("stash") \/ Take("locate")) => WorkerAct BY DEF WorkerAct
<1>5. (\E m \in Moves : MoveEnds(m[1], m[2])) => WorkerAct BY MovesFacts DEF WorkerAct
<1>6. (Stash \/ Locate \/ Truncate \/ Fill \/ TaskEnds \/ \E s \in Services : Relocate(s))
        => WorkerAct
  BY DEF WorkerAct
<1>7. QED BY <1>1, <1>2, <1>3, <1>4, <1>5, <1>6 DEF Act

\* A request that goes on runs its blocks, or waits.
LEMMA ApiActFacts ==
    ASSUME TypeOK, TurnInv, ApiAct
    PROVE  /\ todo["api"] = <<>> /\ todo'["worker"] = todo["worker"]
           /\ UNCHANGED <<file, writer, coincidences, coincided, defined, snapshot, worker,
                          tasks, crashes>>
           /\ cache'["worker"] = cache["worker"] /\ cache'["api"] \in {cache["api"], Reading("api")}
           /\ \/ todo'["api"] = <<>> /\ \A i \in DOMAIN req' : req'[i].pc # "save"
              \/ \E what \in Whats :
                   /\ what.op # "channel" /\ todo'["api"] = Blocks(what)
                   /\ what.op = "configure" => Ask(what) /\ FirstStep(what) = "save"
                   /\ \E i \in DOMAIN req' : /\ req'[i].pc = "save"
                                             /\ \A j \in DOMAIN req' : j # i => req'[j].pc # "save"
<1>1. todo \in [Procs -> Seq(Writes)] /\ req \in Seq(Asked) /\ CacheTyped BY TypeParts
<1>2. "api" \in Procs /\ "worker" \in Procs /\ "api" # "worker" BY DEF Procs
<1>3. IdleLoop => \A i \in DOMAIN req : req[i].pc # "save" BY DEF TurnInv, Saving
<1> DEFINE Rests == UNCHANGED <<file, writer, coincidences, coincided, defined, snapshot, worker,
                                tasks, crashes>>
           Waits == todo'["api"] = <<>> /\ \A i \in DOMAIN req' : req'[i].pc # "save"
           Runs == \E what \in Whats :
                   /\ what.op # "channel" /\ todo'["api"] = Blocks(what)
                   /\ what.op = "configure" => Ask(what) /\ FirstStep(what) = "save"
                   /\ \E i \in DOMAIN req' : /\ req'[i].pc = "save"
                                             /\ \A j \in DOMAIN req' : j # i => req'[j].pc # "save"
           Reads == cache'["worker"] = cache["worker"] /\ cache'["api"] \in {cache["api"], Reading("api")}
<1>4. ASSUME NEW what \in Whats, Ask(what)
      PROVE  IdleLoop /\ todo'["worker"] = todo["worker"] /\ Rests /\ Reads /\ (Waits \/ Runs)
  <2> DEFINE first == FirstStep(what)
             n == Len(req) + 1
  <2>1. /\ IdleLoop /\ Rests /\ DOMAIN req' = DOMAIN req \cup {n} /\ n \notin DOMAIN req
        /\ \A i \in DOMAIN req : req'[i] = req[i]
        /\ req'[n].pc = first /\ first \in {"failed", "look", "edit", "save"}
        /\ todo' = [todo EXCEPT !["api"] = IF first = "save" THEN Blocks(what) ELSE <<>>]
        /\ first = "save" => what.op # "channel"
    <3>1. req'[n] = [what |-> what, pc |-> first, channel |-> None, modules |-> None]
          /\ (first = "save" => what.op \notin {"enable", "channel"})
      BY <1>4, AskFacts
    <3>2. req'[n].pc = first /\ (first = "save" => what.op # "channel") BY <3>1
    <3> HIDE DEF first
    <3>3. QED BY <1>4, <3>2, AskFacts DEF first
  <2>2. Reads
    <3>1. CASE UNCHANGED cache BY <3>1
    <3>2. CASE cache' = [cache EXCEPT !["api"] = IF Garbled("api") THEN @ ELSE Reading("api")]
      <4>1. QED BY <1>1, <1>2, <3>2 DEF CacheTyped
    <3>3. QED BY <1>4, <3>1, <3>2 DEF Ask
  <2>3. todo'["worker"] = todo["worker"] BY <1>1, <1>2, <2>1
  <2>4. todo'["api"] = IF first = "save" THEN Blocks(what) ELSE <<>> BY <1>1, <1>2, <2>1
  <2> HIDE DEF n, first
  <2>5. CASE first = "save"
    <3>1. \A j \in DOMAIN req' : j # n => req'[j].pc # "save" BY <1>3, <2>1
    <3>2. n \in DOMAIN req' /\ req'[n].pc = "save" BY <2>1, <2>5
    <3>3. Runs BY <1>4, <2>1, <2>4, <2>5, <3>1, <3>2 DEF first
    <3>4. QED BY <2>1, <2>2, <2>3, <3>3
  <2>6. CASE first # "save"
    <3>1. \A j \in DOMAIN req' : req'[j].pc # "save" BY <1>3, <2>1, <2>6
    <3>2. QED BY <2>1, <2>2, <2>3, <2>4, <2>6, <3>1
  <2>7. QED BY <2>5, <2>6
<1>5. ASSUME NEW i \in DOMAIN req, Look(i) \/ Edit(i) \/ Empty(i) \/ Put(i)
      PROVE  IdleLoop /\ todo'["worker"] = todo["worker"] /\ Rests /\ Reads /\ (Waits \/ Runs)
  <2>1. /\ IdleLoop /\ Otherwise /\ DOMAIN req' = DOMAIN req
        /\ \A j \in DOMAIN req : j # i => req'[j] = req[j]
        /\ \/ /\ req'[i].pc = "save" /\ req[i].what.op = "enable"
              /\ todo' = [todo EXCEPT !["api"] = Blocks(req[i].what)]
           \/ req'[i].pc # "save" /\ UNCHANGED todo
    BY <1>5, LookFacts, EditFacts, EmptyFacts, PutFacts
  <2>2. Rests /\ Reads BY <2>1 DEF Otherwise
  <2>3. \A j \in DOMAIN req' : j # i => req'[j].pc # "save" BY <1>3, <2>1
  <2>4. CASE /\ req'[i].pc = "save" /\ req[i].what.op = "enable"
             /\ todo' = [todo EXCEPT !["api"] = Blocks(req[i].what)]
    <3>1. todo'["worker"] = todo["worker"] /\ todo'["api"] = Blocks(req[i].what)
      BY <1>1, <1>2, <2>4
    <3>2. req[i].what \in Whats BY <1>1, RequestFacts
    <3>3. Runs BY <2>1, <2>3, <2>4, <3>1, <3>2
    <3>4. QED BY <2>1, <2>2, <3>1, <3>3
  <2>5. CASE req'[i].pc # "save" /\ UNCHANGED todo
    <3>1. Waits BY <2>1, <2>3, <2>5 DEF IdleLoop
    <3>2. QED BY <2>1, <2>2, <2>5, <3>1
  <2>6. QED BY <2>1, <2>4, <2>5
<1>6. IdleLoop /\ todo'["worker"] = todo["worker"] /\ Rests /\ Reads /\ (Waits \/ Runs)
  <2> HIDE DEF Rests, Reads, Waits, Runs
  <2>1. QED BY <1>4, <1>5 DEF ApiAct
<1>7. QED BY <1>6 DEF IdleLoop

LEMMA WorkerActFacts ==
    ASSUME TypeOK, WorkerAct
    PROVE  /\ UNCHANGED <<req, flake, defined, crashes>> /\ todo'["api"] = todo["api"]
           /\ \A p \in Procs : /\ writer'[p].file = writer[p].file
                               /\ writer'[p].data = writer[p].data
                               /\ writer'[p].dumped = writer[p].dumped
<1>1. todo \in [Procs -> Seq(Writes)] /\ WriterTyped BY TypeParts
<1> DEFINE Goal == /\ UNCHANGED <<req, flake, defined, crashes>> /\ todo'["api"] = todo["api"]
                   /\ \A p \in Procs : /\ writer'[p].file = writer[p].file
                                       /\ writer'[p].data = writer[p].data
                                       /\ writer'[p].dumped = writer[p].dumped
<1>2. ASSUME NEW pc \in {"stash", "locate"}, Take(pc) PROVE Goal
  BY <1>2 DEF Take, Kept, files
<1>3. ASSUME NEW s \in Services, NEW v \in Volumes, MoveEnds(s, v) PROVE Goal
  <2>1. UNCHANGED <<req, flake, defined, crashes, writer>> BY <1>3, MoveEndsFacts
  <2>2. todo' = [todo EXCEPT !["worker"] =
                   <<[op |-> "location", service |-> s, volume |-> v]>>]
    BY <1>3, MoveEndsFacts
  <2>3. todo'["api"] = todo["api"] BY <1>1, <2>2 DEF Procs
  <2>4. QED BY <2>1, <2>3
<1>4. CASE Stash BY <1>4, StashFacts
<1>5. CASE Locate BY <1>5, LocateFacts
<1>6. CASE Truncate \/ Fill
  <2>1. /\ Mixed(Copied[worker.n]) /\ UNCHANGED <<req, flake, defined, crashes, todo>>
    BY <1>6, TruncateFacts, FillFacts
  <2>2. QED BY <1>1, <2>1, MixedFacts
<1>7. CASE TaskEnds BY <1>7 DEF TaskEnds, Kept, files
<1>8. ASSUME NEW s \in Services, Relocate(s) PROVE Goal
  <2>1. UNCHANGED <<req, flake, defined, crashes, writer>> BY <1>8, RelocateFacts
  <2>2. \/ UNCHANGED todo
        \/ todo' = [todo EXCEPT !["worker"] =
                      <<[op |-> "location", service |-> s, volume |-> worker.was[s]]>>]
    BY <1>8, RelocateFacts
  <2>3. todo'["api"] = todo["api"] BY <1>1, <2>2 DEF Procs
  <2>4. QED BY <2>1, <2>3
<1>9. QED
  <2> HIDE DEF Goal
  <2>1. Goal
    <3>1. (Stash \/ Locate \/ Truncate \/ Fill \/ TaskEnds) => Goal
      BY <1>4, <1>5, <1>6, <1>7 DEF Goal
    <3>2. QED BY <1>2, <1>3, <1>8, <3>1 DEF WorkerAct
  <2>2. QED BY <2>1 DEF Goal

-----------------------------------------------------------------------------
(* Whose turn it is                                                          *)

ReqTurn ==
    \A i \in DOMAIN req :
      /\ req[i].pc = "look" => req[i].what.op = "enable"
      /\ req[i].pc \in {"edit", "format", "put"} => req[i].what.op \in {"enable", "channel"}
      /\ req[i].pc \in {"format", "put"} =>
           req[i].channel \in Channels /\ req[i].modules \in [Services -> Channels \cup {None}]
SaveTurn == (\A i, j \in Saving : i = j) /\ (Saving = {} <=> IdleLoop)
WorkerTurn ==
    /\ worker.pc = "save" <=> todo["worker"] # <<>>
    /\ todo["worker"] # <<>> => Len(todo["worker"]) = 1 /\ Block("worker").op = "location"
    /\ worker.pc \in {"idle", "locate"} => worker.n = 1
ApiTurn ==
    todo["api"] # <<>> =>
      \/ Len(todo["api"]) = 1 /\ Block("api").op \notin {"place", "location", "provider"}
      \/ Len(todo["api"]) = 2 /\ Block("api").op = "place" /\ todo["api"][2].op = "enable"
      \/ /\ Len(todo["api"]) = 2 /\ Block("api").op = "provider"
         /\ todo["api"][2] = [op |-> "token", provider |-> Block("api").provider]
LockTurn ==
    \A p \in Procs :
      IF writer[p].file = None THEN ~writer[p].dumped /\ ~writer[p].mixed
      ELSE /\ todo[p] # <<>> /\ writer[p].file = FileOf(Block(p))
           /\ writer[p].file # writer[Other(p)].file

LEMMA TurnParts == TurnInv <=> ReqTurn /\ SaveTurn /\ WorkerTurn /\ ApiTurn /\ LockTurn
BY DEF TurnInv, ReqTurn, SaveTurn, WorkerTurn, ApiTurn, LockTurn

LEMMA TurnPartsNext == TurnInv' <=> ReqTurn' /\ SaveTurn' /\ WorkerTurn' /\ ApiTurn' /\ LockTurn'
BY TurnParts, PTL

\* How far a write moves the requests.
LEMMA WriteOnward ==
    ASSUME TypeOK, TurnInv, NEW p \in Procs, Write(p) \/ Crash(p)
    PROVE  Onward /\ UNCHANGED <<flake, defined, snapshot, tasks>> /\ WriteTyped'
<1>1. CASE Write(p)
  <2>1. UNCHANGED <<flake, defined, snapshot, tasks>> BY <1>1 DEF Write
  <2>2. WriteTyped' /\ Onward
    BY <1>1, BeginFacts, RefuseFacts, DumpFacts, FinishFacts DEF Write
  <2>3. QED BY <2>1, <2>2
<1>2. CASE Crash(p) BY <1>2, CrashFacts
<1>3. QED BY <1>1, <1>2

LEMMA ReqTurnStep ==
    ASSUME TypeOK, TurnInv, Next
    PROVE  ReqTurn'
<1>1. ReqTurn /\ req \in Seq(Asked) BY TurnParts, TypeParts
<1>2. ASSUME Onward PROVE ReqTurn' BY <1>1, <1>2 DEF Onward, ReqTurn
<1>3. ASSUME NEW what \in Whats, Ask(what) PROVE ReqTurn'
  <2> DEFINE first == FirstStep(what)
             n == Len(req) + 1
  <2>1. /\ DOMAIN req' = DOMAIN req \cup {n} /\ \A i \in DOMAIN req : req'[i] = req[i]
        /\ req'[n] = [what |-> what, pc |-> first, channel |-> None, modules |-> None]
    BY <1>3, AskFacts
  <2>2. req'[n].what = what /\ req'[n].pc = first BY <2>1
  <2>3. /\ first = "look" => what.op = "enable"
        /\ first = "edit" => what.op = "channel" /\ first \notin {"format", "put"}
        /\ first \notin {"format", "put"}
    BY DEF FirstStep
  <2> HIDE DEF n, first
  <2>4. QED BY <1>1, <2>1, <2>2, <2>3 DEF ReqTurn
<1>4. ASSUME NEW i \in DOMAIN req, Look(i) PROVE ReqTurn'
  <2>1. /\ req[i].what.op = "enable" /\ req[i].pc = "look" /\ DOMAIN req' = DOMAIN req
        /\ \A j \in DOMAIN req : j # i => req'[j] = req[j]
        /\ req'[i].what = req[i].what /\ req'[i].pc \in {"save", "edit", "failed"}
    BY <1>4, LookFacts
  <2>2. QED BY <1>1, <2>1 DEF ReqTurn
<1>5. ASSUME NEW i \in DOMAIN req, Edit(i) PROVE ReqTurn'
  <2>1. /\ req[i].pc = "edit" /\ DOMAIN req' = DOMAIN req
        /\ \A j \in DOMAIN req : j # i => req'[j] = req[j]
        /\ req'[i].what = req[i].what
        /\ \/ req'[i].pc \in {"save", "done", "failed"}
           \/ /\ req'[i].pc = "format" /\ req'[i].channel = Edited(i).channel
              /\ req'[i].modules = Edited(i).modules
    BY <1>5, EditFacts
  <2>2. Edited(i).channel \in Channels /\ Edited(i).modules \in [Services -> Channels \cup {None}]
    BY <2>1, EditedFacts
  <2>3. QED BY <1>1, <2>1, <2>2 DEF ReqTurn
<1>6. ASSUME NEW i \in DOMAIN req, Empty(i) \/ Put(i) PROVE ReqTurn'
  <2>1. /\ req[i].pc \in {"format", "put"} /\ DOMAIN req' = DOMAIN req
        /\ \A j \in DOMAIN req : j # i => req'[j] = req[j]
        /\ req'[i].what = req[i].what /\ req'[i].channel = req[i].channel
        /\ req'[i].modules = req[i].modules
        /\ req'[i].pc \in {"put", "save", "done"}
    BY <1>6, EmptyFacts, PutFacts
  <2>2. QED BY <1>1, <2>1 DEF ReqTurn
<1>7. ASSUME UNCHANGED req PROVE ReqTurn' BY <1>1, <1>7 DEF ReqTurn
<1>8. CASE ApiAct BY <1>3, <1>4, <1>5, <1>6, <1>8 DEF ApiAct
<1>9. CASE WorkerAct BY <1>7, <1>9, WorkerActFacts
<1>10. CASE Rebuild BY <1>7, <1>10 DEF Rebuild
<1>11. CASE \E p \in Procs : Write(p) \/ Crash(p) BY <1>2, <1>11, WriteOnward
<1>12. QED BY <1>8, <1>9, <1>10, <1>11, ActFacts

LEMMA SaveTurnStep ==
    ASSUME TypeOK, TurnInv, Next
    PROVE  SaveTurn'
<1>1. SaveTurn /\ req \in Seq(Asked) /\ todo \in [Procs -> Seq(Writes)] BY TurnParts, TypeParts
<1>2. "api" \in Procs /\ "worker" \in Procs /\ "api" # "worker" BY DEF Procs
<1>3. ASSUME UNCHANGED req, todo'["api"] = todo["api"] PROVE SaveTurn'
  BY <1>1, <1>3 DEF SaveTurn, Saving, IdleLoop
<1>4. ASSUME todo'["api"] = <<>>, \A i \in DOMAIN req' : req'[i].pc # "save" PROVE SaveTurn'
  BY <1>4 DEF SaveTurn, Saving, IdleLoop
<1>5. CASE ApiAct
  <2>1. CASE todo'["api"] = <<>> /\ \A i \in DOMAIN req' : req'[i].pc # "save" BY <1>4, <2>1
  <2>2. ASSUME NEW what \in Whats, what.op # "channel", todo'["api"] = Blocks(what),
               NEW i \in DOMAIN req', req'[i].pc = "save",
               \A j \in DOMAIN req' : j # i => req'[j].pc # "save"
        PROVE  SaveTurn'
    <3>1. todo'["api"] # <<>> BY <2>2, BlocksFacts
    <3>2. Saving' = {i} BY <2>2 DEF Saving
    <3>3. QED BY <3>1, <3>2 DEF SaveTurn, IdleLoop
  <2>3. QED BY <1>5, <2>1, <2>2, ApiActFacts
<1>6. CASE WorkerAct BY <1>3, <1>6, WorkerActFacts
<1>7. CASE Rebuild BY <1>3, <1>7 DEF Rebuild, files
<1>8. ASSUME NEW p \in Procs, NEW pc \in {"done", "failed"}, Ends(p, pc) PROVE SaveTurn'
  <2>1. CASE p = "api"
    <3>1. todo'["api"] = <<>> /\ Onward /\ \A i \in DOMAIN req : req'[i].pc # "save"
      BY <1>1, <1>8, <2>1, EndsFacts
    <3>2. QED BY <1>4, <3>1 DEF Onward
  <2>2. CASE p = "worker"
    <3>1. UNCHANGED req /\ todo' = [todo EXCEPT ![p] = <<>>] BY <1>8, <2>2, EndsFacts
    <3>2. QED BY <1>1, <1>2, <1>3, <2>2, <3>1
  <2>3. QED BY <2>1, <2>2 DEF Procs
<1>9. ASSUME NEW p \in Procs, Write(p) PROVE SaveTurn'
  <2>1. CASE Begin(p)
    <3>1. Ends(p, "failed") \/ UNCHANGED <<todo, req>> BY <2>1, BeginFacts
    <3>2. QED BY <1>3, <1>8, <3>1
  <2>2. CASE Refuse(p) BY <1>8, <2>2, RefuseFacts
  <2>3. CASE Dump(p) BY <1>3, <2>3, DumpFacts
  <2>4. CASE Finish(p)
    <3>1. CASE Ends(p, "done") BY <1>8, <3>1
    <3>2. CASE /\ Len(todo[p]) = 2 /\ todo' = [todo EXCEPT ![p] = Tail(@)]
               /\ p = "api" /\ UNCHANGED <<req, worker>>
      <4>1. todo[p] # <<>> BY <2>4, FinishFacts
      <4>2. Tail(todo[p]) # <<>> BY <1>1, <3>2, <4>1, BlockFacts
      <4>3. todo'["api"] # <<>> /\ todo["api"] # <<>> BY <1>1, <1>2, <3>2, <4>1, <4>2
      <4>4. Saving' = Saving BY <3>2 DEF Saving
      <4>5. QED BY <1>1, <4>3, <4>4 DEF SaveTurn, IdleLoop
    <3>3. QED BY <2>4, <3>1, <3>2, FinishFacts
  <2>5. QED BY <1>9, <2>1, <2>2, <2>3, <2>4 DEF Write
<1>10. ASSUME NEW p \in Procs, Crash(p) PROVE SaveTurn'
  <2>1. /\ todo' = [todo EXCEPT ![p] = <<>>] /\ Onward
        /\ p = "api" => \A i \in DOMAIN req : req'[i].pc \in {"done", "failed", "lost"}
        /\ p = "worker" => UNCHANGED req
    BY <1>10, CrashFacts
  <2>2. CASE p = "api"
    <3>1. todo'["api"] = <<>> BY <1>1, <1>2, <2>1, <2>2
    <3>2. QED BY <1>4, <2>1, <2>2, <3>1 DEF Onward
  <2>3. CASE p = "worker" BY <1>1, <1>2, <1>3, <2>1, <2>3
  <2>4. QED BY <2>2, <2>3 DEF Procs
<1>11. QED BY <1>5, <1>6, <1>7, <1>9, <1>10, ActFacts

LEMMA WorkerTurnStep ==
    ASSUME TypeOK, TurnInv, Next
    PROVE  WorkerTurn'
<1>1. WorkerTurn /\ todo \in [Procs -> Seq(Writes)] /\ WorkerTyped BY TurnParts, TypeParts
<1>2. "api" \in Procs /\ "worker" \in Procs /\ "api" # "worker" BY DEF Procs
<1>3. ASSUME UNCHANGED worker, todo'["worker"] = todo["worker"] PROVE WorkerTurn'
  BY <1>1, <1>3 DEF WorkerTurn, Block
<1>4. ASSUME todo'["worker"] = <<>>, worker'.pc # "save",
             worker'.pc \in {"idle", "locate"} => worker'.n = 1
      PROVE  WorkerTurn'
  BY <1>4 DEF WorkerTurn
<1>5. ASSUME NEW s, NEW v, worker'.pc = "save",
             todo' = [todo EXCEPT !["worker"] =
                        <<[op |-> "location", service |-> s, volume |-> v]>>]
      PROVE  WorkerTurn'
  <2> DEFINE w == [op |-> "location", service |-> s, volume |-> v]
  <2>1. todo'["worker"] = <<w>> BY <1>1, <1>2, <1>5
  <2>2. w.op = "location" OBVIOUS
  <2> HIDE DEF w
  <2>3. <<w>> # <<>> /\ Len(<<w>>) = 1 /\ Head(<<w>>) = w OBVIOUS
  <2>4. QED BY <1>5, <2>1, <2>2, <2>3 DEF WorkerTurn, Block
<1>6. CASE ApiAct BY <1>3, <1>6, ApiActFacts
<1>7. CASE Rebuild BY <1>3, <1>7 DEF Rebuild, files
<1>8. ASSUME NEW p \in Procs, NEW pc \in {"done", "failed"}, Ends(p, pc) PROVE WorkerTurn'
  <2>1. todo' = [todo EXCEPT ![p] = <<>>] BY <1>8, EndsFacts
  <2>2. CASE p = "api" BY <1>1, <1>2, <1>3, <1>8, <2>1, <2>2, EndsFacts
  <2>3. CASE p = "worker"
    <3>1. todo'["worker"] = <<>> BY <1>1, <1>2, <2>1, <2>3
    <3>2. worker' = IF pc = "done" THEN [worker EXCEPT !.pc = "relocate"] ELSE Rest
      BY <1>8, <2>3, EndsFacts
    <3>3. worker'.pc # "save" /\ (worker'.pc \in {"idle", "locate"} => worker'.n = 1)
      BY <1>1, <3>2, RestFacts DEF WorkerTyped
    <3>4. QED BY <1>4, <3>1, <3>3
  <2>4. QED BY <2>2, <2>3 DEF Procs
<1>9. ASSUME NEW p \in Procs, Write(p) PROVE WorkerTurn'
  <2>1. CASE Begin(p)
    <3>1. Ends(p, "failed") \/ UNCHANGED <<todo, worker>> BY <2>1, BeginFacts
    <3>2. QED BY <1>3, <1>8, <3>1
  <2>2. CASE Refuse(p) BY <1>8, <2>2, RefuseFacts
  <2>3. CASE Dump(p) BY <1>3, <2>3, DumpFacts
  <2>4. CASE Finish(p)
    <3>1. CASE Ends(p, "done") BY <1>8, <3>1
    <3>2. CASE /\ todo' = [todo EXCEPT ![p] = Tail(@)] /\ p = "api" /\ UNCHANGED worker
      BY <1>1, <1>2, <1>3, <3>2
    <3>3. QED BY <2>4, <3>1, <3>2, FinishFacts
  <2>5. QED BY <1>9, <2>1, <2>2, <2>3, <2>4 DEF Write
<1>10. ASSUME NEW p \in Procs, Crash(p) PROVE WorkerTurn'
  <2>1. todo' = [todo EXCEPT ![p] = <<>>] /\ (p = "api" => UNCHANGED worker)
        /\ (p = "worker" => worker' = Rest)
    BY <1>10, CrashFacts
  <2>2. CASE p = "api" BY <1>1, <1>2, <1>3, <2>1, <2>2
  <2>3. CASE p = "worker"
    <3>1. todo'["worker"] = <<>> BY <1>1, <1>2, <2>1, <2>3
    <3>2. QED BY <1>4, <2>1, <2>3, <3>1, RestFacts
  <2>4. QED BY <2>2, <2>3 DEF Procs
<1>11. ASSUME NEW pc \in {"stash", "locate"}, Take(pc) PROVE WorkerTurn'
  <2>1. /\ worker.pc = "idle" /\ todo["worker"] = <<>> /\ UNCHANGED todo
        /\ worker' = [worker EXCEPT !.pc = pc]
    BY <1>11 DEF Take, Step, files
  <2>2. worker'.pc = pc /\ worker'.n = worker.n BY <1>1, <2>1 DEF WorkerTyped
  <2>3. QED BY <1>1, <1>4, <2>1, <2>2 DEF WorkerTurn
<1>12. ASSUME NEW s \in Services, NEW v \in Volumes, MoveEnds(s, v) PROVE WorkerTurn'
  <2>1. /\ worker' = [worker EXCEPT !.pc = "save"]
        /\ todo' = [todo EXCEPT !["worker"] =
                      <<[op |-> "location", service |-> s, volume |-> v]>>]
    BY <1>12, MoveEndsFacts
  <2>2. worker'.pc = "save" BY <1>1, <2>1 DEF WorkerTyped
  <2>3. QED BY <1>5, <2>1, <2>2
<1>13. ASSUME worker.pc # "save", UNCHANGED todo, worker'.pc # "save",
              worker'.pc \in {"idle", "locate"} => worker'.n = 1
       PROVE  WorkerTurn'
  BY <1>1, <1>4, <1>13 DEF WorkerTurn
<1>14. CASE Stash
  <2>1. /\ worker.pc = "stash" /\ UNCHANGED todo
        /\ worker' = [worker EXCEPT !.n = 2] \/ worker' = Rest
    BY <1>14, StashFacts
  <2>2. worker'.pc # "save" /\ (worker'.pc \in {"idle", "locate"} => worker'.n = 1)
    BY <1>1, <2>1, RestFacts DEF WorkerTyped
  <2>3. QED BY <1>13, <2>1, <2>2
<1>15. CASE Locate
  <2>1. /\ worker.pc = "locate" /\ UNCHANGED todo
        /\ worker' = Rest \/ worker'.pc = "truncate"
    BY <1>15, LocateFacts
  <2>2. QED BY <1>13, <2>1, RestFacts
<1>16. CASE Truncate
  <2>1. worker.pc = "truncate" /\ UNCHANGED todo /\ worker' = [worker EXCEPT !.pc = "fill"]
    BY <1>16, TruncateFacts
  <2>2. worker'.pc = "fill" BY <1>1, <2>1 DEF WorkerTyped
  <2>3. QED BY <1>13, <2>1, <2>2
<1>17. CASE Fill
  <2>1. /\ worker.pc = "fill" /\ UNCHANGED todo
        /\ \/ worker' = [worker EXCEPT !.pc = "truncate", !.n = 2]
           \/ worker' = [worker EXCEPT !.pc = "relocate", !.left = MovableServices]
    BY <1>17, FillFacts
  <2>2. worker'.pc \in {"truncate", "relocate"} BY <1>1, <2>1 DEF WorkerTyped
  <2>3. QED BY <1>13, <2>1, <2>2
<1>18. CASE TaskEnds
  <2>1. worker.pc = "relocate" /\ UNCHANGED todo /\ worker' = Rest
    BY <1>18 DEF TaskEnds, files
  <2>2. QED BY <1>13, <2>1, RestFacts
<1>19. ASSUME NEW s \in Services, Relocate(s) PROVE WorkerTurn'
  <2>1. worker.pc = "relocate" BY <1>19, RelocateFacts
  <2>2. CASE worker' = Rest /\ UNCHANGED todo BY <1>13, <2>1, <2>2, RestFacts
  <2>3. CASE worker' = [worker EXCEPT !.left = worker.left \ {s}] /\ UNCHANGED todo
    <3>1. worker'.pc = "relocate" BY <1>1, <2>1, <2>3 DEF WorkerTyped
    <3>2. QED BY <1>13, <2>1, <2>3, <3>1
  <2>4. CASE /\ worker' = [worker EXCEPT !.pc = "save", !.left = worker.left \ {s}]
             /\ todo' = [todo EXCEPT !["worker"] =
                    <<[op |-> "location", service |-> s, volume |-> worker.was[s]]>>]
    <3>1. worker'.pc = "save" BY <1>1, <2>4 DEF WorkerTyped
    <3>2. QED BY <1>5, <2>4, <3>1
  <2>5. QED BY <1>19, <2>2, <2>3, <2>4, RelocateFacts
<1>20. CASE WorkerAct
  BY <1>11, <1>12, <1>14, <1>15, <1>16, <1>17, <1>18, <1>19, <1>20 DEF WorkerAct
<1>21. QED BY <1>6, <1>7, <1>9, <1>10, <1>20, ActFacts

LEMMA ApiTurnStep ==
    ASSUME TypeOK, TurnInv, Next
    PROVE  ApiTurn'
<1>1. ApiTurn /\ todo \in [Procs -> Seq(Writes)] BY TurnParts, TypeParts
<1>2. "api" \in Procs /\ "worker" \in Procs /\ "api" # "worker" BY DEF Procs
<1>3. ASSUME todo'["api"] = todo["api"] PROVE ApiTurn' BY <1>1, <1>3 DEF ApiTurn, Block
<1>4. ASSUME todo'["api"] = <<>> PROVE ApiTurn' BY <1>4 DEF ApiTurn
<1>5. CASE ApiAct
  <2>1. CASE todo'["api"] = <<>> BY <1>4, <2>1
  <2>2. ASSUME NEW what \in Whats, what.op # "channel", todo'["api"] = Blocks(what)
        PROVE  ApiTurn'
    <3> DEFINE place == [op |-> "place", service |-> what.service]
               provider == [op |-> "provider", provider |-> what.provider]
               token == [op |-> "token", provider |-> what.provider]
    <3>1. CASE /\ Blocks(what) = <<what>>
               /\ what.op \notin {"place", "location", "provider", "token", "dns"}
      <4>1. todo'["api"] = <<what>> BY <2>2, <3>1
      <4>2. Len(<<what>>) = 1 /\ Head(<<what>>) = what OBVIOUS
      <4>3. QED BY <3>1, <4>1, <4>2 DEF ApiTurn, Block
    <3>2. CASE what.op = "enable" /\ Blocks(what) = <<place, what>>
      <4>1. place.op = "place" OBVIOUS
      <4> HIDE DEF place
      <4>2. todo'["api"] = <<place, what>> BY <2>2, <3>2
      <4>3. Len(<<place, what>>) = 2 /\ Head(<<place, what>>) = place /\ <<place, what>>[2] = what
        OBVIOUS
      <4>4. QED BY <3>2, <4>1, <4>2, <4>3 DEF ApiTurn, Block
    <3>3. CASE what.op = "dns" /\ Blocks(what) = <<provider, token>>
      <4>1. provider.op = "provider" /\ token = [op |-> "token", provider |-> provider.provider]
        OBVIOUS
      <4> HIDE DEF provider, token
      <4>2. todo'["api"] = <<provider, token>> BY <2>2, <3>3
      <4>3. /\ Len(<<provider, token>>) = 2 /\ Head(<<provider, token>>) = provider
            /\ <<provider, token>>[2] = token
        OBVIOUS
      <4>4. QED BY <4>1, <4>2, <4>3 DEF ApiTurn, Block
    <3>4. QED BY <2>2, <3>1, <3>2, <3>3, BlocksFacts
  <2>3. QED BY <1>5, <2>1, <2>2, ApiActFacts
<1>6. CASE WorkerAct BY <1>3, <1>6, WorkerActFacts
<1>7. CASE Rebuild BY <1>3, <1>7 DEF Rebuild, files
<1>8. ASSUME NEW p \in Procs, todo' = [todo EXCEPT ![p] = <<>>] PROVE ApiTurn'
  BY <1>1, <1>2, <1>3, <1>4, <1>8 DEF Procs
<1>9. ASSUME NEW p \in Procs, Write(p) PROVE ApiTurn'
  <2>1. CASE Begin(p)
    <3>1. UNCHANGED todo \/ Ends(p, "failed") BY <2>1, BeginFacts
    <3>2. QED BY <1>3, <1>8, <3>1, EndsFacts
  <2>2. CASE Refuse(p) BY <1>8, <2>2, RefuseFacts, EndsFacts
  <2>3. CASE Dump(p) BY <1>3, <2>3, DumpFacts
  <2>4. CASE Finish(p)
    <3>1. CASE Ends(p, "done") BY <1>8, <3>1, EndsFacts
    <3>2. CASE /\ Len(todo[p]) = 2 /\ todo' = [todo EXCEPT ![p] = Tail(@)] /\ p = "api"
      <4>1. todo[p] # <<>> BY <2>4, FinishFacts
      <4>2. /\ Tail(todo[p]) # <<>> /\ Len(Tail(todo[p])) = 1
            /\ Head(Tail(todo[p])) = todo[p][2]
        BY <1>1, <3>2, <4>1, BlockFacts
      <4>3. todo["api"][2].op \in {"enable", "token"}
        <5>1. todo["api"][2].op = "enable"
              \/ todo["api"][2] = [op |-> "token", provider |-> Block("api").provider]
          BY <1>1, <3>2, <4>1 DEF ApiTurn
        <5>2. QED BY <5>1
      <4>4. todo'["api"] = Tail(todo["api"]) BY <1>1, <1>2, <3>2
      <4>5. QED BY <3>2, <4>2, <4>3, <4>4 DEF ApiTurn, Block
    <3>3. QED BY <2>4, <3>1, <3>2, FinishFacts
  <2>5. QED BY <1>9, <2>1, <2>2, <2>3, <2>4 DEF Write
<1>10. ASSUME NEW p \in Procs, Crash(p) PROVE ApiTurn'
  BY <1>8, <1>10, CrashFacts
<1>11. QED BY <1>5, <1>6, <1>7, <1>9, <1>10, ActFacts

\* Only the copies of a restore touch a file of another.
LEMMA CopyOrNot ==
    ASSUME TypeOK, TurnInv, WorkerAct
    PROVE  /\ todo'["worker"] = todo["worker"] \/ todo["worker"] = <<>>
           /\ \/ (Truncate \/ Fill) /\ UNCHANGED <<todo, snapshot>>
              \/ /\ worker.pc \notin {"truncate", "fill"} /\ worker'.pc # "fill"
                 /\ worker.pc # "save"
                 /\ UNCHANGED <<file, writer, coincidences, coincided>>
                 /\ Locate \/ UNCHANGED cache
                 /\ Stash \/ UNCHANGED snapshot
                 /\ worker.pc = "stash" => Stash
<1>1. WorkerTyped /\ WorkerTurn BY TurnParts, TypeParts
<1> DEFINE Goal == /\ todo'["worker"] = todo["worker"] \/ todo["worker"] = <<>>
                   /\ \/ (Truncate \/ Fill) /\ UNCHANGED <<todo, snapshot>>
                      \/ /\ worker.pc \notin {"truncate", "fill"} /\ worker'.pc # "fill"
                         /\ worker.pc # "save"
                         /\ UNCHANGED <<file, writer, coincidences, coincided>>
                         /\ Locate \/ UNCHANGED cache
                         /\ Stash \/ UNCHANGED snapshot
                         /\ worker.pc = "stash" => Stash
<1>2. ASSUME NEW pc \in {"stash", "locate"}, Take(pc) PROVE Goal
  <2>1. /\ worker.pc = "idle" /\ todo["worker"] = <<>> /\ worker' = [worker EXCEPT !.pc = pc]
        /\ UNCHANGED <<file, writer, cache, coincidences, coincided, snapshot>>
    BY <1>2 DEF Take, Step, files
  <2>2. worker'.pc = pc BY <1>1, <2>1 DEF WorkerTyped
  <2>3. QED BY <2>1, <2>2
<1>3. ASSUME NEW s \in Services, NEW v \in Volumes, MoveEnds(s, v) PROVE Goal
  <2>1. /\ worker.pc = "idle" /\ todo["worker"] = <<>> /\ worker' = [worker EXCEPT !.pc = "save"]
        /\ UNCHANGED <<file, writer, cache, coincidences, coincided, snapshot>>
    BY <1>3, MoveEndsFacts
  <2>2. worker'.pc = "save" BY <1>1, <2>1 DEF WorkerTyped
  <2>3. QED BY <2>1, <2>2
<1>4. ASSUME Stash PROVE Goal
  <2>1. /\ worker.pc = "stash" /\ (worker' = [worker EXCEPT !.n = 2] \/ worker' = Rest)
        /\ UNCHANGED <<file, writer, todo, cache, coincidences, coincided>>
    BY <1>4, StashFacts
  <2>2. worker'.pc # "fill" BY <1>1, <2>1, RestFacts DEF WorkerTyped
  <2>3. QED BY <1>4, <2>1, <2>2
<1>5. ASSUME Locate PROVE Goal
  <2>1. /\ worker.pc = "locate" /\ (worker' = Rest \/ worker'.pc = "truncate")
        /\ UNCHANGED <<file, writer, todo, snapshot, coincidences, coincided>>
    BY <1>5, LocateFacts
  <2>2. worker'.pc # "fill" BY <2>1, RestFacts
  <2>3. QED BY <1>5, <2>1, <2>2
<1>6. ASSUME Truncate \/ Fill PROVE Goal
  <2>1. UNCHANGED <<todo, snapshot>> BY <1>6, TruncateFacts, FillFacts
  <2>2. QED BY <1>6, <2>1
<1>7. ASSUME TaskEnds PROVE Goal
  <2>1. /\ worker.pc = "relocate" /\ worker' = Rest
        /\ UNCHANGED <<file, writer, todo, cache, coincidences, coincided, snapshot>>
    BY <1>7 DEF TaskEnds, files
  <2>2. worker'.pc # "fill" BY <2>1, RestFacts
  <2>3. QED BY <2>1, <2>2
<1>8. ASSUME NEW s \in Services, Relocate(s) PROVE Goal
  <2>1. /\ worker.pc = "relocate" 
        /\ UNCHANGED <<file, writer, cache, coincidences, coincided, snapshot>>
    BY <1>8, RelocateFacts
  <2>2. todo["worker"] = <<>> BY <1>1, <2>1 DEF WorkerTurn
  <2>3. \/ worker' = Rest \/ worker' = [worker EXCEPT !.left = worker.left \ {s}]
        \/ worker' = [worker EXCEPT !.pc = "save", !.left = worker.left \ {s}]
    BY <1>8, RelocateFacts
  <2>4. worker'.pc # "fill" BY <1>1, <2>1, <2>3, RestFacts DEF WorkerTyped
  <2>5. QED BY <2>1, <2>2, <2>4
<1>9. Goal
  <2> HIDE DEF Goal
  <2>1. QED BY <1>2, <1>3, <1>4, <1>5, <1>6, <1>7, <1>8 DEF WorkerAct
<1>10. QED BY <1>9

\* Who writes a mixture was dumping while the worker copied.
LEMMA MixedBy ==
    ASSUME TypeOK, TurnInv, WorkerAct, NEW p \in Procs, writer'[p].mixed
    PROVE  writer[p].mixed \/ (worker.pc \in {"truncate", "fill"} /\ writer[p].dumped)
<1>1. WriterTyped BY TypeParts
<1>2. CASE UNCHANGED writer BY <1>2
<1>3. CASE Truncate \/ Fill
  <2>1. Mixed(Copied[worker.n]) /\ worker.pc \in {"truncate", "fill"}
    BY <1>3, TruncateFacts, FillFacts
  <2>2. writer'[p].mixed = (writer[p].mixed \/ (writer[p].file = Copied[worker.n]
                                                /\ writer[p].dumped))
    BY <1>1, <2>1, MixedFacts
  <2>3. QED BY <2>1, <2>2
<1>4. QED BY <1>2, <1>3, CopyOrNot

\* Whoever holds a lock has a block to run.
LEMMA HolderFacts ==
    ASSUME TypeOK, TurnInv, NEW p \in Procs
    PROVE  /\ writer[p].dumped => writer[p].file # None
           /\ writer[p].file # None => /\ todo[p] # <<>> /\ writer[p].file = FileOf(Block(p))
                                       /\ writer[p].file \in Files
                                       /\ p = "worker" => worker.pc = "save"
           /\ p = "worker" /\ todo[p] # <<>> => worker.pc = "save" /\ FileOf(Block(p)) = "userdata"
           /\ \A q \in Procs : q # p /\ writer[p].file # None => writer[q].file # writer[p].file
<1>1. LockTurn /\ WorkerTurn /\ WriterTyped BY TurnParts, TypeParts
<1>2. \A q \in Procs : q # p => q = Other(p) BY ProcFacts DEF Procs
<1>3. p = "worker" /\ todo[p] # <<>> => worker.pc = "save" /\ FileOf(Block(p)) = "userdata"
  BY <1>1 DEF WorkerTurn, FileOf
<1>4. QED BY <1>1, <1>2, <1>3 DEF LockTurn, WriterTyped

LEMMA LockTurnStep ==
    ASSUME TypeOK, TurnInv, Next
    PROVE  LockTurn'
<1>1. LockTurn /\ WriterTyped /\ todo \in [Procs -> Seq(Writes)] BY TurnParts, TypeParts
<1>2. "api" \in Procs /\ "worker" \in Procs /\ "api" # "worker" BY DEF Procs
<1>3. \A p, q \in Procs : q # p <=> q = Other(p) BY ProcFacts DEF Procs
<1>4. ASSUME NEW p \in Procs, writer' = [writer EXCEPT ![p] = NoWriter],
             \A q \in Procs : q # p => todo'[q] = todo[q]
      PROVE  LockTurn'
  <2>1. writer'[p].file = None /\ writer'[p].dumped = FALSE /\ writer'[p].mixed = FALSE
    BY <1>1, <1>4, NoWriterFacts DEF WriterTyped
  <2>2. \A q \in Procs : q # p => writer'[q] = writer[q] /\ todo'[q] = todo[q]
    BY <1>1, <1>4 DEF WriterTyped
  <2>3. ASSUME NEW q \in Procs, q # p, writer'[q].file # None
        PROVE  /\ todo'[q] # <<>> /\ writer'[q].file = FileOf(Block(q))'
               /\ writer'[q].file # writer'[Other(q)].file
    <3>1. Other(q) = p /\ writer'[Other(q)].file = None BY <1>3, <2>1, <2>3
    <3>2. QED BY <1>1, <2>2, <2>3, <3>1 DEF LockTurn, Block
  <2>4. ASSUME NEW q \in Procs, q # p, writer'[q].file = None
        PROVE  ~writer'[q].dumped /\ ~writer'[q].mixed
    BY <1>1, <2>2, <2>4 DEF LockTurn
  <2>5. QED BY <2>1, <2>3, <2>4 DEF LockTurn
<1>5. ASSUME NEW p \in Procs, Begin(p) PROVE LockTurn'
  <2> DEFINE f == FileOf(Block(p))
  <2>1. /\ todo[p] # <<>> /\ writer[p] = NoWriter /\ f \in Files /\ writer[Other(p)].file # f
    BY <1>5, BeginFacts
  <2>2. CASE /\ writer' = [writer EXCEPT ![p] = [NoWriter EXCEPT !.file = f,
                                                  !.data = file[f].data]]
             /\ UNCHANGED todo
    <3> DEFINE w == [NoWriter EXCEPT !.file = f, !.data = file[f].data]
    <3>1. w.file = f BY DEF NoWriter
    <3>2. writer' = [writer EXCEPT ![p] = w] BY <2>2
    <3>3. f = FileOf(Block(p))' BY <2>2 DEF Block
    <3> HIDE DEF w, f
    <3>4. writer'[p].file = f /\ \A q \in Procs : q # p => writer'[q] = writer[q]
      BY <1>1, <3>1, <3>2 DEF WriterTyped
    <3>5. f # None BY <2>1, NoWriterFacts
    <3>6. \A q \in Procs : q # p => FileOf(Block(q))' = FileOf(Block(q)) BY <2>2 DEF Block
    <3>7. ASSUME NEW q \in Procs, q # p
          PROVE  IF writer'[q].file = None THEN ~writer'[q].dumped /\ ~writer'[q].mixed
                 ELSE /\ todo'[q] # <<>> /\ writer'[q].file = FileOf(Block(q))'
                      /\ writer'[q].file # writer'[Other(q)].file
      <4>1. Other(q) = p /\ Other(p) = q BY <1>3, <3>7
      <4>2. QED BY <1>1, <2>1, <2>2, <3>4, <3>6, <3>7, <4>1 DEF LockTurn
    <3>8. Other(p) # p /\ Other(p) \in Procs BY ProcFacts DEF Procs
    <3>9. todo'[p] # <<>> /\ writer'[p].file = FileOf(Block(p))'
          /\ writer'[p].file # writer'[Other(p)].file /\ writer'[p].file # None
      BY <2>1, <2>2, <3>3, <3>4, <3>5, <3>8
    <3>10. QED BY <3>7, <3>9 DEF LockTurn
  <2>3. CASE Ends(p, "failed") /\ UNCHANGED writer
    <3>1. todo' = [todo EXCEPT ![p] = <<>>] BY <2>3, EndsFacts
    <3>2. \A q \in Procs : q # p => todo'[q] = todo[q] BY <1>1, <3>1
    <3>3. \A q \in Procs : q # p => FileOf(Block(q))' = FileOf(Block(q)) BY <3>2 DEF Block
    <3>4. writer'[p].file = None /\ ~writer'[p].dumped /\ ~writer'[p].mixed
      BY <2>1, <2>3, NoWriterFacts
    <3>5. QED BY <1>1, <2>3, <3>2, <3>3, <3>4 DEF LockTurn
  <2>4. QED BY <1>5, <2>2, <2>3, BeginFacts
<1>6. ASSUME NEW p \in Procs, Refuse(p) \/ Crash(p) PROVE LockTurn'
  <2>1. writer' = [writer EXCEPT ![p] = NoWriter] /\ todo' = [todo EXCEPT ![p] = <<>>]
    BY <1>6, RefuseFacts, CrashFacts, EndsFacts
  <2>2. QED BY <1>1, <1>4, <2>1
<1>7. ASSUME NEW p \in Procs, Dump(p) PROVE LockTurn'
  <2>1. UNCHANGED todo /\ writer' = [writer EXCEPT ![p].dumped = TRUE] /\ writer[p].file # None
    BY <1>7, DumpFacts
  <2>2. \A q \in Procs : /\ writer'[q].file = writer[q].file /\ FileOf(Block(q))' = FileOf(Block(q))
                         /\ writer'[q].mixed = writer[q].mixed
                         /\ q # p => writer'[q] = writer[q]
    BY <1>1, <2>1 DEF WriterTyped, Block
  <2>3. \A q \in Procs : Other(q) \in Procs BY ProcFacts DEF Procs
  <2>4. QED BY <1>1, <2>1, <2>2, <2>3 DEF LockTurn
<1>8. ASSUME NEW p \in Procs, Finish(p) PROVE LockTurn'
  <2>1. /\ writer' = [writer EXCEPT ![p] = NoWriter]
        /\ todo' = [todo EXCEPT ![p] = <<>>] \/ todo' = [todo EXCEPT ![p] = Tail(@)]
    BY <1>8, FinishFacts, EndsFacts
  <2>2. QED BY <1>1, <1>4, <2>1
<1>9. ASSUME \A p \in Procs : /\ writer'[p].file = writer[p].file
                              /\ writer'[p].dumped = writer[p].dumped
                              /\ writer'[p].mixed => writer[p].mixed \/ writer[p].dumped
                              /\ todo'[p] = todo[p] \/ todo[p] = <<>>
      PROVE  LockTurn'
  <2>1. \A p \in Procs : Other(p) \in Procs BY ProcFacts DEF Procs
  <2>2. \A p \in Procs : todo'[p] = todo[p] => FileOf(Block(p))' = FileOf(Block(p)) BY DEF Block
  <2>3. QED BY <1>1, <1>9, <2>1, <2>2 DEF LockTurn
<1>10. CASE ApiAct
  <2>1. UNCHANGED writer /\ todo["api"] = <<>> /\ todo'["worker"] = todo["worker"]
    BY <1>10, ApiActFacts
  <2>2. QED BY <1>9, <2>1 DEF Procs
<1>11. CASE WorkerAct
  <2>1. /\ todo'["api"] = todo["api"]
        /\ \A p \in Procs : writer'[p].file = writer[p].file /\ writer'[p].dumped = writer[p].dumped
    BY <1>11, WorkerActFacts
  <2>2. todo'["worker"] = todo["worker"] \/ todo["worker"] = <<>> BY <1>11, CopyOrNot
  <2>3. \A p \in Procs : writer'[p].mixed => writer[p].mixed \/ writer[p].dumped
    BY <1>11, MixedBy
  <2>4. QED BY <1>9, <2>1, <2>2, <2>3 DEF Procs
<1>12. CASE Rebuild BY <1>9, <1>12 DEF Rebuild, files
<1>13. QED BY <1>5, <1>6, <1>7, <1>8, <1>10, <1>11, <1>12, ActFacts DEF Write

LEMMA TurnStep ==
    ASSUME TypeOK, TurnInv, Next
    PROVE  TurnInv'
BY ReqTurnStep, SaveTurnStep, WorkerTurnStep, ApiTurnStep, LockTurnStep, TurnPartsNext

-----------------------------------------------------------------------------
(* What a holder has is what is there, and what is broken was raced          *)

\* How the files change outside of the copies: a dump breaks one, a write that
\* ends leaves what its block makes of what was loaded.
LEMMA WriteChanges ==
    ASSUME TypeOK, TurnInv, NEW p \in Procs, Write(p) \/ Crash(p)
    PROVE  /\ \A q \in Procs : q # p => writer'[q] = writer[q]
           /\ \A f \in Files : writer[p].file # f \/ ~writer[p].dumped => file'[f].data = file[f].data
           /\ \A f \in Files : writer[p].file # f => file'[f] = file[f]
           /\ Finish(p) \/ \A f \in Files : file'[f].data = file[f].data
           /\ UNCHANGED <<flake, defined, snapshot, tasks>>
           /\ p = "api" => UNCHANGED worker
           /\ p = "worker" => UNCHANGED req
<1>1. WriterTyped /\ Stored(file) BY TypeParts
<1>2. UNCHANGED <<flake, defined, snapshot, tasks>> BY WriteOnward
<1>3. ASSUME UNCHANGED <<req, worker>> \/ \E pc \in {"done", "failed"} : Ends(p, pc)
      PROVE  (p = "api" => UNCHANGED worker) /\ (p = "worker" => UNCHANGED req)
  BY <1>3, EndsFacts
<1>4. CASE Begin(p)
  <2>1. UNCHANGED file /\ (UNCHANGED <<req, worker>> \/ Ends(p, "failed")) BY <1>4, BeginFacts
  <2>2. \A q \in Procs : q # p => writer'[q] = writer[q]
    <3>1. UNCHANGED writer \/ \E w : writer' = [writer EXCEPT ![p] = w] BY <1>4, BeginFacts
    <3>2. QED BY <1>1, <3>1 DEF WriterTyped
  <2>3. QED BY <1>2, <1>3, <2>1, <2>2
<1>5. CASE Refuse(p)
  <2>1. UNCHANGED file /\ Ends(p, "failed") /\ writer' = [writer EXCEPT ![p] = NoWriter]
    BY <1>5, RefuseFacts
  <2>2. QED BY <1>1, <1>2, <1>3, <2>1 DEF WriterTyped
<1>6. CASE Dump(p)
  <2>1. /\ file' = [file EXCEPT ![writer[p].file].whole = FALSE] /\ UNCHANGED <<req, worker>>
        /\ writer' = [writer EXCEPT ![p].dumped = TRUE]
    BY <1>6, DumpFacts
  <2>2. QED BY <1>1, <1>2, <2>1 DEF WriterTyped, Stored
<1>7. CASE Finish(p)
  <2>1. /\ writer[p].dumped /\ writer' = [writer EXCEPT ![p] = NoWriter]
        /\ \A g \in Files : g # writer[p].file => file'[g] = file[g]
        /\ UNCHANGED <<req, worker>> \/ Ends(p, "done")
    BY <1>7, FinishFacts
  <2>2. QED BY <1>1, <1>2, <1>3, <1>7, <2>1 DEF WriterTyped
<1>8. CASE Crash(p)
  <2>1. /\ UNCHANGED file /\ writer' = [writer EXCEPT ![p] = NoWriter]
        /\ (p = "api" => UNCHANGED worker) /\ (p = "worker" => UNCHANGED req)
    BY <1>8, CrashFacts
  <2>2. QED BY <1>1, <1>2, <2>1 DEF WriterTyped
<1>9. QED BY <1>4, <1>5, <1>6, <1>7, <1>8 DEF Write

\* A write of the API while the worker copies is noted.
LEMMA RacedFacts ==
    ASSUME TypeOK, TurnInv, RaceInv, writer["api"].file # None, Copying(worker)
    PROVE  raced
<1>1. todo["api"] # <<>> BY HolderFacts DEF Procs
<1>2. QED BY <1>1 DEF RaceInv

LEMMA HeldStep ==
    ASSUME TypeOK, TurnInv, HeldInv, RaceInv, Next
    PROVE  HeldInv'
<1>1. WriterTyped /\ Stored(file) BY TypeParts
<1>2. raced => raced' BY NextFacts
<1>3. ASSUME NEW p \in Procs, Write(p) \/ Crash(p) PROVE HeldInv'
  <2>1. \A q \in Procs : q # p => writer'[q] = writer[q]
    BY <1>3, WriteChanges
  <2>2. ASSUME NEW q \in Procs, q # p, writer'[q].file # None, q = "worker" \/ ~raced'
        PROVE  writer'[q].data = file'[writer'[q].file].data
    <3>1. writer[q].file \in Files /\ writer[q].file # writer[p].file
      BY <1>3, <2>1, <2>2, HolderFacts
    <3>2. file'[writer[q].file] = file[writer[q].file] BY <1>3, <3>1, WriteChanges
    <3>3. writer[q].data = file[writer[q].file].data BY <1>2, <2>1, <2>2 DEF HeldInv
    <3>4. QED BY <2>1, <2>2, <3>2, <3>3
  <2>3. ASSUME writer'[p].file # None, p = "worker" \/ ~raced'
        PROVE  writer'[p].data = file'[writer'[p].file].data
    <3>1. CASE Begin(p)
      <4> DEFINE f == FileOf(Block(p))
      <4>1. UNCHANGED file /\ writer[p] = NoWriter BY <3>1, BeginFacts
      <4>2. ~UNCHANGED writer BY <2>3, <4>1, NoWriterFacts
      <4>3. writer' = [writer EXCEPT ![p] = [NoWriter EXCEPT !.file = f, !.data = file[f].data]]
        BY <3>1, <4>2, BeginFacts
      <4> DEFINE w == [NoWriter EXCEPT !.file = f, !.data = file[f].data]
      <4>4. w.file = f /\ w.data = file[f].data BY DEF NoWriter
      <4> HIDE DEF w, f
      <4>5. writer' = [writer EXCEPT ![p] = w] BY <4>3 DEF w
      <4>6. writer'[p] = w BY <1>1, <4>5 DEF WriterTyped
      <4>7. QED BY <4>1, <4>4, <4>6
    <3>2. CASE Dump(p)
      <4>1. /\ writer' = [writer EXCEPT ![p].dumped = TRUE] /\ writer[p].file \in Files
            /\ file' = [file EXCEPT ![writer[p].file].whole = FALSE]
        BY <3>2, DumpFacts
      <4>2. writer'[p].file = writer[p].file /\ writer'[p].data = writer[p].data
            /\ file'[writer[p].file].data = file[writer[p].file].data
        BY <1>1, <4>1 DEF WriterTyped, Stored
      <4>3. QED BY <1>2, <2>3, <4>2 DEF HeldInv
    <3>3. CASE Refuse(p) \/ Finish(p) \/ Crash(p)
      <4>1. writer' = [writer EXCEPT ![p] = NoWriter]
        BY <3>3, RefuseFacts, FinishFacts, CrashFacts
      <4>2. QED BY <1>1, <2>3, <4>1, NoWriterFacts DEF WriterTyped
    <3>4. QED BY <1>3, <3>1, <3>2, <3>3 DEF Write
  <2>4. QED BY <2>2, <2>3 DEF HeldInv
<1>4. CASE ApiAct \/ Rebuild
  <2>1. UNCHANGED <<file, writer>> BY <1>4, ApiActFacts DEF Rebuild, files
  <2>2. QED BY <1>2, <2>1 DEF HeldInv
<1>5. CASE WorkerAct
  <2>1. \A p \in Procs : writer'[p].file = writer[p].file /\ writer'[p].data = writer[p].data
    BY <1>5, WorkerActFacts
  <2>2. CASE UNCHANGED file BY <1>2, <2>1, <2>2 DEF HeldInv
  <2>3. CASE Truncate
    <3>1. file' = [file EXCEPT ![Copied[worker.n]].whole = FALSE] BY <2>3, TruncateFacts
    <3>2. \A f \in Files : file'[f].data = file[f].data BY <1>1, <3>1 DEF Stored
    <3>3. \A p \in Procs : writer[p].file # None => writer[p].file \in Files
      BY HolderFacts
    <3>4. QED BY <1>2, <2>1, <3>2, <3>3 DEF HeldInv
  <2>4. CASE Fill
    <3>1. worker.pc = "fill" /\ Copying(worker) BY <2>4, FillFacts DEF Copying
    <3>2. writer["worker"].file = None BY <3>1, HolderFacts DEF Procs
    <3>3. writer["api"].file # None => raced' BY <1>2, <3>1, RacedFacts
    <3>4. QED BY <2>1, <3>2, <3>3 DEF HeldInv, Procs
  <2>5. QED BY <1>5, <2>2, <2>3, <2>4, CopyOrNot
<1>6. QED BY <1>3, <1>4, <1>5, ActFacts

LEMMA RaceStep ==
    ASSUME TypeOK, TurnInv, RaceInv, FilesStayWhole, Next
    PROVE  RaceInv'
<1>1. WriterTyped /\ WorkerTyped /\ Stored(file) /\ Stored(snapshot) BY TypeParts
<1>2. (raced => raced') /\ (todo'["api"] # <<>> /\ Copying(worker') => raced') BY NextFacts
<1>3. TypeOK' /\ TurnInv' BY TypeStep, TurnStep
<1>4. "api" \in Procs /\ "worker" \in Procs BY DEF Procs
<1>5. \A p \in Procs : writer'[p].mixed => raced'
  <2>1. ASSUME NEW p \in Procs, writer'[p].mixed, ~writer[p].mixed PROVE raced'
    <3>1. CASE WorkerAct
      <4>1. worker.pc \in {"truncate", "fill"} /\ writer[p].dumped BY <2>1, <3>1, MixedBy
      <4>2. writer[p].file # None /\ p # "worker" BY <4>1, HolderFacts
      <4>3. writer["api"].file # None /\ Copying(worker) BY <4>1, <4>2 DEF Procs, Copying
      <4>4. QED BY <1>2, <4>3, RacedFacts
    <3>2. CASE ApiAct \/ Rebuild BY <2>1, <3>2, ApiActFacts DEF Rebuild, files
    <3>3. ASSUME NEW q \in Procs, Write(q) \/ Crash(q) PROVE FALSE
      <4>1. q = p BY <2>1, <3>3, WriteChanges
      <4>2. CASE Begin(p)
        <5> DEFINE f == FileOf(Block(p))
                   w == [NoWriter EXCEPT !.file = f, !.data = file[f].data]
        <5>1. ~UNCHANGED writer BY <2>1
        <5>2. writer' = [writer EXCEPT ![p] = w] BY <4>2, <5>1, BeginFacts
        <5>3. w.mixed = FALSE BY DEF NoWriter
        <5> HIDE DEF w
        <5>4. QED BY <1>1, <2>1, <5>2, <5>3 DEF WriterTyped
      <4>3. CASE Dump(p)
        <5>1. writer' = [writer EXCEPT ![p].dumped = TRUE] BY <4>3, DumpFacts
        <5>2. QED BY <1>1, <2>1, <5>1 DEF WriterTyped
      <4>4. CASE Refuse(p) \/ Finish(p) \/ Crash(p)
        <5>1. writer' = [writer EXCEPT ![p] = NoWriter]
          BY <4>4, RefuseFacts, FinishFacts, CrashFacts
        <5>2. QED BY <1>1, <2>1, <5>1, NoWriterFacts DEF WriterTyped
      <4>5. QED BY <3>3, <4>1, <4>2, <4>3, <4>4 DEF Write
    <3>4. QED BY <3>1, <3>2, <3>3, ActFacts
  <2>2. QED BY <1>2, <2>1 DEF RaceInv
<1>6. worker'.pc = "fill" /\ file'[Copied[worker'.n]].whole => raced'
  <2>1. SUFFICES ASSUME worker'.pc = "fill", file'[Copied[worker'.n]].whole, ~raced'
                 PROVE  FALSE
    OBVIOUS
  <2>2. CASE WorkerAct
    <3>1. CASE Truncate
      <4> DEFINE f == Copied[worker.n]
      <4>1. /\ f \in Files /\ file' = [file EXCEPT ![f].whole = FALSE]
            /\ worker' = [worker EXCEPT !.pc = "fill"]
        BY <3>1, TruncateFacts
      <4>2. worker'.n = worker.n BY <1>1, <4>1 DEF WorkerTyped
      <4> HIDE DEF f
      <4>3. ~file'[f].whole BY <1>1, <4>1 DEF Stored
      <4>4. QED BY <2>1, <4>2, <4>3 DEF f
    <3>2. CASE Fill
      <4>1. \/ worker' = [worker EXCEPT !.pc = "truncate", !.n = 2]
            \/ worker' = [worker EXCEPT !.pc = "relocate", !.left = MovableServices]
        BY <3>2, FillFacts
      <4>2. worker'.pc # "fill" BY <1>1, <4>1 DEF WorkerTyped
      <4>3. QED BY <2>1, <4>2
    <3>3. QED BY <2>1, <2>2, <3>1, <3>2, CopyOrNot
  <2>3. CASE ApiAct \/ Rebuild
    <3>1. UNCHANGED <<file, worker>> BY <2>3, ApiActFacts DEF Rebuild, files
    <3>2. QED BY <1>2, <2>1, <3>1 DEF RaceInv
  <2>4. ASSUME NEW p \in Procs, Write(p) \/ Crash(p) PROVE FALSE
    <3>1. CASE p = "api"
      <4>1. UNCHANGED worker BY <2>4, <3>1, WriteChanges
      <4>2. Copying(worker) BY <2>1, <4>1 DEF Copying
      <4>3. writer["api"].file = None BY <1>2, <2>1, <4>2, RacedFacts
      <4>4. Copied[worker.n] \in Files BY <1>1, ProcFacts DEF WorkerTyped
      <4>5. file'[Copied[worker.n]] = file[Copied[worker.n]]
        <5>1. writer[p].file # Copied[worker.n] BY <3>1, <4>3, <4>4, NoWriterFacts
        <5>2. QED BY <2>4, <4>4, <5>1, WriteChanges
      <4>6. QED BY <1>2, <2>1, <4>1, <4>5 DEF RaceInv
    <3>2. CASE p = "worker"
      <4>1. \/ UNCHANGED worker /\ todo["worker"] # <<>>
            \/ \E pc \in {"done", "failed"} : Ends(p, pc)
            \/ worker' = Rest
        BY <1>4, <2>4, <3>2, BeginFacts, RefuseFacts, DumpFacts, FinishFacts, CrashFacts
           DEF Write
      <4>2. CASE UNCHANGED worker /\ todo["worker"] # <<>>
        BY <1>4, <2>1, <4>2, HolderFacts
      <4>3. ASSUME NEW pc \in {"done", "failed"}, Ends(p, pc) PROVE FALSE
        <5>1. worker' = [worker EXCEPT !.pc = "relocate"] \/ worker' = Rest
          BY <3>2, <4>3, EndsFacts
        <5>2. QED BY <1>1, <2>1, <5>1, RestFacts DEF WorkerTyped
      <4>4. QED BY <2>1, <4>1, <4>2, <4>3, RestFacts
    <3>3. QED BY <3>1, <3>2 DEF Procs
  <2>5. QED BY <2>2, <2>3, <2>4, ActFacts
<1>7. \A f \in Files : snapshot'[f].whole \/ crashes' > 0 \/ raced'
  <2>1. crashes' \in Nat /\ (crashes > 0 => crashes' > 0)
    <3>1. crashes \in Nat BY TypeParts DEF CountsTyped
    <3>2. crashes' \in Nat BY <1>3 DEF TypeOK
    <3>3. UNCHANGED crashes \/ crashes' = crashes + 1
      <4>1. CASE ApiAct \/ WorkerAct \/ Rebuild
        BY <4>1, ApiActFacts, WorkerActFacts DEF Rebuild
      <4>2. ASSUME NEW p \in Procs, Write(p) \/ Crash(p)
            PROVE  UNCHANGED crashes \/ crashes' = crashes + 1
        BY <4>2, CrashFacts DEF Write
      <4>3. QED BY <4>1, <4>2, ActFacts
    <3>4. QED BY <3>1, <3>2, <3>3
  <2>2. CASE UNCHANGED snapshot BY <1>2, <2>1, <2>2 DEF RaceInv
  <2>3. CASE Stash
    <3> DEFINE f == Copied[worker.n]
    <3>1. /\ worker.pc = "stash" /\ f \in Files /\ snapshot' = [snapshot EXCEPT ![f] = file[f]]
      BY <2>3, StashFacts
    <3>2. Copying(worker) BY <3>1 DEF Copying
    <3>3. \A p \in Procs : writer[p].dumped => raced
      <4>1. ASSUME NEW p \in Procs, writer[p].dumped PROVE raced
        <5>1. writer[p].file # None BY <4>1, HolderFacts
        <5>2. p # "worker" BY <3>1, <5>1, HolderFacts
        <5>3. writer["api"].file # None BY <5>1, <5>2 DEF Procs
        <5>4. QED BY <3>2, <5>3, RacedFacts
      <4>2. QED BY <4>1
    <3>4. file[f].whole \/ crashes > 0 \/ raced BY <3>1, <3>3 DEF FilesStayWhole
    <3> HIDE DEF f
    <3>5. \A g \in Files : snapshot'[g] = IF g = f THEN file[f] ELSE snapshot[g]
      BY <1>1, <3>1 DEF Stored
    <3>6. QED BY <1>2, <2>1, <3>4, <3>5 DEF RaceInv
  <2>4. QED
    <3>1. UNCHANGED snapshot \/ Stash
      BY ActFacts, ApiActFacts, CopyOrNot, WriteChanges DEF Rebuild
    <3>2. QED BY <2>2, <2>3, <3>1
<1>8. QED BY <1>2, <1>5, <1>6, <1>7 DEF RaceInv

LEMMA WholeStep ==
    ASSUME TypeOK, TurnInv, RaceInv, FilesStayWhole, Next
    PROVE  FilesStayWhole'
<1>1. WriterTyped /\ WorkerTyped /\ Stored(file) /\ Stored(snapshot) BY TypeParts
<1>2. raced => raced' BY NextFacts
<1>3. crashes \in Nat BY TypeParts DEF CountsTyped
<1> DEFINE Sound(f) == \/ file'[f].whole \/ crashes' > 0 \/ raced'
                       \/ \E p \in Procs : writer'[p].file = f /\ writer'[p].dumped
                       \/ worker'.pc = "fill" /\ Copied[worker'.n] = f
<1>4. ASSUME NEW f \in Files, ~Sound(f) PROVE FALSE
  <2>1. ~file'[f].whole /\ ~(crashes' > 0) /\ ~raced' /\ ~raced
        /\ (\A p \in Procs : writer'[p].file = f => ~writer'[p].dumped)
        /\ ~(worker'.pc = "fill" /\ Copied[worker'.n] = f)
    BY <1>2, <1>4
  <2>2. CASE ApiAct \/ Rebuild
    <3>1. UNCHANGED <<file, writer, worker, crashes>>
      BY <2>2, ApiActFacts DEF Rebuild, files
    <3>2. QED BY <2>1, <3>1 DEF FilesStayWhole
  <2>3. CASE WorkerAct
    <3>1. /\ UNCHANGED crashes
          /\ \A p \in Procs : writer'[p].file = writer[p].file /\ writer'[p].dumped = writer[p].dumped
      BY <2>3, WorkerActFacts
    <3>2. file[f].whole \/ (worker.pc = "fill" /\ Copied[worker.n] = f)
      BY <2>1, <3>1 DEF FilesStayWhole
    <3>3. CASE Truncate
      <4> DEFINE g == Copied[worker.n]
      <4>1. /\ worker.pc = "truncate" /\ g \in Files /\ file' = [file EXCEPT ![g].whole = FALSE]
            /\ worker' = [worker EXCEPT !.pc = "fill"]
        BY <3>3, TruncateFacts
      <4>2. worker'.n = worker.n /\ worker'.pc = "fill" BY <1>1, <4>1 DEF WorkerTyped
      <4>3. f # g BY <2>1, <4>2
      <4> HIDE DEF g
      <4>4. file'[f] = file[f] BY <1>1, <4>1, <4>3 DEF Stored
      <4>5. QED BY <2>1, <3>2, <4>1, <4>4
    <3>4. CASE Fill
      <4> DEFINE g == Copied[worker.n]
      <4>1. /\ worker.pc = "fill" /\ g \in Files
            /\ \A h \in Files : h # g => file'[h] = file[h]
            /\ ~file'[g].whole => \/ writer["api"].file = g /\ writer["api"].dumped
                                  \/ ~snapshot[g].whole \/ file[g].whole
        BY <3>4, FillFacts
      <4>2. CASE f # g BY <2>1, <3>2, <4>1, <4>2
      <4>3. CASE f = g
        <5>1. ~(writer["api"].file = g /\ writer["api"].dumped) BY <2>1, <3>1, <4>3 DEF Procs
        <5>2. snapshot[g].whole BY <2>1, <3>1, <4>1 DEF RaceInv
        <5>3. ~file[g].whole BY <2>1, <4>1 DEF RaceInv
        <5>4. QED BY <2>1, <4>1, <4>3, <5>1, <5>2, <5>3
      <4>4. QED BY <4>2, <4>3
    <3>5. QED BY <2>1, <2>3, <3>2, <3>3, <3>4, CopyOrNot
  <2>4. ASSUME NEW p \in Procs, Crash(p) PROVE FALSE BY <1>3, <2>1, <2>4, CrashFacts
  <2>5. ASSUME NEW p \in Procs, Write(p) PROVE FALSE
    <3>1. UNCHANGED crashes BY <2>5 DEF Write
    <3>2. \A q \in Procs : q # p => writer'[q] = writer[q] BY <2>5, WriteChanges
    <3>3. ~(worker.pc = "fill" /\ Copied[worker.n] = f)
      <4>1. CASE p = "api" BY <2>1, <2>5, <4>1, WriteChanges
      <4>2. CASE p = "worker"
        <5>1. todo["worker"] # <<>>
          BY <2>5, <4>2, BeginFacts, RefuseFacts, DumpFacts, FinishFacts DEF Write
        <5>2. QED BY <5>1, HolderFacts DEF Procs
      <4>3. QED BY <4>1, <4>2 DEF Procs
    <3>4. file[f].whole \/ (writer[p].file = f /\ writer[p].dumped)
      BY <2>1, <3>1, <3>2, <3>3 DEF FilesStayWhole
    <3>5. CASE writer[p].file # f
      <4>1. file'[f] = file[f] BY <2>5, <3>5, WriteChanges
      <4>2. QED BY <2>1, <3>4, <3>5, <4>1
    <3>6. CASE writer[p].file = f
      <4>1. CASE Begin(p) BY <1>4, <3>6, <4>1, BeginFacts, NoWriterFacts
      <4>2. CASE Refuse(p) BY <2>1, <3>4, <4>2, RefuseFacts
      <4>3. CASE Dump(p)
        <5>1. writer' = [writer EXCEPT ![p].dumped = TRUE] BY <4>3, DumpFacts
        <5>2. writer'[p].file = f /\ writer'[p].dumped BY <1>1, <3>6, <5>1 DEF WriterTyped
        <5>3. QED BY <2>1, <5>2
      <4>4. CASE Finish(p)
        <5>1. writer[p].mixed BY <2>1, <3>6, <4>4, FinishFacts
        <5>2. QED BY <2>1, <5>1 DEF RaceInv
      <4>5. QED BY <2>5, <4>1, <4>2, <4>3, <4>4 DEF Write
    <3>7. QED BY <3>5, <3>6
  <2>6. QED BY <2>2, <2>3, <2>4, <2>5, ActFacts
<1>5. QED BY <1>4 DEF FilesStayWhole

-----------------------------------------------------------------------------
(* What is read without the lock                                             *)

LEMMA CountsGrow ==
    ASSUME TypeOK, TurnInv, Next
    PROVE  /\ coincidences \in Nat /\ coincidences' \in Nat /\ coincidences' >= coincidences
           /\ crashes \in Nat /\ crashes' \in Nat /\ crashes' >= crashes
<1>1. CacheTyped /\ crashes \in Nat /\ TypeOK' BY TypeParts, TypeStep DEF CountsTyped
<1>2. coincidences \in Nat /\ coincidences' \in Nat /\ crashes' \in Nat
  BY <1>1 DEF CacheTyped, TypeOK
<1>3. coincidences' >= coincidences
  <2>1. CASE ApiAct \/ Rebuild BY <1>2, <2>1, ApiActFacts DEF Rebuild, files
  <2>2. CASE WorkerAct
    <3>1. UNCHANGED coincidences \/ Truncate \/ Fill BY <2>2, CopyOrNot
    <3>2. Truncate => UNCHANGED coincidences BY TruncateFacts
    <3>3. Fill => coincidences' >= coincidences BY <1>1, FillFacts, RestampFacts
    <3>4. QED BY <1>2, <3>1, <3>2, <3>3
  <2>3. ASSUME NEW p \in Procs, Write(p) \/ Crash(p) PROVE coincidences' >= coincidences
    <3>1. Begin(p) \/ Refuse(p) \/ Dump(p) \/ Crash(p) => UNCHANGED coincidences
      BY BeginFacts, RefuseFacts, DumpFacts, CrashFacts
    <3>2. Finish(p) => coincidences' >= coincidences BY <1>1, FinishFacts, RestampFacts
    <3>3. QED BY <1>2, <2>3, <3>1, <3>2 DEF Write
  <2>4. QED BY <2>1, <2>2, <2>3, ActFacts
<1>4. crashes' >= crashes
  <2>1. CASE ApiAct \/ WorkerAct \/ Rebuild
    BY <1>1, <2>1, ApiActFacts, WorkerActFacts DEF Rebuild
  <2>2. ASSUME NEW p \in Procs, Write(p) \/ Crash(p) PROVE crashes' >= crashes
    BY <1>1, <2>2, CrashFacts DEF Write
  <2>3. QED BY <2>1, <2>2, ActFacts
<1>5. QED BY <1>1, <1>2, <1>3, <1>4

LEMMA CacheStep ==
    ASSUME TypeOK, TurnInv, CacheInv, Next
    PROVE  CacheInv'
<1>1. WriterTyped /\ CacheTyped /\ Stored(file) /\ Stored(snapshot) BY TypeParts
<1>2. coincidences \in Nat /\ coincidences' \in Nat /\ coincidences' >= coincidences BY CountsGrow
<1>3. "userdata" \in Files /\ "api" \in Procs /\ "worker" \in Procs /\ "api" # "worker"
  BY DEF Files, Procs
\* A process that forgets, or reads, or does nothing while the file stays as it is.
<1>4. ASSUME file'["userdata"].data = file["userdata"].data,
             file'["userdata"].whole => file["userdata"].whole,
             \A p \in Procs : \/ cache'[p] = None /\ ~coincided'[p]
                              \/ /\ cache'[p] \in {cache[p], Reading(p)}
                                 /\ coincided'[p] = coincided[p]
      PROVE  CacheInv'
  <2>1. ASSUME NEW p \in Procs, cache'[p] # None, file'["userdata"].whole, ~coincided'[p]
        PROVE  cache'[p] = file'["userdata"].data
    <3>1. cache'[p] \in {cache[p], Reading(p)} /\ ~coincided[p] BY <1>4, <2>1
    <3>2. Hit(p) => cache[p] = file["userdata"].data
      BY <3>1 DEF CacheInv, CacheIsCurrent
    <3>3. QED BY <1>4, <2>1, <3>1, <3>2 DEF Hit, Reading
  <2>2. \A p \in Procs : coincided'[p] => coincidences' > 0 BY <1>2, <1>4 DEF CacheInv
  <2>3. QED BY <2>1, <2>2 DEF CacheInv, CacheIsCurrent, Hit
<1>5. ASSUME NEW f \in Files, NEW forgets, Restamp(f, forgets),
             \A g \in Files : g # f => file'[g] = file[g]
      PROVE  CacheInv'
  <2>1. CASE f = "userdata"
    <3>1. \A p \in Procs : /\ cache'[p] # None => coincided'[p]
                           /\ coincided'[p] => coincidences' > 0
      BY <1>1, <1>5, <2>1, RestampFacts
    <3>2. QED BY <3>1 DEF CacheInv, CacheIsCurrent, Hit
  <2>2. CASE f # "userdata"
    <3>1. UNCHANGED <<cache, coincided>> BY <1>1, <1>5, <2>2, RestampFacts
    <3>2. file'["userdata"] = file["userdata"] BY <1>3, <1>5, <2>2
    <3>3. QED BY <1>4, <3>1, <3>2
  <2>3. QED BY <2>1, <2>2
<1>6. CASE ApiAct
  <2>1. /\ UNCHANGED <<file, coincided>> /\ cache'["worker"] = cache["worker"]
        /\ cache'["api"] \in {cache["api"], Reading("api")}
    BY <1>6, ApiActFacts
  <2>2. QED BY <1>4, <2>1 DEF Procs
<1>7. CASE Rebuild BY <1>4, <1>7 DEF Rebuild, files
<1>8. CASE WorkerAct
  <2>1. CASE Locate
    <3>1. /\ UNCHANGED <<file, coincided>>
          /\ UNCHANGED cache \/ cache' = [cache EXCEPT !["worker"] = Reading("worker")]
      BY <2>1, LocateFacts
    <3>2. \A p \in Procs : cache'[p] \in {cache[p], Reading(p)} BY <1>1, <3>1 DEF CacheTyped
    <3>3. QED BY <1>4, <3>1, <3>2
  <2>2. CASE Truncate
    <3>1. /\ Copied[worker.n] \in Files /\ UNCHANGED <<cache, coincided>>
          /\ file' = [file EXCEPT ![Copied[worker.n]].whole = FALSE]
      BY <2>2, TruncateFacts
    <3>2. /\ file'["userdata"].data = file["userdata"].data
          /\ file'["userdata"].whole => file["userdata"].whole
      BY <1>1, <1>3, <3>1 DEF Stored
    <3>3. QED BY <1>4, <3>1, <3>2
  <2>3. CASE Fill BY <1>5, <2>3, FillFacts
  <2>4. CASE UNCHANGED <<file, cache, coincided>> BY <1>4, <2>4
  <2>5. QED BY <1>8, <2>1, <2>2, <2>3, <2>4, CopyOrNot
<1>9. ASSUME NEW p \in Procs, Write(p) \/ Crash(p) PROVE CacheInv'
  <2>1. CASE Begin(p) BY <1>4, <2>1, BeginFacts
  <2>2. CASE Refuse(p) \/ Crash(p)
    <3>1. /\ UNCHANGED file /\ cache' = [cache EXCEPT ![p] = None]
          /\ coincided' = [coincided EXCEPT ![p] = FALSE]
      BY <2>2, RefuseFacts, CrashFacts
    <3>2. \A q \in Procs : \/ cache'[q] = None /\ ~coincided'[q]
                           \/ cache'[q] = cache[q] /\ coincided'[q] = coincided[q]
      BY <1>1, <3>1 DEF CacheTyped
    <3>3. QED BY <1>4, <3>1, <3>2
  <2>3. CASE Dump(p)
    <3>1. /\ writer[p].file \in Files /\ UNCHANGED <<cache, coincided>>
          /\ file' = [file EXCEPT ![writer[p].file].whole = FALSE]
      BY <2>3, DumpFacts
    <3>2. /\ file'["userdata"].data = file["userdata"].data
          /\ file'["userdata"].whole => file["userdata"].whole
      BY <1>1, <1>3, <3>1 DEF Stored
    <3>3. QED BY <1>4, <3>1, <3>2
  <2>4. CASE Finish(p) BY <1>5, <2>4, FinishFacts
  <2>5. QED BY <1>9, <2>1, <2>2, <2>3, <2>4 DEF Write
<1>10. QED BY <1>6, <1>7, <1>8, <1>9, ActFacts

\* When no write fell into one tick of the clock with another, what is read is
\* what is there.
LEMMA ReadsCurrent ==
    ASSUME TypeOK, CacheInv, NEW p \in Procs, coincidences = 0
    PROVE  Reading(p) = file["userdata"].data
<1>1. ~coincided[p]
  <2>1. ~(0 > 0) OBVIOUS
  <2>2. QED BY <2>1 DEF CacheInv
<1>2. QED BY <1>1 DEF CacheInv, CacheIsCurrent, Hit, Reading

-----------------------------------------------------------------------------
(* The flake                                                                 *)

\* Two requests that edit the flake at once are noted.
LEMMA OneFlaking ==
    ASSUME NEW r \in Seq(Asked), ~(Cardinality(Flaking(r)) > 1)
    PROVE  \A i, j \in Flaking(r) : i = j
<1>1. Flaking(r) \subseteq 1 .. Len(r) /\ Len(r) \in Nat BY LenProperties DEF Flaking
<1>2. IsFiniteSet(1 .. Len(r)) BY <1>1, FS_Interval
<1>3. IsFiniteSet(Flaking(r)) BY <1>1, <1>2, FS_Subset
<1>4. ASSUME NEW i \in Flaking(r), NEW j \in Flaking(r), i # j PROVE FALSE
  <2> DEFINE S == {i}
  <2>1. IsFiniteSet(S) /\ Cardinality(S) = 1 /\ j \notin S BY <1>4, FS_Singleton
  <2>2. S \cup {j} \in SUBSET Flaking(r) OBVIOUS
  <2> HIDE DEF S
  <2>3. Cardinality(S \cup {j}) = Cardinality(S) + 1 BY <2>1, FS_AddElement
  <2>4. Cardinality(S \cup {j}) <= Cardinality(Flaking(r)) BY <1>3, <2>2, FS_Subset
  <2>5. Cardinality(Flaking(r)) \in Nat BY <1>3, FS_CardinalityType
  <2>6. QED BY <2>1, <2>3, <2>4, <2>5
<1>5. QED BY <1>4

\* What is under way in the flake, request by request.
FlakeOf(r) ==
    /\ \A i \in DOMAIN r : r[i].pc = "put" => ~flake.whole
    /\ \A s \in Services : Installed(s) => flake.modules[s] = flake.channel
    /\ \A s \in defined : Installed(s)
    /\ \A i \in DOMAIN r : r[i].what.op = "enable" /\ r[i].pc \in {"save", "done"} =>
         Installed(r[i].what.service)
    /\ \A i \in Flaking(r) :
         /\ \A s \in Services :
              /\ r[i].modules[s] # None => r[i].modules[s] = r[i].channel
              /\ Installed(s) => r[i].modules[s] # None
         /\ r[i].what.op = "enable" => r[i].modules[r[i].what.service] # None

LEMMA FlakeParts == FlakeInv <=> (~overlapped => FlakeOf(req) /\ \A i, j \in Flaking(req) : i = j)
BY DEF FlakeInv, FlakeOf

LEMMA FlakePartsNext ==
    FlakeInv' <=> (~overlapped' => FlakeOf(req)' /\ \A i, j \in Flaking(req') : i = j)
BY DEF FlakeInv, FlakeOf

LEMMA FlakeStep ==
    ASSUME TypeOK, TurnInv, FlakeInv, Next
    PROVE  FlakeInv'
<1>1. FlakeTyped /\ req \in Seq(Asked) BY TypeParts
<1>2. req' \in Seq(Asked) BY TypeStep, TypePartsNext
<1>3. SUFFICES ASSUME ~overlapped' PROVE FlakeOf(req)'
  <2>1. ~overlapped' => \A i, j \in Flaking(req') : i = j BY <1>2, NextFacts, OneFlaking
  <2>2. QED BY <2>1, FlakePartsNext
<1>4. FlakeOf(req) /\ \A i, j \in Flaking(req) : i = j BY <1>3, NextFacts, FlakeParts
<1>5. ASSUME Onward, UNCHANGED <<flake, defined>> PROVE FlakeOf(req)'
  <2>1. \A i \in Flaking(req') : i \in Flaking(req) BY <1>5 DEF Onward, Flaking
  <2>2. QED BY <1>4, <1>5, <2>1 DEF FlakeOf, Onward, Installed, Flaking
<1>6. ASSUME NEW what \in Whats, Ask(what) PROVE FlakeOf(req)'
  <2> DEFINE first == FirstStep(what)
             n == Len(req) + 1
  <2>1. /\ DOMAIN req' = DOMAIN req \cup {n} /\ \A i \in DOMAIN req : req'[i] = req[i]
        /\ req'[n] = [what |-> what, pc |-> first, channel |-> None, modules |-> None]
        /\ first \in {"failed", "look", "edit", "save"}
        /\ first = "save" => what.op \notin {"enable", "channel"}
        /\ UNCHANGED <<flake, defined>>
    BY <1>6, AskFacts
  <2>2. req'[n].what = what /\ req'[n].pc = first BY <2>1
  <2> HIDE DEF n, first
  <2>3. \A i \in Flaking(req') : i \in DOMAIN req /\ i \in Flaking(req) BY <2>1, <2>2 DEF Flaking
  <2>4. QED BY <1>4, <2>1, <2>2, <2>3 DEF FlakeOf, Installed
<1>7. ASSUME NEW i \in DOMAIN req, Look(i) PROVE FlakeOf(req)'
  <2>1. /\ req[i].pc = "look" /\ DOMAIN req' = DOMAIN req
        /\ \A j \in DOMAIN req : j # i => req'[j] = req[j]
        /\ req'[i].what = req[i].what
        /\ \/ req'[i].pc = "save" /\ Installed(Service(i))
           \/ req'[i].pc \in {"edit", "failed"}
        /\ UNCHANGED <<flake, defined>>
    BY <1>7, LookFacts DEF Otherwise
  <2>2. \A j \in Flaking(req') : j # i /\ j \in Flaking(req) BY <2>1 DEF Flaking
  <2>3. QED BY <1>4, <2>1, <2>2 DEF FlakeOf, Installed, Service, Flaking
<1>8. ASSUME NEW i \in DOMAIN req, Edit(i) PROVE FlakeOf(req)'
  <2>1. /\ req[i].pc = "edit" /\ DOMAIN req' = DOMAIN req
        /\ \A j \in DOMAIN req : j # i => req'[j] = req[j]
        /\ req'[i].what = req[i].what
        /\ UNCHANGED <<flake, defined>>
    BY <1>8, EditFacts DEF Otherwise
  <2>2. /\ \A s \in Services : Installed(s) => Edited(i).modules[s] # None
        /\ req[i].what.op = "enable" => Edited(i).modules[Service(i)] # None
        /\ \A s \in Services : Edited(i).modules[s] # None =>
             Edited(i).modules[s] = Edited(i).channel
    BY <1>4, <2>1, EditedFacts DEF FlakeOf
  <2>3. CASE req'[i].pc \notin {"format", "put"}
    <3>1. \A j \in Flaking(req') : j # i /\ j \in Flaking(req) BY <2>1, <2>3 DEF Flaking
    <3>2. req'[i].pc \in {"save", "done"} /\ req[i].what.op = "enable" => Installed(Service(i))
      <4>1. req'[i].pc \in {"save", "done"} => Edited(i).modules = flake.modules
        BY <1>8, <2>3, EditFacts
      <4>2. QED BY <2>2, <4>1 DEF Installed
    <3>3. req'[i].pc # "put" BY <2>3
    <3>4. QED BY <1>4, <2>1, <3>1, <3>2, <3>3 DEF FlakeOf, Installed, Service, Flaking
  <2>4. CASE req'[i].pc \in {"format", "put"}
    <3>1. /\ req'[i].pc = "format" /\ req'[i].channel = Edited(i).channel
          /\ req'[i].modules = Edited(i).modules
      BY <1>8, <2>4, EditFacts
    <3>2. \A j \in Flaking(req') : j # i => j \in Flaking(req) BY <2>1 DEF Flaking
    <3>3. QED BY <1>4, <2>1, <2>2, <3>1, <3>2 DEF FlakeOf, Installed, Service, Flaking
  <2>5. QED BY <2>3, <2>4
<1>9. ASSUME NEW i \in DOMAIN req, Empty(i) PROVE FlakeOf(req)'
  <2>1. /\ req[i].pc = "format" /\ req'[i].pc = "put" /\ DOMAIN req' = DOMAIN req
        /\ \A j \in DOMAIN req : j # i => req'[j] = req[j]
        /\ req'[i].what = req[i].what /\ req'[i].channel = req[i].channel
        /\ req'[i].modules = req[i].modules
        /\ flake'.whole = FALSE /\ flake'.channel = flake.channel
        /\ flake'.modules = flake.modules /\ UNCHANGED defined
    BY <1>9, EmptyFacts DEF Otherwise
  <2>2. \A j \in Flaking(req') : j \in Flaking(req) BY <2>1 DEF Flaking
  <2>3. QED BY <1>4, <2>1, <2>2 DEF FlakeOf, Installed, Flaking
<1>10. ASSUME NEW i \in DOMAIN req, Put(i) PROVE FlakeOf(req)'
  <2>1. /\ req[i].pc = "put" /\ DOMAIN req' = DOMAIN req
        /\ \A j \in DOMAIN req : j # i => req'[j] = req[j]
        /\ req'[i].what = req[i].what /\ req'[i].pc \in {"save", "done"}
        /\ flake'.channel = req[i].channel
        /\ flake'.modules = req[i].modules /\ UNCHANGED defined
    BY <1>10, PutFacts DEF Otherwise
  <2>2. i \in Flaking(req) BY <2>1 DEF Flaking
  <2>3. Flaking(req') = {} BY <1>4, <2>1, <2>2 DEF Flaking
  <2>4. \A s \in Services : /\ Installed(s) => Installed(s)'
                            /\ Installed(s)' => flake'.modules[s] = flake'.channel
    BY <1>4, <2>1, <2>2 DEF FlakeOf, Installed
  <2>5. req[i].what.op = "enable" => flake'.modules[req[i].what.service] # None
    BY <1>4, <2>1, <2>2 DEF FlakeOf
  <2>6. \A j \in DOMAIN req' : req'[j].pc # "put" BY <2>3 DEF Flaking
  <2>7. \A j \in DOMAIN req' : req'[j].what.op = "enable" /\ req'[j].pc \in {"save", "done"} =>
          flake'.modules[req'[j].what.service] # None
    <3>1. ASSUME NEW j \in DOMAIN req', j # i, req'[j].what.op = "enable",
                 req'[j].pc \in {"save", "done"}
          PROVE  flake'.modules[req'[j].what.service] # None
      <4>1. Installed(req[j].what.service) BY <1>4, <2>1, <3>1 DEF FlakeOf
      <4>2. req[j].what.service \in Services BY <1>1, <2>1, <3>1, RequestFacts DEF Service
      <4>3. flake'.modules[req[j].what.service] # None BY <2>4, <4>1, <4>2 DEF Installed
      <4>4. QED BY <2>1, <3>1, <4>3
    <3>2. QED BY <2>1, <2>5, <3>1
  <2>8. \A s \in defined' : Installed(s)'
    BY <1>1, <1>4, <2>1, <2>4 DEF FlakeOf, FlakeTyped
  <2>9. QED BY <2>3, <2>4, <2>6, <2>7, <2>8 DEF FlakeOf, Installed
<1>11. CASE ApiAct BY <1>6, <1>7, <1>8, <1>9, <1>10, <1>11 DEF ApiAct
<1>12. CASE WorkerAct BY <1>1, <1>5, <1>12, WorkerActFacts, SameIsOnward
<1>13. CASE \E p \in Procs : Write(p) \/ Crash(p) BY <1>5, <1>13, WriteOnward
<1>14. CASE Rebuild
  <2>1. UNCHANGED <<req, flake>> /\ defined' = {s \in Services : Installed(s)}
    BY <1>14 DEF Rebuild
  <2>2. QED BY <1>4, <2>1 DEF FlakeOf, Installed
<1>15. QED BY <1>11, <1>12, <1>13, <1>14, ActFacts

\* Modules of one channel, from what is under way.
LEMMA FollowsFromFlake == FlakeInv => ModulesFollowChannel
BY DEF FlakeInv, ModulesFollowChannel

-----------------------------------------------------------------------------
(* The names of the services                                                 *)

\* A write that ends changes what is there, as nobody has changed it since it
\* was loaded.
LEMMA FinishChanges ==
    ASSUME TypeOK, TurnInv, HeldInv, NEW p \in Procs, Finish(p), p = "worker" \/ ~raced
    PROVE  /\ Block(p) \in Writes /\ (Block(p).op # "token" <=> writer[p].file = "userdata")
           /\ writer[p].file \in Files
           /\ file'[writer[p].file].data = Apply(Block(p), file[writer[p].file].data)
           /\ \A g \in Files : g # writer[p].file => file'[g] = file[g]
           /\ p = "worker" => Block(p).op = "location"
<1>1. /\ writer[p].file = FileOf(Block(p)) /\ writer[p].file \in Files /\ writer[p].file # None
      /\ file'[writer[p].file].data = Apply(Block(p), writer[p].data) /\ todo[p] # <<>>
      /\ \A g \in Files : g # writer[p].file => file'[g] = file[g]
  BY FinishFacts
<1>2. writer[p].data = file[writer[p].file].data BY <1>1 DEF HeldInv
<1>3. todo \in [Procs -> Seq(Writes)] BY TypeParts
<1>4. Block(p) \in Writes /\ (FileOf(Block(p)) = "userdata" <=> Block(p).op # "token")
  BY <1>1, <1>3, BlockFacts
<1>5. p = "worker" => Block(p).op = "location" BY <1>1, TurnParts DEF WorkerTurn
<1>6. QED BY <1>1, <1>2, <1>4, <1>5

\* The API's next block after one that ended.
LEMMA NextBlock ==
    ASSUME TypeOK, TurnInv, Finish("api"), todo'["api"] # <<>>
    PROVE  /\ Block("api").op \in {"place", "provider"} /\ UNCHANGED <<req, worker>>
           /\ Block("api").op = "place" => Block("api")'.op = "enable"
           /\ Block("api").op = "provider" =>
                Block("api")' = [op |-> "token", provider |-> Block("api").provider]
<1>1. "api" \in Procs /\ todo \in [Procs -> Seq(Writes)] /\ ApiTurn BY TypeParts, TurnParts DEF Procs
<1>2. todo["api"] # <<>> BY <1>1, FinishFacts
<1>3. /\ Len(todo["api"]) = 2 /\ todo' = [todo EXCEPT !["api"] = Tail(@)]
      /\ UNCHANGED <<req, worker>>
  <2>1. ~Ends("api", "done") BY <1>1, EndsFacts
  <2>2. QED BY <1>1, <2>1, FinishFacts
<1>4. Head(Tail(todo["api"])) = todo["api"][2] BY <1>1, <1>2, <1>3, BlockFacts
<1>5. Block("api")' = todo["api"][2] BY <1>1, <1>3, <1>4 DEF Block
<1>6. CASE Block("api").op = "place" /\ todo["api"][2].op = "enable"
  BY <1>3, <1>5, <1>6
<1>7. CASE /\ Block("api").op = "provider"
           /\ todo["api"][2] = [op |-> "token", provider |-> Block("api").provider]
  BY <1>3, <1>5, <1>7
<1>8. QED BY <1>1, <1>2, <1>3, <1>6, <1>7 DEF ApiTurn

\* What the API runs first of the blocks of a request.
LEMMA FirstBlock ==
    ASSUME TypeOK, TurnInv, ApiAct, todo'["api"] # <<>>
    PROVE  /\ Block("api")'.op # "token"
           /\ Block("api")'.op = "configure" =>
                /\ Block("api")' \in Whats /\ Block("api")'.op = "configure"
                /\ FirstStep(Block("api")') = "save"
<1>1. PICK what \in Whats :
        /\ what.op # "channel" /\ todo'["api"] = Blocks(what)
        /\ what.op = "configure" => Ask(what) /\ FirstStep(what) = "save"
  BY ApiActFacts
<1> DEFINE place == [op |-> "place", service |-> what.service]
           provider == [op |-> "provider", provider |-> what.provider]
           token == [op |-> "token", provider |-> what.provider]
<1>2. CASE Blocks(what) = <<what>> /\ what.op # "token"
  <2>1. Block("api")' = what BY <1>1, <1>2 DEF Block
  <2>2. QED BY <1>1, <1>2, <2>1
<1>3. CASE Blocks(what) = <<place, what>>
  <2>1. Block("api")' = place BY <1>1, <1>3 DEF Block
  <2>2. QED BY <2>1
<1>4. CASE Blocks(what) = <<provider, token>>
  <2>1. Block("api")' = provider BY <1>1, <1>4 DEF Block
  <2>2. QED BY <2>1
<1>5. QED BY <1>1, <1>2, <1>3, <1>4, BlocksFacts

\* A name that the API finds free is that of no service.
LEMMA FreeName ==
    ASSUME TypeOK, CacheInv, coincidences = 0, NEW what \in Whats, what.op = "configure",
           FirstStep(what) = "save", NEW t \in Services
    PROVE  file["userdata"].data.subdomain[t] # what.subdomain
<1> DEFINE d == file["userdata"].data
<1>1. "api" \in Procs BY DEF Procs
<1>2. Reading("api") = d /\ Plain(d) BY <1>1, ReadsCurrent, ReadingFacts
<1>3. ~SubdomainTaken(Reading("api"), what.subdomain) BY DEF FirstStep, Valid
<1>4. \A s \in d.modules : Effective(d, s) # what.subdomain BY <1>2, <1>3 DEF SubdomainTaken
<1>5. what.subdomain \in Subdomains /\ None \notin Subdomains BY SettingsAssumption DEF Whats
<1>6. CASE d.subdomain[t] = None BY <1>5, <1>6
<1>7. CASE d.subdomain[t] # None
  <2>1. t \in d.modules BY <1>2, <1>7 DEF Plain
  <2>2. QED BY <1>4, <1>7, <2>1 DEF Effective
<1>8. QED BY <1>6, <1>7

LEMMA NamesStep ==
    ASSUME TypeOK, TurnInv, HeldInv, RaceInv, CacheInv, NamesInv, Next
    PROVE  NamesInv'
<1> DEFINE d == file["userdata"].data
           Free(sub, x) == \A t \in Services : sub[t] # x
<1>1. SUFFICES ASSUME ~raced', coincidences' = 0
               PROVE  /\ Distinct(file'["userdata"].data) /\ Distinct(snapshot'["userdata"].data)
                      /\ todo'["api"] # <<>> /\ Block("api")'.op = "configure" =>
                           Free(file'["userdata"].data.subdomain, Block("api")'.subdomain)
  BY DEF NamesInv
<1>2. ~raced /\ coincidences = 0 BY <1>1, NextFacts, CountsGrow
<1>3. /\ Distinct(d) /\ Distinct(snapshot["userdata"].data)
      /\ todo["api"] # <<>> /\ Block("api").op = "configure" =>
           Free(d.subdomain, Block("api").subdomain)
  BY <1>2 DEF NamesInv
<1>4. Stored(file) /\ Plain(d) /\ Stored(snapshot) /\ todo \in [Procs -> Seq(Writes)]
  BY TypeParts DEF Stored
<1>5. "userdata" \in Files /\ "secrets" \in Files /\ "api" \in Procs /\ "worker" \in Procs
  BY DEF Files, Procs
<1>6. ASSUME file'["userdata"].data = d, UNCHANGED snapshot, todo'["api"] \in {<<>>, todo["api"]}
      PROVE  /\ Distinct(file'["userdata"].data) /\ Distinct(snapshot'["userdata"].data)
             /\ todo'["api"] # <<>> /\ Block("api")'.op = "configure" =>
                  Free(file'["userdata"].data.subdomain, Block("api")'.subdomain)
  BY <1>3, <1>6 DEF Block
<1>7. CASE ApiAct
  <2>1. UNCHANGED <<file, snapshot>> BY <1>7, ApiActFacts
  <2>2. ASSUME todo'["api"] # <<>>, Block("api")'.op = "configure"
        PROVE  Free(d.subdomain, Block("api")'.subdomain)
    <3>1. PICK what : what = Block("api")' OBVIOUS
    <3>2. what \in Whats /\ FirstStep(what) = "save" /\ what.op = "configure"
      BY <1>7, <2>2, <3>1, FirstBlock
    <3>3. QED BY <1>2, <3>1, <3>2, FreeName
  <2>3. QED BY <1>3, <2>1, <2>2
<1>8. CASE Rebuild BY <1>6, <1>8 DEF Rebuild, files
<1>9. CASE WorkerAct
  <2>1. todo'["api"] = todo["api"] BY <1>9, WorkerActFacts
  <2>2. CASE Truncate
    <3>1. /\ file' = [file EXCEPT ![Copied[worker.n]].whole = FALSE] /\ UNCHANGED snapshot
      BY <2>2, TruncateFacts
    <3>2. file'["userdata"].data = d BY <1>4, <1>5, <3>1 DEF Stored
    <3>3. QED BY <1>6, <2>1, <3>1, <3>2
  <2>3. CASE Fill
    <3> DEFINE f == Copied[worker.n]
    <3>1. /\ worker.pc = "fill" /\ f \in Files /\ UNCHANGED snapshot
          /\ file'[f].data = snapshot[f].data /\ \A g \in Files : g # f => file'[g] = file[g]
      BY <2>3, FillFacts
    <3>2. todo["api"] = <<>> BY <1>2, <3>1 DEF RaceInv, Copying
    <3>3. file'["userdata"].data \in {d, snapshot["userdata"].data}
      BY <1>5, <3>1
    <3>4. QED BY <1>3, <2>1, <3>1, <3>2, <3>3
  <2>4. CASE Stash
    <3> DEFINE f == Copied[worker.n]
    <3>1. f \in Files /\ UNCHANGED file /\ snapshot' = [snapshot EXCEPT ![f] = file[f]]
      BY <2>4, StashFacts
    <3> HIDE DEF f
    <3>2. snapshot'["userdata"] \in {snapshot["userdata"], file["userdata"]}
      BY <1>4, <1>5, <3>1 DEF Stored
    <3>3. Distinct(snapshot'["userdata"].data) BY <1>3, <3>2
    <3>4. QED BY <1>3, <2>1, <3>1, <3>3 DEF Block
  <2>5. CASE UNCHANGED <<file, snapshot>> BY <1>6, <2>1, <2>5
  <2>6. QED BY <1>9, <2>2, <2>3, <2>4, <2>5, CopyOrNot
<1>10. ASSUME NEW p \in Procs, Write(p) \/ Crash(p)
       PROVE  /\ Distinct(file'["userdata"].data) /\ Distinct(snapshot'["userdata"].data)
              /\ todo'["api"] # <<>> /\ Block("api")'.op = "configure" =>
                   Free(file'["userdata"].data.subdomain, Block("api")'.subdomain)
  <2>1. UNCHANGED snapshot BY <1>10, WriteChanges
  <2>2. CASE Finish(p)
    <3> DEFINE w == Block(p)
    <3>1. /\ w \in Writes /\ (w.op # "token" <=> writer[p].file = "userdata")
          /\ writer[p].file \in Files
          /\ file'[writer[p].file].data = Apply(w, file[writer[p].file].data)
          /\ \A g \in Files : g # writer[p].file => file'[g] = file[g]
          /\ p = "worker" => w.op = "location"
      BY <1>2, <2>2, FinishChanges
    <3>2. p = "api" /\ todo'["api"] # <<>> => Block("api")'.op # "configure"
                                              /\ w.op # "configure"
      <4>1. ASSUME p = "api", todo'["api"] # <<>>
            PROVE  Block("api")'.op # "configure" /\ w.op # "configure"
        <5>1. /\ Block("api").op \in {"place", "provider"}
              /\ Block("api").op = "place" => Block("api")'.op = "enable"
              /\ Block("api").op = "provider" =>
                   Block("api")' = [op |-> "token", provider |-> Block("api").provider]
          BY <2>2, <4>1, NextBlock
        <5>2. QED BY <4>1, <5>1
      <4>2. QED BY <4>1
    <3>3. p = "worker" => todo'["api"] = todo["api"]
      <4>1. todo' = [todo EXCEPT ![p] = <<>>] \/ p = "api" BY <2>2, FinishFacts, EndsFacts
      <4>2. QED BY <1>4, <1>5, <4>1
    <3>4. CASE w.op = "token"
      <4>1. file'["userdata"] = file["userdata"] BY <1>5, <3>1, <3>4
      <4>2. QED BY <1>3, <2>1, <3>1, <3>2, <3>3, <3>4, <4>1 DEF Procs, Block
    <3>5. CASE w.op # "token"
      <4>1. file'["userdata"].data = Apply(w, d) BY <3>1, <3>5
      <4> HIDE DEF w, d
      <4>2. CASE w.op # "configure"
        <5>1. file'["userdata"].data.subdomain = d.subdomain
          <6>1. w \in Writes /\ Plain(d) BY <1>4, <3>1
          <6>2. Apply(w, d).subdomain = d.subdomain BY <3>5, <4>2, <6>1, ApplyFacts
          <6>3. QED BY <4>1, <6>2
        <5>2. Distinct(file'["userdata"].data) BY <1>3, <5>1 DEF Distinct
        <5>3. QED BY <1>3, <2>1, <3>2, <3>3, <5>1, <5>2 DEF Procs, Block
      <4>3. CASE w.op = "configure"
        <5>1. /\ w.service \in Services
              /\ file'["userdata"].data.subdomain = [d.subdomain EXCEPT ![w.service] = w.subdomain]
          <6>1. w \in Writes /\ Plain(d) BY <1>4, <3>1
          <6>2. /\ w.service \in Services
                /\ Apply(w, d).subdomain = [d.subdomain EXCEPT ![w.service] = w.subdomain]
            BY <3>5, <4>3, <6>1, ApplyFacts
          <6>3. QED BY <4>1, <6>2
        <5>2. p = "api" BY <3>1, <4>3 DEF Procs
        <5>3. todo["api"] # <<>> /\ todo'["api"] = <<>>
          BY <2>2, <3>2, <4>3, <5>2, FinishFacts
        <5>4. Free(d.subdomain, w.subdomain) BY <1>3, <4>3, <5>2, <5>3 DEF w
        <5>5. Distinct(file'["userdata"].data)
          BY <1>3, <1>4, <5>1, <5>4 DEF Distinct, Plain
        <5>6. QED BY <1>3, <2>1, <5>3, <5>5
      <4>4. QED BY <4>2, <4>3
    <3>6. QED BY <3>4, <3>5
  <2>3. CASE Begin(p) \/ Refuse(p) \/ Dump(p) \/ Crash(p)
    <3>1. UNCHANGED todo \/ todo' = [todo EXCEPT ![p] = <<>>]
      BY <2>3, BeginFacts, RefuseFacts, DumpFacts, CrashFacts, EndsFacts
    <3>2. todo'["api"] \in {<<>>, todo["api"]} BY <1>4, <1>5, <3>1
    <3>3. CASE file'["userdata"].data = d BY <1>6, <2>1, <3>2, <3>3
    <3>4. QED BY <1>5, <1>10, <2>2, <3>3, WriteChanges
  <2>4. QED BY <1>10, <2>2, <2>3 DEF Write
<1>11. QED BY <1>7, <1>8, <1>9, <1>10, ActFacts

-----------------------------------------------------------------------------
(* The provider and its token                                                *)

Provider(content) == content["userdata"].data.provider
Token(content)    == content["secrets"].data
Between(pcs)      == worker.pc \in pcs /\ worker.n = 2

\* The token there will be when the API has run the block that is under way.
TokenToBe ==
    IF todo["api"] # <<>> /\ Block("api").op = "token" THEN Block("api").provider ELSE Token(file)

Paired ==
    /\ Between({"stash"}) => Provider(snapshot) = Token(file)
    /\ ~Between({"stash"}) => Provider(snapshot) = Token(snapshot)
    /\ Between({"truncate", "fill"}) => Provider(file) = Token(snapshot)
    /\ ~Between({"truncate", "fill"}) => Provider(file) = TokenToBe

LEMMA ProviderParts == ProviderInv <=> (crashes = 0 /\ ~raced => Paired)
<1>1. Provider(IF Between({"stash"}) THEN file ELSE snapshot)
        = IF Between({"stash"}) THEN Provider(file) ELSE Provider(snapshot)
  OBVIOUS
<1>2. QED BY DEF ProviderInv, Paired, Between, Provider, Token, TokenToBe

LEMMA ProviderPartsNext == ProviderInv' <=> (crashes' = 0 /\ ~raced' => Paired')
<1> DEFINE Calm == crashes = 0 /\ ~raced
<1>1. ProviderInv <=> (Calm => Paired) BY ProviderParts
<1> HIDE DEF Calm
<1>2. ProviderInv' <=> (Calm' => Paired') BY <1>1, PTL
<1>3. QED BY <1>2 DEF Calm

\* The API has nothing under way while the worker copies, or it is a race.
LEMMA QuietCopy ==
    ASSUME TypeOK, TurnInv, RaceInv, ~raced, Copying(worker)
    PROVE  todo["api"] = <<>> /\ todo["worker"] = <<>> /\ TokenToBe = Token(file)
<1>1. todo["api"] = <<>> BY DEF RaceInv
<1>2. todo["worker"] = <<>> BY TurnParts DEF WorkerTurn, Copying
<1>3. QED BY <1>1, <1>2 DEF TokenToBe

\* A write does not find half a file: nothing crashed, and nothing was raced.
LEMMA FindsWhole ==
    ASSUME TypeOK, TurnInv, RaceInv, FilesStayWhole, ~raced, crashes = 0, NEW p \in Procs, Begin(p)
    PROVE  UNCHANGED <<file, todo, worker>>
<1> DEFINE f == FileOf(Block(p))
<1>1. /\ todo[p] # <<>> /\ writer[p] = NoWriter /\ f \in Files /\ writer[Other(p)].file # f
      /\ UNCHANGED file
  BY BeginFacts
<1>2. ~(crashes > 0) OBVIOUS
<1>3. ~(worker.pc = "fill")
  <2>1. worker.pc = "fill" => Copying(worker) BY DEF Copying
  <2>2. QED BY <1>1, <2>1, QuietCopy DEF Procs
<1>4. \A q \in Procs : writer[q].file = f => ~writer[q].dumped
  <2>1. \A q \in Procs : q = p \/ q = Other(p) BY ProcFacts DEF Procs
  <2>2. QED BY <1>1, <2>1, NoWriterFacts
<1>5. file[f].whole BY <1>1, <1>2, <1>3, <1>4 DEF FilesStayWhole
<1>6. QED BY <1>1, <1>5, BeginFacts

LEMMA ProviderStep ==
    ASSUME TypeOK, TurnInv, HeldInv, RaceInv, FilesStayWhole, ProviderInv, Next
    PROVE  ProviderInv'
<1>1. SUFFICES ASSUME ~raced', crashes' = 0 PROVE Paired' BY ProviderPartsNext
<1>2. ~raced /\ crashes = 0 BY <1>1, NextFacts, CountsGrow
<1>3. Paired BY <1>2, ProviderParts
<1>4. Stored(file) /\ Stored(snapshot) /\ WorkerTyped /\ todo \in [Procs -> Seq(Writes)]
  BY TypeParts
<1>5. /\ "userdata" \in Files /\ "secrets" \in Files /\ "userdata" # "secrets"
      /\ "api" \in Procs /\ "worker" \in Procs /\ "api" # "worker"
  BY DEF Files, Procs
<1>6. WorkerTurn /\ ApiTurn BY TurnParts
\* What leaves the pairs of the files and the place of the copy as they are.
<1>7. ASSUME Provider(file)' = Provider(file), Token(file)' = Token(file), UNCHANGED snapshot,
             Between({"stash"})' <=> Between({"stash"}),
             Between({"truncate", "fill"})' <=> Between({"truncate", "fill"}),
             TokenToBe' = TokenToBe
      PROVE  Paired'
  BY <1>3, <1>7 DEF Paired, Provider, Token
<1>8. CASE ApiAct
  <2>1. UNCHANGED <<file, snapshot, worker>> /\ todo["api"] = <<>> BY <1>8, ApiActFacts
  <2>2. TokenToBe = Token(file) BY <2>1 DEF TokenToBe
  <2>3. todo'["api"] # <<>> => Block("api")'.op # "token" BY <1>8, FirstBlock
  <2>4. TokenToBe' = Token(file) BY <2>1, <2>3 DEF TokenToBe, Token
  <2>5. QED BY <1>7, <2>1, <2>2, <2>4 DEF Between, Provider, Token
<1>9. CASE Rebuild BY <1>7, <1>9 DEF Rebuild, files, Between, Provider, Token, TokenToBe, Block
<1>10. CASE WorkerAct
  <2>1. todo'["api"] = todo["api"] BY <1>10, WorkerActFacts
  <2>2. Token(file)' = Token(file) => TokenToBe' = TokenToBe BY <2>1 DEF TokenToBe, Block, Token
  <2>3. CASE Truncate
    <3>1. /\ worker.pc = "truncate" /\ file' = [file EXCEPT ![Copied[worker.n]].whole = FALSE]
          /\ UNCHANGED snapshot /\ worker' = [worker EXCEPT !.pc = "fill"]
      BY <2>3, TruncateFacts
    <3>2. worker'.pc = "fill" /\ worker'.n = worker.n BY <1>4, <3>1 DEF WorkerTyped
    <3>3. file'["userdata"].data = file["userdata"].data
          /\ file'["secrets"].data = file["secrets"].data
      BY <1>4, <1>5, <3>1 DEF Stored
    <3>4. QED BY <1>7, <2>2, <3>1, <3>2, <3>3 DEF Between, Provider, Token
  <2>4. CASE Fill
    <3> DEFINE f == Copied[worker.n]
    <3>1. /\ worker.pc = "fill" /\ UNCHANGED snapshot
          /\ file'[f].data = snapshot[f].data /\ \A g \in Files : g # f => file'[g] = file[g]
          /\ \/ worker.n = 1 /\ worker' = [worker EXCEPT !.pc = "truncate", !.n = 2]
             \/ worker.n = 2 /\ worker' = [worker EXCEPT !.pc = "relocate",
                                                         !.left = MovableServices]
      BY <2>4, FillFacts
    <3>2. todo["api"] = <<>> BY <1>2, <3>1, QuietCopy DEF Copying
    <3>3. TokenToBe' = Token(file)' BY <2>1, <3>2 DEF TokenToBe
    <3>4. CASE worker.n = 1
      <4>1. worker'.pc = "truncate" /\ worker'.n = 2
        <5>1. worker' = [worker EXCEPT !.pc = "truncate", !.n = 2] BY <3>1, <3>4
        <5>2. QED BY <1>4, <5>1 DEF WorkerTyped
      <4>2. Provider(file)' = Provider(snapshot) BY <3>1, <3>4, ProcFacts DEF Provider
      <4>3. Provider(snapshot) = Token(snapshot) BY <1>3, <3>1 DEF Paired, Between
      <4>4. QED BY <3>1, <4>1, <4>2, <4>3 DEF Paired, Between, Provider, Token
    <3>5. CASE worker.n = 2
      <4>1. worker'.pc = "relocate"
        <5>1. worker' = [worker EXCEPT !.pc = "relocate", !.left = MovableServices]
          BY <3>1, <3>5
        <5>2. QED BY <1>4, <5>1 DEF WorkerTyped
      <4>2. Token(file)' = Token(snapshot) BY <3>1, <3>5, ProcFacts DEF Token
      <4>3. Provider(file)' = Provider(file) BY <1>5, <3>1, <3>5, ProcFacts DEF Provider
      <4>4. Provider(file) = Token(snapshot) /\ Provider(snapshot) = Token(snapshot)
        BY <1>3, <3>1, <3>5 DEF Paired, Between
      <4>5. QED BY <3>1, <3>3, <4>1, <4>2, <4>3, <4>4 DEF Paired, Between, Provider, Token
    <3>6. QED BY <3>1, <3>4, <3>5
  <2>5. CASE Stash
    <3> DEFINE f == Copied[worker.n]
    <3>1. /\ worker.pc = "stash" /\ f \in Files /\ UNCHANGED file
          /\ snapshot' = [snapshot EXCEPT ![f] = file[f]]
          /\ \/ worker.n = 1 /\ worker' = [worker EXCEPT !.n = 2]
             \/ worker.n = 2 /\ worker' = Rest
      BY <2>5, StashFacts
    <3>2. TokenToBe = Token(file) BY <1>2, <3>1, QuietCopy DEF Copying
    <3>3. Provider(file) = Token(file) BY <1>3, <3>1, <3>2 DEF Paired, Between
    <3>4. TokenToBe' = Token(file) BY <2>2, <3>1, <3>2 DEF Token
    <3> HIDE DEF f
    <3>5. \A g \in Files : snapshot'[g] = IF g = f THEN file[f] ELSE snapshot[g]
      BY <1>4, <3>1 DEF Stored
    <3>6. CASE worker.n = 1
      <4>1. worker'.pc = "stash" /\ worker'.n = 2 BY <1>4, <3>1, <3>6 DEF WorkerTyped
      <4>2. Provider(snapshot)' = Provider(file)
        BY <1>5, <3>5, <3>6, ProcFacts DEF Provider, f
      <4>3. QED BY <3>1, <3>3, <3>4, <4>1, <4>2 DEF Paired, Between, Provider, Token
    <3>7. CASE worker.n = 2
      <4>1. worker'.pc = "idle" BY <3>1, <3>7, RestFacts
      <4>2. Provider(snapshot)' = Provider(snapshot) /\ Token(snapshot)' = Token(file)
        BY <1>5, <3>5, <3>7, ProcFacts DEF Provider, Token, f
      <4>3. Provider(snapshot) = Token(file) BY <1>3, <3>1, <3>7 DEF Paired, Between
      <4>4. QED BY <3>1, <3>3, <3>4, <4>1, <4>2, <4>3 DEF Paired, Between, Provider, Token
    <3>8. QED BY <3>1, <3>6, <3>7
  <2>6. CASE UNCHANGED <<file, snapshot>> /\ worker.pc \notin {"stash", "truncate", "fill"}
    <3>1. worker'.pc \in {"stash", "truncate", "fill"} => worker'.n = 1
      <4>1. ASSUME NEW pc \in {"stash", "locate"}, Take(pc) PROVE worker'.n = 1
        <5>1. worker.pc = "idle" /\ worker' = [worker EXCEPT !.pc = pc]
          BY <4>1 DEF Take, Step
        <5>2. worker.n = 1 BY <1>6, <5>1 DEF WorkerTurn
        <5>3. QED BY <1>4, <5>1, <5>2 DEF WorkerTyped
      <4>2. ASSUME NEW s \in Services, NEW v \in Volumes, MoveEnds(s, v)
            PROVE  worker'.pc = "save"
        BY <1>4, <4>2, MoveEndsFacts DEF WorkerTyped
      <4>3. CASE Locate
        <5>1. worker.pc = "locate" /\ (worker' = Rest \/ worker'.n = worker.n)
          BY <4>3, LocateFacts
        <5>2. QED BY <1>6, <5>1, RestFacts DEF WorkerTurn
      <4>4. CASE TaskEnds BY <4>4, RestFacts DEF TaskEnds
      <4>5. ASSUME NEW s \in Services, Relocate(s) PROVE worker'.pc \in {"idle", "relocate", "save"}
        <5>1. worker.pc = "relocate"
              /\ \/ worker' = Rest \/ worker' = [worker EXCEPT !.left = worker.left \ {s}]
                 \/ worker' = [worker EXCEPT !.pc = "save", !.left = worker.left \ {s}]
          BY <4>5, RelocateFacts
        <5>2. QED BY <1>4, <5>1, RestFacts DEF WorkerTyped
      <4>6. CASE Stash \/ Truncate \/ Fill
        BY <2>6, <4>6, StashFacts, TruncateFacts, FillFacts
      <4>7. QED BY <1>10, <4>1, <4>2, <4>3, <4>4, <4>5, <4>6 DEF WorkerAct
    <3>2. QED BY <1>7, <2>2, <2>6, <3>1 DEF Between, Provider, Token
  <2>7. QED BY <1>10, <2>3, <2>4, <2>5, <2>6, CopyOrNot
<1>11. ASSUME NEW p \in Procs, Write(p) PROVE Paired'
  <2>1. UNCHANGED snapshot /\ todo[p] # <<>>
    BY <1>11, BeginFacts, RefuseFacts, DumpFacts, FinishFacts DEF Write
  <2>2. ~Copying(worker) BY <1>2, <2>1, QuietCopy DEF Procs
  <2>3. worker'.pc \notin {"stash", "truncate", "fill"}
    <3>1. CASE UNCHANGED worker BY <2>2, <3>1 DEF Copying
    <3>2. ASSUME NEW pc \in {"done", "failed"}, Ends(p, pc)
          PROVE  worker'.pc \notin {"stash", "truncate", "fill"}
      <4>1. UNCHANGED worker \/ worker' = [worker EXCEPT !.pc = "relocate"] \/ worker' = Rest
        BY <3>2, EndsFacts DEF Procs
      <4>2. QED BY <1>4, <3>1, <4>1, RestFacts DEF WorkerTyped
    <3>3. UNCHANGED worker \/ \E pc \in {"done", "failed"} : Ends(p, pc)
      BY <1>11, BeginFacts, RefuseFacts, DumpFacts, FinishFacts DEF Write
    <3>4. QED BY <3>1, <3>2, <3>3
  <2>4. /\ ~Between({"stash"}) /\ ~Between({"truncate", "fill"})
        /\ ~Between({"stash"})' /\ ~Between({"truncate", "fill"})'
    BY <2>2, <2>3 DEF Between, Copying
  <2>5. Provider(snapshot)' = Token(snapshot)' BY <1>3, <2>1, <2>4 DEF Paired, Provider, Token
  <2>6. Provider(file) = TokenToBe BY <1>3, <2>4 DEF Paired
  <2>7. SUFFICES Provider(file)' = TokenToBe' BY <2>4, <2>5 DEF Paired
  <2>8. CASE Begin(p)
    <3>1. UNCHANGED <<file, todo>> BY <1>2, <2>8, FindsWhole
    <3>2. QED BY <2>6, <3>1 DEF Provider, TokenToBe, Token, Block
  <2>9. CASE Refuse(p)
    <3>1. /\ UNCHANGED file /\ Block(p).op \in {"add key", "remove key"}
          /\ todo' = [todo EXCEPT ![p] = <<>>]
      BY <2>9, RefuseFacts, EndsFacts
    <3>2. p = "api"
      <4>1. p = "worker" => Block(p).op = "location" BY <1>6, <2>1 DEF WorkerTurn
      <4>2. QED BY <3>1, <4>1 DEF Procs
    <3>3. todo'["api"] = <<>> /\ Block("api").op # "token" BY <1>4, <3>1, <3>2
    <3>4. QED BY <2>6, <3>1, <3>3 DEF Provider, TokenToBe, Token
  <2>10. CASE Dump(p)
    <3>1. /\ UNCHANGED todo /\ writer[p].file \in Files
          /\ file' = [file EXCEPT ![writer[p].file].whole = FALSE]
      BY <2>10, DumpFacts
    <3>2. \A f \in Files : file'[f].data = file[f].data BY <1>4, <3>1 DEF Stored
    <3>3. file'["userdata"].data = file["userdata"].data
          /\ file'["secrets"].data = file["secrets"].data
      BY <1>5, <3>2
    <3>4. QED BY <2>6, <3>1, <3>3 DEF Provider, TokenToBe, Token, Block
  <2>11. CASE Finish(p)
    <3> DEFINE w == Block(p)
               d == file["userdata"].data
    <3>1. /\ w \in Writes /\ (w.op # "token" <=> writer[p].file = "userdata")
          /\ writer[p].file \in Files
          /\ file'[writer[p].file].data = Apply(w, file[writer[p].file].data)
          /\ \A g \in Files : g # writer[p].file => file'[g] = file[g]
          /\ p = "worker" => w.op = "location"
      BY <1>2, <2>11, FinishChanges
    <3>2. p = "worker" => todo'["api"] = todo["api"]
      <4>1. todo' = [todo EXCEPT ![p] = <<>>] \/ p = "api" BY <2>11, FinishFacts, EndsFacts
      <4>2. QED BY <1>4, <1>5, <4>1
    <3>3. CASE w.op = "token"
      <4>1. p = "api" BY <3>1, <3>3 DEF Procs
      <4>2. writer[p].file = "secrets" BY <3>1, <3>3 DEF Files
      <4>3. file'["secrets"].data = w.provider /\ file'["userdata"] = file["userdata"]
        BY <1>5, <3>1, <3>3, <4>2 DEF Apply
      <4>4. todo'["api"] = <<>>
        <5>1. todo'["api"] # <<>> => Block("api").op \in {"place", "provider"}
          BY <2>11, <4>1, NextBlock
        <5>2. QED BY <3>3, <4>1, <5>1
      <4>5. TokenToBe = w.provider BY <2>1, <3>3, <4>1 DEF TokenToBe
      <4>6. QED BY <2>6, <4>3, <4>4, <4>5 DEF TokenToBe, Token, Provider
    <3>4. CASE w.op # "token"
      <4>1. /\ file'["userdata"].data = Apply(w, d) /\ file'["secrets"] = file["secrets"]
        BY <1>5, <3>1, <3>4
      <4>2. w \in Writes /\ Plain(d) BY <1>4, <3>1 DEF Stored
      <4> HIDE DEF d
      <4>3. CASE w.op = "provider"
        <5>1. p = "api" BY <3>1, <4>3 DEF Procs
        <5>2. Apply(w, d).provider = w.provider BY <3>4, <4>2, <4>3, ApplyFacts
        <5>3. todo'["api"] # <<>>
          <6>1. Len(todo["api"]) # 1 BY <1>6, <2>1, <4>3, <5>1 DEF ApiTurn
          <6>2. /\ Len(todo["api"]) = 2 /\ todo' = [todo EXCEPT !["api"] = Tail(@)]
            BY <2>11, <5>1, <6>1, FinishFacts
          <6>3. Tail(todo["api"]) # <<>> BY <1>4, <1>5, <2>1, <5>1, <6>2, BlockFacts
          <6>4. QED BY <1>4, <1>5, <6>2, <6>3
        <5>4. Block("api")' = [op |-> "token", provider |-> w.provider]
          BY <2>11, <4>3, <5>1, <5>3, NextBlock
        <5>5. Block("api")'.op = "token" /\ Block("api")'.provider = w.provider BY <5>4
        <5>6. TokenToBe' = w.provider BY <5>3, <5>5 DEF TokenToBe
        <5>7. QED BY <4>1, <5>2, <5>6 DEF Provider
      <4>4. CASE w.op # "provider"
        <5>1. Apply(w, d).provider = d.provider BY <3>4, <4>2, <4>4, ApplyFacts
        <5>2. CASE p = "api"
          <6>1. TokenToBe = Token(file) BY <3>4, <5>2 DEF TokenToBe
          <6>2. todo'["api"] # <<>> => Block("api")'.op # "token"
            <7>1. ASSUME todo'["api"] # <<>> PROVE Block("api")'.op = "enable"
              <8>1. /\ Block("api").op \in {"place", "provider"}
                    /\ Block("api").op = "place" => Block("api")'.op = "enable"
                BY <2>11, <5>2, <7>1, NextBlock
              <8>2. QED BY <4>4, <5>2, <8>1
            <7>2. QED BY <7>1
          <6>3. TokenToBe' = Token(file) BY <4>1, <6>2 DEF TokenToBe, Token
          <6>4. QED BY <2>6, <4>1, <5>1, <6>1, <6>3 DEF Provider, d
        <5>3. CASE p = "worker"
          <6>1. TokenToBe' = TokenToBe BY <3>2, <4>1, <5>3 DEF TokenToBe, Block, Token
          <6>2. QED BY <2>6, <4>1, <5>1, <6>1 DEF Provider, d
        <5>4. QED BY <5>2, <5>3 DEF Procs
      <4>5. QED BY <4>3, <4>4
    <3>5. QED BY <3>3, <3>4
  <2>12. QED BY <1>11, <2>8, <2>9, <2>10, <2>11 DEF Write
<1>12. ASSUME NEW p \in Procs, Crash(p) PROVE Paired'
  BY <1>1, <1>2, <1>12, CrashFacts
<1>13. QED BY <1>8, <1>9, <1>10, <1>11, <1>12, ActFacts

-----------------------------------------------------------------------------
(* The services go back to their volumes                                     *)

\* What the API writes of a service, a place among it, leaves its volume.
LEMMA ApplyKeepsDrive ==
    ASSUME NEW w \in Writes, w.op \notin {"token", "location"}, NEW d, Plain(d), NEW s \in Services
    PROVE  GetDrive(Apply(w, d), s) = GetDrive(d, s)
<1>1. d.location \in [Services -> Volumes \cup {None}] BY DEF Plain
<1>2. CASE w.op # "place"
  <2>1. Apply(w, d).location = d.location BY <1>2, ApplyFacts
  <2>2. QED BY <2>1 DEF GetDrive
<1>3. CASE w.op = "place"
  <2>1. Apply(w, d).location = [d.location EXCEPT ![w.service] = IF @ = None THEN Root ELSE @]
    BY <1>3, ApplyFacts
  <2>2. Apply(w, d).location[s]
          = IF s = w.service /\ d.location[s] = None THEN Root ELSE d.location[s]
    BY <1>1, <2>1
  <2>3. QED BY <2>2 DEF GetDrive
<1>4. QED BY <1>2, <1>3

\* What the worker writes puts one service where it says.
LEMMA ApplyMoves ==
    ASSUME NEW w \in Writes, w.op = "location", NEW d, Plain(d), NEW s \in Services, SameNames
    PROVE  /\ s # w.service => GetDrive(Apply(w, d), s) = GetDrive(d, s)
           /\ s = w.service /\ s \in Movable => GetDrive(Apply(w, d), s) = w.volume
<1>1. d.location \in [Services -> Volumes \cup {None}] BY DEF Plain
<1>2. w.op # "token" OBVIOUS
<1>3. /\ w.service \in Services /\ w.volume \in Volumes
      /\ Apply(w, d).location = [d.location EXCEPT ![w.service] = KernelName[w.volume]]
  BY <1>2, ApplyFacts
<1>4. KernelName[w.volume] = w.volume /\ w.volume # None BY <1>3, SettingsAssumption DEF SameNames
<1>5. Apply(w, d).location[s] = IF s = w.service THEN w.volume ELSE d.location[s]
  BY <1>1, <1>3, <1>4
<1>6. QED BY <1>4, <1>5 DEF GetDrive

\* A service is where it was, and what the API is about to write has it there.
Back(s) ==
    /\ GetDrive(file["userdata"].data, s) = worker.drives[s]
    /\ writer["api"].file = "userdata" => GetDrive(writer["api"].data, s) = worker.drives[s]

Placed ==
    /\ worker.was = worker.drives /\ DOMAIN worker.drives \subseteq Movable
    /\ worker.pc \in {"idle", "stash", "locate"} => DOMAIN worker.drives = {}
    /\ worker.pc \in {"truncate", "fill"} => DOMAIN worker.drives \subseteq defined
    /\ worker.pc = "save" => \A s \in DOMAIN worker.drives :
         s = Block("worker").service => worker.drives[s] = Block("worker").volume
    /\ worker.pc \in {"relocate", "save"} => \A s \in DOMAIN worker.drives \ worker.left :
         (worker.pc = "save" /\ s = Block("worker").service) \/ Back(s)

LEMMA PlacesParts == PlacesInv <=> (coincidences = 0 /\ ~overlapped /\ SameNames => Placed)
BY DEF PlacesInv, Placed, Back

LEMMA PlacesPartsNext ==
    PlacesInv' <=> (coincidences' = 0 /\ ~overlapped' /\ SameNames => Placed')
BY DEF PlacesInv, Placed, Back, SameNames

\* A worker at rest has nothing to put back.
LEMMA RestIsPlaced == worker' = Rest => Placed'
BY RestFacts DEF Placed

LEMMA PlacesStep ==
    ASSUME TypeOK, TurnInv, HeldInv, CacheInv, FlakeInv, PlacesInv, Next
    PROVE  PlacesInv'
<1>1. SUFFICES ASSUME coincidences' = 0, ~overlapped', SameNames PROVE Placed'
  BY PlacesPartsNext
<1>2. ~overlapped /\ coincidences = 0 BY <1>1, NextFacts, CountsGrow
<1>3. Placed BY <1>1, <1>2, PlacesParts
<1>4. /\ Stored(file) /\ WriterTyped /\ WorkerTyped /\ FlakeTyped
      /\ todo \in [Procs -> Seq(Writes)]
  BY TypeParts
<1>5. /\ "userdata" \in Files /\ "api" \in Procs /\ "worker" \in Procs /\ "api" # "worker"
      /\ "userdata" # None
  BY NoWriterFacts DEF Files, Procs
<1>6. WorkerTurn /\ ApiTurn BY TurnParts
<1>7. /\ DOMAIN worker.drives \subseteq Services
      /\ \A s \in DOMAIN worker.drives : worker.drives[s] \in Volumes
  BY <1>4 DEF WorkerTyped, Places
\* What leaves the worker and its block where they are, and every service.
<1>8. ASSUME UNCHANGED worker, todo'["worker"] = todo["worker"], defined \subseteq defined',
             \A s \in DOMAIN worker.drives : Back(s) =>
               /\ GetDrive(file'["userdata"].data, s) = worker.drives[s]
               /\ writer'["api"].file = "userdata" =>
                    GetDrive(writer'["api"].data, s) = worker.drives[s]
      PROVE  Placed'
  BY <1>3, <1>8 DEF Placed, Back, Block
<1>9. CASE ApiAct
  <2>1. UNCHANGED <<file, writer, worker, defined>> /\ todo'["worker"] = todo["worker"]
    BY <1>9, ApiActFacts
  <2>2. QED BY <1>8, <2>1 DEF Back
<1>10. CASE Rebuild
  <2>1. UNCHANGED <<file, writer, worker, todo>> /\ defined' = {s \in Services : Installed(s)}
    BY <1>10 DEF Rebuild, files
  <2>2. defined \subseteq defined' BY <1>2, <1>4, <2>1 DEF FlakeInv, FlakeTyped
  <2>3. QED BY <1>8, <2>1, <2>2 DEF Back
<1>11. CASE WorkerAct
  <2>1. UNCHANGED defined BY <1>11, WorkerActFacts
  <2>2. ASSUME NEW pc \in {"stash", "locate"}, Take(pc) PROVE Placed'
    <3>1. worker.pc = "idle" /\ worker' = [worker EXCEPT !.pc = pc] BY <2>2 DEF Take, Step
    <3>2. worker'.pc = pc /\ worker'.was = worker.was /\ worker'.drives = worker.drives
      BY <1>4, <3>1 DEF WorkerTyped
    <3>3. QED BY <1>3, <3>1, <3>2 DEF Placed
  <2>3. ASSUME NEW s \in Services, NEW v \in Volumes, MoveEnds(s, v) PROVE Placed'
    <3>1. worker.pc = "idle" /\ worker' = [worker EXCEPT !.pc = "save"] BY <2>3, MoveEndsFacts
    <3>2. worker'.pc = "save" /\ worker'.was = worker.was /\ worker'.drives = worker.drives
      BY <1>4, <3>1 DEF WorkerTyped
    <3>3. QED BY <1>3, <3>1, <3>2 DEF Placed
  <2>4. CASE Stash
    <3>1. worker.pc = "stash" /\ (worker' = [worker EXCEPT !.n = 2] \/ worker' = Rest)
      BY <2>4, StashFacts
    <3>2. CASE worker' = [worker EXCEPT !.n = 2]
      <4>1. worker'.pc = "stash" /\ worker'.was = worker.was /\ worker'.drives = worker.drives
        BY <1>4, <3>1, <3>2 DEF WorkerTyped
      <4>2. QED BY <1>3, <3>1, <4>1 DEF Placed
    <3>3. QED BY <3>1, <3>2, RestIsPlaced
  <2>5. CASE Locate
    <3> DEFINE d == file["userdata"].data
    <3>1. CASE /\ worker'.pc = "truncate"
               /\ worker'.was = [s \in MovableServices |-> GetDrive(Reading("worker"), s)]
               /\ worker'.drives = [s \in MovableServices |-> GetDrive(d, s)]
      <4>1. Reading("worker") = d BY <1>2, <1>5, ReadsCurrent
      <4>2. MovableServices \subseteq Movable /\ MovableServices \subseteq defined
        BY DEF MovableServices
      <4> HIDE DEF d
      <4>3. worker'.was = worker'.drives /\ DOMAIN worker'.drives = MovableServices
        BY <3>1, <4>1
      <4>4. QED BY <2>1, <3>1, <4>2, <4>3 DEF Placed
    <3>2. QED BY <2>5, <3>1, RestIsPlaced, LocateFacts
  <2>6. CASE Truncate
    <3>1. worker.pc = "truncate" /\ worker' = [worker EXCEPT !.pc = "fill"]
      BY <2>6, TruncateFacts
    <3>2. worker'.pc = "fill" /\ worker'.was = worker.was /\ worker'.drives = worker.drives
      BY <1>4, <3>1 DEF WorkerTyped
    <3>3. QED BY <1>3, <2>1, <3>1, <3>2 DEF Placed
  <2>7. CASE Fill
    <3>1. /\ worker.pc = "fill"
          /\ \/ worker' = [worker EXCEPT !.pc = "truncate", !.n = 2]
             \/ worker' = [worker EXCEPT !.pc = "relocate", !.left = MovableServices]
      BY <2>7, FillFacts
    <3>2. CASE worker' = [worker EXCEPT !.pc = "truncate", !.n = 2]
      <4>1. worker'.pc = "truncate" /\ worker'.was = worker.was /\ worker'.drives = worker.drives
        BY <1>4, <3>2 DEF WorkerTyped
      <4>2. QED BY <1>3, <2>1, <3>1, <4>1 DEF Placed
    <3>3. CASE worker' = [worker EXCEPT !.pc = "relocate", !.left = MovableServices]
      <4> DEFINE left == MovableServices
      <4>1. DOMAIN worker.drives \subseteq left BY <1>3, <3>1 DEF Placed, MovableServices
      <4> HIDE DEF left
      <4>2. worker' = [worker EXCEPT !.pc = "relocate", !.left = left] BY <3>3 DEF left
      <4>3. /\ worker'.pc = "relocate" /\ worker'.was = worker.was
            /\ worker'.drives = worker.drives /\ worker'.left = left
        BY <1>4, <4>2 DEF WorkerTyped
      <4>4. QED BY <1>3, <4>1, <4>3 DEF Placed
    <3>4. QED BY <3>1, <3>2, <3>3
  <2>8. CASE TaskEnds BY <2>8, RestIsPlaced DEF TaskEnds
  <2>9. ASSUME NEW s \in Services, Relocate(s) PROVE Placed'
    <3>1. worker.pc = "relocate" /\ UNCHANGED <<file, writer>> BY <2>9, RelocateFacts
    <3>2. CASE s \in DOMAIN worker.was => worker.was[s] \notin Volumes
      <4>1. s \notin DOMAIN worker.was BY <1>3, <1>7, <3>2 DEF Placed
      <4>2. worker' = Rest BY <2>9, <4>1 DEF Relocate
      <4>3. QED BY <4>2, RestIsPlaced
    <3>3. CASE /\ s \in DOMAIN worker.was /\ worker.was[s] \in Volumes
               /\ worker' = [worker EXCEPT !.pc = "save", !.left = worker.left \ {s}]
               /\ todo' = [todo EXCEPT !["worker"] =
                      <<[op |-> "location", service |-> s, volume |-> worker.was[s]]>>]
      <4> DEFINE w == [op |-> "location", service |-> s, volume |-> worker.was[s]]
      <4>1. w.service = s /\ w.volume = worker.was[s] OBVIOUS
      <4>2. todo' = [todo EXCEPT !["worker"] = <<w>>] BY <3>3
      <4> HIDE DEF w
      <4>3. todo'["worker"] = <<w>> BY <1>4, <1>5, <4>2
      <4>4. Block("worker")' = w BY <4>3 DEF Block
      <4>5. /\ worker'.pc = "save" /\ worker'.was = worker.was /\ worker'.drives = worker.drives
            /\ worker'.left = worker.left \ {s}
        BY <1>4, <3>3 DEF WorkerTyped
      <4>6. \A t \in DOMAIN worker'.drives \ worker'.left : t = s \/ Back(t)
        BY <1>3, <3>1, <4>5 DEF Placed
      <4>7. \A t \in DOMAIN worker'.drives : Back(t) => Back(t)'
        BY <3>1, <4>5 DEF Back
      <4>8. /\ worker'.was = worker'.drives /\ DOMAIN worker'.drives \subseteq Movable
            /\ worker.was = worker.drives
        BY <1>3, <4>5 DEF Placed
      <4>9. QED BY <4>1, <4>4, <4>5, <4>6, <4>7, <4>8 DEF Placed
    <3>4. CASE worker' = Rest BY <3>4, RestIsPlaced
    <3>5. QED BY <2>9, <3>2, <3>3, <3>4, RelocateFacts
  <2>10. QED BY <1>11, <2>2, <2>3, <2>4, <2>5, <2>6, <2>7, <2>8, <2>9 DEF WorkerAct
<1>12. ASSUME NEW p \in Procs, Write(p) \/ Crash(p) PROVE Placed'
  <2>1. UNCHANGED defined BY <1>12, WriteChanges
  <2>2. CASE p = "api"
    <3>1. UNCHANGED worker BY <1>12, <2>2, WriteChanges
    <3>2. todo'["worker"] = todo["worker"]
      <4>1. \/ UNCHANGED todo \/ todo' = [todo EXCEPT ![p] = <<>>]
            \/ todo' = [todo EXCEPT ![p] = Tail(@)]
        BY <1>12, BeginFacts, RefuseFacts, DumpFacts, FinishFacts, CrashFacts, EndsFacts DEF Write
      <4>2. QED BY <1>4, <1>5, <2>2, <4>1
    <3>3. ASSUME NEW s \in DOMAIN worker.drives, Back(s)
          PROVE  /\ GetDrive(file'["userdata"].data, s) = worker.drives[s]
                 /\ writer'["api"].file = "userdata" =>
                      GetDrive(writer'["api"].data, s) = worker.drives[s]
      <4>1. s \in Services BY <1>7
      <4>2. CASE Finish(p)
        <5> DEFINE w == Block(p)
                   d == writer[p].data
        <5>1. /\ writer[p].file = FileOf(w) /\ writer[p].file \in Files /\ todo[p] # <<>>
              /\ file'[writer[p].file].data = Apply(w, d)
              /\ \A g \in Files : g # writer[p].file => file'[g] = file[g]
              /\ writer' = [writer EXCEPT ![p] = NoWriter]
          BY <4>2, FinishFacts
        <5>2. writer'["api"].file # "userdata"
          BY <1>4, <1>5, <2>2, <5>1, NoWriterFacts DEF WriterTyped
        <5>3. w \in Writes /\ (FileOf(w) = "userdata" <=> w.op # "token")
          BY <1>4, <5>1, BlockFacts
        <5>4. w.op # "location" BY <1>6, <2>2, <5>1 DEF ApiTurn
        <5>5. CASE writer[p].file = "userdata"
          <6>1. Plain(d) BY <1>4, <5>5 DEF WriterTyped
          <6>2. GetDrive(d, s) = worker.drives[s] BY <2>2, <3>3, <5>5 DEF Back
          <6>3. w.op \notin {"token", "location"} BY <5>1, <5>3, <5>4, <5>5
          <6> HIDE DEF w, d
          <6>4. GetDrive(Apply(w, d), s) = GetDrive(d, s)
            BY <4>1, <5>3, <6>1, <6>3, ApplyKeepsDrive
          <6>5. QED BY <5>1, <5>2, <5>5, <6>2, <6>4
        <5>6. CASE writer[p].file # "userdata"
          <6>1. file'["userdata"] = file["userdata"] BY <1>5, <5>1, <5>6
          <6>2. QED BY <3>3, <5>2, <6>1 DEF Back
        <5>7. QED BY <5>5, <5>6
      <4>3. CASE ~Finish(p)
        <5>1. file'["userdata"].data = file["userdata"].data
          BY <1>5, <1>12, <4>3, WriteChanges
        <5>2. writer'["api"].file = "userdata" =>
                writer'["api"].data \in {writer["api"].data, file["userdata"].data}
                /\ (writer["api"].file = "userdata" \/ writer'["api"].data = file["userdata"].data)
          <6>1. CASE Begin(p)
            <7> DEFINE f == FileOf(Block(p))
                       w == [NoWriter EXCEPT !.file = f, !.data = file[f].data]
            <7>1. UNCHANGED writer \/ writer' = [writer EXCEPT ![p] = w] BY <6>1, BeginFacts
            <7>2. w.file = f /\ w.data = file[f].data BY DEF NoWriter
            <7> HIDE DEF w, f
            <7>3. QED BY <1>4, <1>5, <2>2, <7>1, <7>2 DEF WriterTyped
          <6>2. CASE Refuse(p) \/ Crash(p)
            <7>1. writer' = [writer EXCEPT ![p] = NoWriter] BY <6>2, RefuseFacts, CrashFacts
            <7>2. QED BY <1>4, <1>5, <2>2, <7>1, NoWriterFacts DEF WriterTyped
          <6>3. CASE Dump(p)
            <7>1. writer' = [writer EXCEPT ![p].dumped = TRUE] BY <6>3, DumpFacts
            <7>2. QED BY <1>4, <1>5, <2>2, <7>1 DEF WriterTyped
          <6>4. QED BY <1>12, <4>3, <6>1, <6>2, <6>3 DEF Write
        <5>3. QED BY <3>3, <5>1, <5>2 DEF Back
      <4>4. QED BY <4>2, <4>3
    <3>4. QED BY <1>8, <2>1, <3>1, <3>2, <3>3
  <2>3. CASE p = "worker"
    <3>1. CASE Refuse(p) \/ Crash(p)
      <4>1. Refuse(p) => worker' = Rest
        <5>1. Refuse(p) => Ends(p, "failed") BY RefuseFacts
        <5>2. Ends(p, "failed") => worker' = Rest BY <2>3, <1>5 DEF Ends
        <5>3. QED BY <5>1, <5>2
      <4>2. QED BY <2>3, <3>1, <4>1, RestIsPlaced, CrashFacts
    <3>2. ASSUME UNCHANGED <<worker, todo>>, file'["userdata"].data = file["userdata"].data
          PROVE  Placed'
      <4>1. writer'["api"] = writer["api"] BY <1>5, <1>12, <2>3, WriteChanges
      <4>2. QED BY <1>8, <2>1, <3>2, <4>1 DEF Back
    <3>3. CASE Begin(p)
      <4>1. UNCHANGED file /\ (Ends(p, "failed") \/ UNCHANGED <<todo, worker>>)
        BY <3>3, BeginFacts
      <4>2. Ends(p, "failed") => worker' = Rest BY <2>3, <1>5 DEF Ends
      <4>3. QED BY <3>2, <4>1, <4>2, RestIsPlaced
    <3>4. CASE Dump(p)
      <4>1. UNCHANGED <<todo, worker>> BY <3>4, DumpFacts
      <4>2. file'["userdata"].data = file["userdata"].data \/ Finish(p)
        BY <1>5, <1>12, WriteChanges
      <4>3. ~Finish(p) BY <3>4, FinishFacts DEF Dump
      <4>4. QED BY <3>2, <4>1, <4>2, <4>3
    <3>5. CASE Finish(p)
      <4> DEFINE w == Block(p)
                 d == file["userdata"].data
      <4>1. /\ w \in Writes /\ writer[p].file = "userdata" /\ w.op = "location"
            /\ file'["userdata"].data = Apply(w, d)
        BY <2>3, <3>5, FinishChanges
      <4>2. Plain(d) BY <1>4 DEF Stored
      <4>3. writer'["api"].file # "userdata"
        <5>1. writer'["api"] = writer["api"] BY <1>5, <1>12, <2>3, WriteChanges
        <5>2. writer["api"].file # "userdata"
          BY <1>5, <2>3, <4>1, HolderFacts
        <5>3. QED BY <5>1, <5>2
      <4>4. worker.pc = "save" /\ worker' = [worker EXCEPT !.pc = "relocate"]
        <5>1. todo["worker"] # <<>> BY <2>3, <3>5, FinishFacts
        <5>2. Len(todo["worker"]) = 1 /\ worker.pc = "save" BY <1>6, <5>1 DEF WorkerTurn
        <5>3. Ends(p, "done") BY <2>3, <3>5, <1>5, FinishFacts
        <5>4. QED BY <2>3, <5>2, <5>3, EndsFacts
      <4>5. /\ worker'.pc = "relocate" /\ worker'.was = worker.was
            /\ worker'.drives = worker.drives /\ worker'.left = worker.left
        BY <1>4, <4>4 DEF WorkerTyped
      <4> HIDE DEF d
      <4>6. ASSUME NEW s \in DOMAIN worker.drives \ worker.left
            PROVE  GetDrive(file'["userdata"].data, s) = worker.drives[s]
        <5>1. s \in Services /\ s \in Movable BY <1>3, <1>7 DEF Placed
        <5>2. /\ s # w.service => GetDrive(Apply(w, d), s) = GetDrive(d, s)
              /\ s = w.service => GetDrive(Apply(w, d), s) = w.volume
          <6> HIDE DEF w
          <6>1. QED BY <1>1, <4>1, <4>2, <5>1, ApplyMoves
        <5>3. s = w.service => w.volume = worker.drives[s] BY <1>3, <2>3, <4>4 DEF Placed
        <5>4. s # w.service => GetDrive(d, s) = worker.drives[s]
          BY <1>3, <2>3, <4>4 DEF Placed, Back, d
        <5>5. QED BY <4>1, <5>2, <5>3, <5>4
      <4>7. QED BY <1>3, <4>3, <4>5, <4>6 DEF Placed, Back
    <3>6. QED BY <1>12, <3>1, <3>3, <3>4, <3>5 DEF Write
  <2>4. QED BY <2>2, <2>3 DEF Procs
<1>13. QED BY <1>9, <1>10, <1>11, <1>12, ActFacts

-----------------------------------------------------------------------------
(* The theorems                                                              *)

\* In the beginning nothing is under way, and the files are sound.
LEMMA InitFacts ==
    ASSUME Init
    PROVE  /\ Stored(file) /\ Stored(snapshot)
           /\ Distinct(file["userdata"].data) /\ Distinct(snapshot["userdata"].data)
           /\ file["userdata"].data.provider = file["secrets"].data
           /\ snapshot["userdata"].data.provider = snapshot["secrets"].data
           /\ \A f \in Files : file[f].whole /\ snapshot[f].whole
           /\ DOMAIN writer = Procs /\ \A p \in Procs : writer[p] = NoWriter
           /\ \A p \in Procs : todo[p] = <<>> /\ cache[p] = None /\ ~coincided[p]
           /\ req = <<>> /\ DOMAIN req = {} /\ worker = Rest
           /\ FlakeTyped /\ \A s \in Services : Installed(s) => flake.modules[s] = flake.channel
           /\ \A s \in defined : Installed(s)
<1>1. /\ file = [f \in Files |-> [data |-> Start[f], whole |-> TRUE]]
      /\ snapshot = [f \in Files |-> [data |-> Old[f], whole |-> TRUE]]
  BY DEF Init
<1>2. /\ Plain(Start["userdata"]) /\ Distinct(Start["userdata"])
      /\ Start["userdata"].provider = Start["secrets"]
      /\ Plain(Old["userdata"]) /\ Distinct(Old["userdata"])
      /\ Old["userdata"].provider = Old["secrets"]
  BY FilesAssumption
<1>3. "userdata" \in Files /\ "secrets" \in Files BY DEF Files
<1>4. /\ DOMAIN file = Files /\ DOMAIN snapshot = Files
      /\ \A f \in Files : /\ file[f].data = Start[f] /\ file[f].whole = TRUE
                          /\ DOMAIN file[f] = {"data", "whole"}
                          /\ snapshot[f].data = Old[f] /\ snapshot[f].whole = TRUE
                          /\ DOMAIN snapshot[f] = {"data", "whole"}
  BY <1>1
<1>5. /\ file["userdata"].data = Start["userdata"] /\ file["secrets"].data = Start["secrets"]
      /\ snapshot["userdata"].data = Old["userdata"] /\ snapshot["secrets"].data = Old["secrets"]
  BY <1>3, <1>4
<1>6. Stored(file) /\ Stored(snapshot) BY <1>2, <1>4, <1>5 DEF Stored
<1>7. /\ Distinct(file["userdata"].data) /\ Distinct(snapshot["userdata"].data)
      /\ file["userdata"].data.provider = file["secrets"].data
      /\ snapshot["userdata"].data.provider = snapshot["secrets"].data
  BY <1>2, <1>5
<1>8. /\ DOMAIN writer = Procs /\ \A p \in Procs : writer[p] = NoWriter
      /\ \A p \in Procs : todo[p] = <<>> /\ cache[p] = None /\ ~coincided[p]
      /\ req = <<>> /\ worker = Rest
  BY DEF Init
<1>9. DOMAIN req = {} BY <1>8
<1>10. PICK c \in Channels :
         flake = [channel |-> c, whole |-> TRUE,
                  modules |-> [s \in Services |-> IF s \in Start["userdata"].modules
                                                  THEN c ELSE None]]
  BY DEF Init
<1>11. /\ flake.channel = c /\ flake.modules \in [Services -> {c, None}] /\ flake.whole = TRUE
       /\ defined = {s \in Services : Installed(s)}
  BY <1>10 DEF Init
<1>12. FlakeTyped BY <1>10, <1>11 DEF FlakeTyped
<1>13. QED BY <1>4, <1>6, <1>7, <1>8, <1>9, <1>11, <1>12 DEF Installed

LEMMA SettingsInvInit == Init => SettingsInv
<1> SUFFICES ASSUME Init PROVE SettingsInv OBVIOUS
<1>1. /\ Stored(file) /\ Stored(snapshot)
      /\ DOMAIN writer = Procs /\ \A p \in Procs : writer[p] = NoWriter
      /\ \A p \in Procs : todo[p] = <<>> /\ cache[p] = None /\ ~coincided[p]
      /\ req = <<>> /\ DOMAIN req = {} /\ worker = Rest /\ FlakeTyped
      /\ \A f \in Files : file[f].whole /\ snapshot[f].whole
  BY InitFacts
<1>2. /\ tasks = 0 /\ crashes = 0 /\ coincidences = 0 /\ raced = FALSE /\ overlapped = FALSE
      /\ todo = [p \in Procs |-> <<>>] /\ cache = [p \in Procs |-> None]
      /\ coincided = [p \in Procs |-> FALSE]
  BY DEF Init
<1>3. "api" \in Procs /\ "worker" \in Procs /\ "userdata" \in Files BY DEF Procs, Files
<1>4. todo["api"] = <<>> /\ todo["worker"] = <<>> BY <1>1, <1>3
<1>5. /\ worker.pc = "idle" /\ worker.n = 1 /\ worker.left = {} /\ DOMAIN worker.drives = {}
      /\ worker.was = worker.drives /\ WorkerTyped
  BY <1>1, RestFacts DEF WorkerTyped
<1>6. TypeOK
  <2>1. WriterTyped BY <1>1, NoWriterFacts DEF WriterTyped
  <2>2. CacheTyped BY <1>2 DEF CacheTyped
  <2>3. todo \in [Procs -> Seq(Writes)] /\ req \in Seq(Asked)
    <3>1. <<>> \in Seq(Writes) /\ <<>> \in Seq(Asked) BY EmptySeq
    <3>2. QED BY <1>1, <1>2, <3>1
  <2>4. CountsTyped BY <1>2 DEF CountsTyped
  <2>5. QED BY <1>1, <1>5, <2>1, <2>2, <2>3, <2>4, TypeParts
<1>7. TurnInv
  <2>1. ReqTurn BY <1>1 DEF ReqTurn
  <2>2. SaveTurn BY <1>1, <1>4 DEF SaveTurn, Saving, IdleLoop
  <2>3. WorkerTurn BY <1>4, <1>5 DEF WorkerTurn
  <2>4. ApiTurn BY <1>4 DEF ApiTurn
  <2>5. LockTurn BY <1>1, NoWriterFacts DEF LockTurn
  <2>6. QED BY <2>1, <2>2, <2>3, <2>4, <2>5, TurnParts
<1>8. HeldInv BY <1>1, NoWriterFacts DEF HeldInv
<1>9. RaceInv BY <1>1, <1>4, <1>5, NoWriterFacts DEF RaceInv
<1>10. FilesStayWhole BY <1>1 DEF FilesStayWhole
<1>11. CacheInv BY <1>1 DEF CacheInv, CacheIsCurrent, Hit
<1>12. FlakeInv BY <1>1, InitFacts DEF FlakeInv, Flaking
<1>13. NamesInv BY <1>4, InitFacts DEF NamesInv
<1>14. ProviderInv
  <2>1. Paired BY <1>4, <1>5, InitFacts DEF Paired, Between, Provider, Token, TokenToBe
  <2>2. QED BY <2>1, ProviderParts
<1>15. PlacesInv
  <2>1. Placed BY <1>5 DEF Placed
  <2>2. QED BY <2>1, PlacesParts
<1>16. SubdomainsDistinct BY <1>13 DEF NamesInv, SubdomainsDistinct
<1>17. QED BY <1>6, <1>7, <1>8, <1>9, <1>10, <1>11, <1>12, <1>13, <1>14, <1>15, <1>16,
              FollowsFromFlake DEF SettingsInv

LEMMA SettingsInvStep == SettingsInv /\ [Next]_vars => SettingsInv'
<1>1. ASSUME SettingsInv, Next PROVE SettingsInv'
  <2>1. /\ TypeOK /\ TurnInv /\ HeldInv /\ RaceInv /\ FilesStayWhole /\ CacheInv
        /\ FlakeInv /\ NamesInv /\ ProviderInv /\ PlacesInv
    BY <1>1 DEF SettingsInv
  <2>2. TypeOK' /\ TurnInv' BY <1>1, <2>1, TypeStep, TurnStep
  <2>3. HeldInv' /\ RaceInv' /\ FilesStayWhole' BY <1>1, <2>1, HeldStep, RaceStep, WholeStep
  <2>4. CacheInv' /\ FlakeInv' BY <1>1, <2>1, CacheStep, FlakeStep
  <2>5. NamesInv' BY <1>1, <2>1, NamesStep
  <2>6. ProviderInv' BY <1>1, <2>1, ProviderStep
  <2>7. PlacesInv' BY <1>1, <2>1, PlacesStep
  <2>8. ModulesFollowChannel' BY <2>4, FollowsFromFlake, PTL
  <2>9. SubdomainsDistinct' BY <2>5 DEF NamesInv, SubdomainsDistinct
  <2>10. QED BY <2>2, <2>3, <2>4, <2>5, <2>6, <2>7, <2>8, <2>9 DEF SettingsInv
<1>2. ASSUME SettingsInv, UNCHANGED vars PROVE SettingsInv'
  <2>1. UNCHANGED <<file, writer, todo, cache, coincidences, coincided, req, flake, defined,
                    snapshot, worker, tasks, crashes, raced, overlapped>>
    BY <1>2 DEF vars, files, history
  <2>2. TypeOK' BY <1>2, <2>1 DEF SettingsInv, TypeOK, Stored
  <2>3. TurnInv' BY <1>2, <2>1 DEF SettingsInv, TurnInv, Saving, IdleLoop, Block
  <2>4. HeldInv' /\ RaceInv' /\ FilesStayWhole'
    BY <1>2, <2>1 DEF SettingsInv, HeldInv, RaceInv, FilesStayWhole, Copying
  <2>5. CacheInv' BY <1>2, <2>1 DEF SettingsInv, CacheInv, CacheIsCurrent, Hit
  <2>6. FlakeInv' /\ ModulesFollowChannel'
    BY <1>2, <2>1 DEF SettingsInv, FlakeInv, ModulesFollowChannel, Installed, Flaking
  <2>7. NamesInv' /\ SubdomainsDistinct'
    BY <1>2, <2>1 DEF SettingsInv, NamesInv, SubdomainsDistinct, Block
  <2>8. ProviderInv'
    <3>1. Paired => Paired' BY <2>1 DEF Paired, Between, Provider, Token, TokenToBe, Block
    <3>2. QED BY <1>2, <2>1, <3>1, ProviderParts, ProviderPartsNext DEF SettingsInv
  <2>9. PlacesInv'
    <3>1. Placed => Placed' BY <2>1 DEF Placed, Back, Block
    <3>2. QED BY <1>2, <2>1, <3>1, PlacesParts, PlacesPartsNext DEF SettingsInv
  <2>10. QED BY <2>2, <2>3, <2>4, <2>5, <2>6, <2>7, <2>8, <2>9 DEF SettingsInv
<1>3. QED BY <1>1, <1>2

\* The settings stay sound, step by step of every thread: the shape of the state,
\* whose turn it is to write, files that stay whole, caches that are current,
\* modules that follow the channel and services that have a name each.
THEOREM SettingsInvariance == Spec => []SettingsInv
<1>1. Init => SettingsInv BY SettingsInvInit
<1>2. SettingsInv /\ [Next]_vars => SettingsInv' BY SettingsInvStep
<1>3. QED BY <1>1, <1>2, PTL DEF Spec

\* No update of the user data or the secrets is lost: WriteUserData changes what
\* is in the file when it is done, unless a restore copies over the file meanwhile.
THEOREM UpdatesNotLostHolds == Spec => UpdatesNotLost
<1>1. ASSUME SettingsInv, Next, NEW p \in Procs, writer[p].file # None, writer'[p].file = None,
             file'[writer[p].file] # file[writer[p].file], ~raced
      PROVE  file'[writer[p].file].data = Apply(Block(p), file[writer[p].file].data)
  <2>1. /\ TypeOK /\ TurnInv /\ HeldInv /\ WriterTyped
        /\ writer[p].file # None /\ writer'[p].file = None /\ ~raced
        /\ file'[writer[p].file] # file[writer[p].file]
    BY <1>1, TypeParts DEF SettingsInv
  <2>2. ~ApiAct /\ ~Rebuild
    <3>1. ApiAct \/ Rebuild => UNCHANGED writer BY <2>1, ApiActFacts DEF Rebuild, files
    <3>2. QED BY <2>1, <3>1
  <2>3. ~WorkerAct BY <2>1, WorkerActFacts
  <2>4. PICK q \in Procs : Write(q) \/ Crash(q) BY <1>1, <2>1, <2>2, <2>3, ActFacts
  <2>5. q = p BY <2>1, <2>4, WriteChanges
  <2>6. CASE Finish(p) BY <2>1, <2>6, FinishChanges
  <2>7. ~Begin(p) BY <2>1, BeginFacts, NoWriterFacts
  <2>8. ~Refuse(p) /\ ~Crash(p) BY <2>1, RefuseFacts, CrashFacts
  <2>9. ~Dump(p)
    <3>1. Dump(p) => writer' = [writer EXCEPT ![p].dumped = TRUE] BY <2>1, DumpFacts
    <3>2. QED BY <2>1, <3>1 DEF WriterTyped
  <2>10. QED BY <2>4, <2>5, <2>6, <2>7, <2>8, <2>9 DEF Write
<1>2. SettingsInv /\ [Next]_vars =>
        [\A p \in Procs :
           LET f == writer[p].file IN
             (f # None /\ writer'[p].file = None /\ file'[f].whole /\ file'[f] # file[f]) =>
                 \/ raced
                 \/ file'[f].data = Apply(Block(p), file[f].data)]_vars
  BY <1>1
<1>3. QED BY <1>2, SettingsInvariance, PTL DEF Spec, UpdatesNotLost

\* Setting the DNS provider, or a backup or restore of the settings, leaves the
\* token in the secrets to be that of the provider in the user data.
THEOREM ProviderHasItsTokenHolds == Spec => []ProviderHasItsToken
<1>1. SettingsInv => ProviderHasItsToken
  <2> SUFFICES ASSUME SettingsInv, crashes = 0, ~raced, IdleLoop,
                      worker.pc \notin {"truncate", "fill"}
               PROVE  file["userdata"].data.provider = file["secrets"].data
    BY DEF ProviderHasItsToken
  <2>1. Paired BY ProviderParts DEF SettingsInv
  <2>2. QED BY <2>1 DEF Paired, Between, Provider, Token, TokenToBe, IdleLoop
<1>2. QED BY <1>1, SettingsInvariance, PTL

\* A restore of the settings puts each service back on the volume where it was
\* (merge_settings), when the volumes have the names that the kernel gives them.
THEOREM LocationsKeptHolds ==
    ASSUME SameNames
    PROVE  Spec => []LocationsKept
<1>1. SettingsInv => LocationsKept
  <2> SUFFICES ASSUME SettingsInv, worker.pc = "relocate", worker.left = {},
                      coincidences = 0, ~overlapped, NEW s \in DOMAIN worker.drives
               PROVE  GetDrive(file["userdata"].data, s) = worker.drives[s]
    BY DEF LocationsKept
  <2>1. Placed BY PlacesParts DEF SettingsInv
  <2>2. QED BY <2>1 DEF Placed, Back
<1>2. QED BY <1>1, SettingsInvariance, PTL
=============================================================================
