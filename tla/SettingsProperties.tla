------------------------- MODULE SettingsProperties -------------------------
(* What Settings is expected to guarantee.                                   *)
EXTENDS Settings

\* A write changes what is in the file at that moment, not what was there when
\* somebody else had yet to write: no update is lost, unless the worker copies
\* over the file meanwhile.
UpdatesNotLost ==
    [][\A p \in Procs :
         LET f == writer[p].file IN
           (f # None /\ writer'[p].file = None /\ file'[f].whole /\ file'[f] # file[f]) =>
               \/ raced
               \/ file'[f].data = Apply(Block(p), file[f].data)]_vars

\* Half a file is left behind only by a crash, or when the copies of a backup or
\* a restore of the settings meet a write.
FilesStayWhole ==
    \A f \in Files :
      \/ file[f].whole \/ crashes > 0 \/ raced
      \/ \E p \in Procs : writer[p].file = f /\ writer[p].dumped
      \/ worker.pc = "fill" /\ Copied[worker.n] = f

\* Restoring the settings leaves the services on the volumes where they were,
\* whatever the snapshot says and the API writes meanwhile; unless two requests
\* edited the flake at once, and a service of the first look is gone at the second.
LocationsKept ==
    (worker.pc = "relocate" /\ worker.left = {} /\ file["userdata"].whole
       /\ coincidences = 0 /\ ~overlapped)
      => \A s \in DOMAIN worker.drives :
           GetDrive(file["userdata"].data, s) = worker.drives[s]

\* When nobody is about to change it, the token of the DNS provider is that of the
\* provider in the user data: no crash and no copy fell between the two writes.
ProviderHasItsToken ==
    (crashes = 0 /\ ~raced /\ IdleLoop /\ worker.pc \notin {"truncate", "fill"})
      => file["userdata"].data.provider = file["secrets"].data

\* A service that was enabled with success is in the flake, and all modules come
\* from the channel of the system, unless two requests edited the flake at once.
ModulesFollowChannel ==
    (flake.whole /\ ~overlapped) =>
      /\ \A i \in DOMAIN req :
           (req[i].what.op = "enable" /\ req[i].pc = "done") => Installed(req[i].what.service)
      /\ \A s \in Services : Installed(s) => flake.modules[s] = flake.channel

\* A process reads its own writes: what it reads without the lock is what the
\* file has, unless another wrote as many bytes within the tick of the clock.
CacheIsCurrent ==
    \A p \in Procs : (Hit(p) /\ ~coincided[p]) => cache[p] = file["userdata"].data

\* No two services are given one name.
SubdomainsDistinct ==
    (file["userdata"].whole /\ ~raced /\ coincidences = 0) => Distinct(file["userdata"].data)

-----------------------------------------------------------------------------
(* What makes them inductive                                                 *)

Whats ==
    [op : {"enable", "disable"}, service : Services]
    \cup [op : {"configure"}, service : Services, subdomain : Subdomains]
    \cup [op : {"timezone"}, zone : Timezones] \cup [op : {"ssh"}, on : Switch]
    \cup [op : {"upgrade"}, on : {None}, reboot : Switch]
    \cup [op : {"add key", "remove key"}, owner : Owners, key : Keys]
    \cup [op : {"mount", "unmount"}, volume : Mountable]
    \cup [op : {"dns"}, provider : Providers] \cup [op : {"channel"}, channel : Channels]

Asked == [what : Whats,
          pc : {"look", "edit", "format", "put", "save", "done", "failed", "lost"},
          channel : Channels \cup {None},
          modules : {None} \cup [Services -> Channels \cup {None}]]

Writes ==
    {w \in Whats : w.op \notin {"dns", "channel"}}
    \cup [op : {"place"}, service : Services]
    \cup [op : {"location"}, service : Services, volume : Volumes]
    \cup [op : {"provider", "token"}, provider : Providers]

Places == UNION {[S -> Volumes] : S \in SUBSET Services}

Stored(content) ==
    /\ DOMAIN content = Files
    /\ \A f \in Files : DOMAIN content[f] = {"data", "whole"} /\ content[f].whole \in BOOLEAN
    /\ Plain(content["userdata"].data)

TypeOK ==
    /\ Stored(file) /\ Stored(snapshot)
    /\ DOMAIN writer = Procs
    /\ \A p \in Procs :
         /\ DOMAIN writer[p] = {"file", "data", "dumped", "mixed"}
         /\ writer[p].file \in Files \cup {None}
         /\ writer[p].dumped \in BOOLEAN /\ writer[p].mixed \in BOOLEAN
         /\ writer[p].file = "userdata" => Plain(writer[p].data)
    /\ todo \in [Procs -> Seq(Writes)]
    /\ DOMAIN cache = Procs /\ \A p \in Procs : cache[p] # None => Plain(cache[p])
    /\ coincided \in [Procs -> BOOLEAN] /\ coincidences \in Nat
    /\ req \in Seq(Asked)
    /\ flake \in [channel : Channels, whole : BOOLEAN,
                  modules : [Services -> Channels \cup {None}]]
    /\ defined \subseteq Services
    /\ worker \in [pc : {"idle", "stash", "locate", "truncate", "fill", "relocate", "save"},
                   n : {1, 2}, was : Places, drives : Places, left : SUBSET Services]
    /\ tasks \in Nat /\ crashes \in Nat /\ raced \in BOOLEAN /\ overlapped \in BOOLEAN

\* What a request has read of the flake, the blocks of a thread, and the one that
\* is under way: the lock has one holder.
TurnInv ==
    /\ \A i \in DOMAIN req :
         /\ req[i].pc = "look" => req[i].what.op = "enable"
         /\ req[i].pc \in {"edit", "format", "put"} => req[i].what.op \in {"enable", "channel"}
         /\ req[i].pc \in {"format", "put"} =>
              req[i].channel \in Channels /\ req[i].modules \in [Services -> Channels \cup {None}]
    /\ \A i, j \in Saving : i = j
    /\ Saving = {} <=> IdleLoop
    /\ worker.pc = "save" <=> todo["worker"] # <<>>
    /\ todo["worker"] # <<>> => Len(todo["worker"]) = 1 /\ Block("worker").op = "location"
    /\ todo["api"] # <<>> =>
         \/ Len(todo["api"]) = 1 /\ Block("api").op \notin {"place", "location", "provider"}
         \/ Len(todo["api"]) = 2 /\ Block("api").op = "place" /\ todo["api"][2].op = "enable"
         \/ /\ Len(todo["api"]) = 2 /\ Block("api").op = "provider"
            /\ todo["api"][2] = [op |-> "token", provider |-> Block("api").provider]
    /\ \A p \in Procs :
         IF writer[p].file = None THEN ~writer[p].dumped /\ ~writer[p].mixed
         ELSE /\ todo[p] # <<>> /\ writer[p].file = FileOf(Block(p))
              /\ writer[p].file # writer[Other(p)].file
    /\ worker.pc \in {"idle", "locate"} => worker.n = 1

\* What a holder of the lock has loaded is what is there, but for a copy.
HeldInv ==
    \A p \in Procs : writer[p].file # None /\ (p = "worker" \/ ~raced) =>
        writer[p].data = file[writer[p].file].data

\* Half a file, or a mixture, comes from a crash or a race.
RaceInv ==
    /\ todo["api"] # <<>> /\ Copying(worker) => raced
    /\ \A p \in Procs : writer[p].mixed => raced
    /\ worker.pc = "fill" /\ file[Copied[worker.n]].whole => raced
    /\ \A f \in Files : snapshot[f].whole \/ crashes > 0 \/ raced

CacheInv == CacheIsCurrent /\ \A p \in Procs : coincided[p] => coincidences > 0

\* While one request at a time edits the flake, what it will put there has all
\* that is there.
FlakeInv == ~overlapped =>
    /\ \A i, j \in Flaking(req) : i = j
    /\ \A i \in DOMAIN req : req[i].pc = "put" => ~flake.whole
    /\ \A s \in Services : Installed(s) => flake.modules[s] = flake.channel
    /\ \A s \in defined : Installed(s)
    /\ \A i \in DOMAIN req : req[i].what.op = "enable" /\ req[i].pc \in {"save", "done"} =>
         Installed(req[i].what.service)
    /\ \A i \in Flaking(req) :
         /\ \A s \in Services :
              /\ req[i].modules[s] # None => req[i].modules[s] = req[i].channel
              /\ Installed(s) => req[i].modules[s] # None
         /\ req[i].what.op = "enable" => req[i].modules[req[i].what.service] # None

\* A name that was free when the request looked is free when it is written.
NamesInv == ~raced /\ coincidences = 0 =>
    /\ Distinct(file["userdata"].data) /\ Distinct(snapshot["userdata"].data)
    /\ todo["api"] # <<>> /\ Block("api").op = "configure" =>
         \A t \in Services : file["userdata"].data.subdomain[t] # Block("api").subdomain

\* The provider and the token go together, copy by copy and block by block.
ProviderInv == crashes = 0 /\ ~raced =>
    LET between(pcs) == worker.pc \in pcs /\ worker.n = 2
        provider(content) == content["userdata"].data.provider
        token(content)    == content["secrets"].data
    IN /\ provider(snapshot) = token(IF between({"stash"}) THEN file ELSE snapshot)
       /\ provider(file) = IF between({"truncate", "fill"}) THEN token(snapshot)
                           ELSE IF todo["api"] # <<>> /\ Block("api").op = "token"
                           THEN Block("api").provider ELSE token(file)

\* The volumes have the names that the kernel gives them.
SameNames == \A v \in Volumes : KernelName[v] = v

\* The services that have been put back stay where they were.
PlacesInv == coincidences = 0 /\ ~overlapped /\ SameNames =>
    LET was == worker.drives IN
    /\ worker.was = was /\ DOMAIN was \subseteq Movable
    /\ worker.pc \in {"idle", "stash", "locate"} => DOMAIN was = {}
    /\ worker.pc \in {"truncate", "fill"} => DOMAIN was \subseteq defined
    /\ worker.pc = "save" => \A s \in DOMAIN was :
         s = Block("worker").service => was[s] = Block("worker").volume
    /\ worker.pc \in {"relocate", "save"} => \A s \in DOMAIN was \ worker.left :
         \/ worker.pc = "save" /\ s = Block("worker").service
         \/ /\ GetDrive(file["userdata"].data, s) = was[s]
            /\ writer["api"].file = "userdata" => GetDrive(writer["api"].data, s) = was[s]

\* The invariant: the shape of the state, whose turn it is to write, and what
\* the invariants above follow from.
SettingsInv ==
    /\ TypeOK /\ TurnInv /\ HeldInv /\ RaceInv /\ FilesStayWhole /\ CacheInv
    /\ FlakeInv /\ ModulesFollowChannel /\ NamesInv /\ SubdomainsDistinct
    /\ ProviderInv /\ PlacesInv
=============================================================================
