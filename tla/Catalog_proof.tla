---------------------------- MODULE Catalog_proof ----------------------------
(***************************************************************************)
(* Module Catalog, for any agents, paths, grants, links and edits: its     *)
(* type invariant, who listens to whom, that workspaces do not overlap,    *)
(* and that an assignment's message is heard by its target, and by nobody  *)
(* else when the pods are as the catalog of the dispatch says.             *)
(***************************************************************************)
EXTENDS Catalog, SequenceTheorems, TLAPS

(* A prefix, element by element.                                           *)
LEMMA PrefixByElements ==
    ASSUME NEW S, NEW s \in Seq(S), NEW t \in Seq(S)
    PROVE  IsPrefix(s, t) <=> Len(s) <= Len(t) /\ \A i \in 1..Len(s) : s[i] = t[i]
  <1>1. CASE Len(s) <= Len(t)
    <2>1. SubSeq(s, 1, Len(s)) = s
      BY SubSeqProperties, LenProperties
    <2>2. /\ SubSeq(t, 1, Len(s)) \in Seq(S)
          /\ Len(SubSeq(t, 1, Len(s))) = Len(s)
          /\ \A i \in 1..Len(s) : SubSeq(t, 1, Len(s))[i] = t[i]
      BY <1>1
    <2>3. s = SubSeq(t, 1, Len(s)) <=> \A i \in 1..Len(s) : s[i] = SubSeq(t, 1, Len(s))[i]
      BY <2>2, SeqEqual
    <2> QED
      BY <1>1, <2>1, <2>2, <2>3 DEF IsPrefix
  <1>2. CASE ~(Len(s) <= Len(t))
    BY <1>2 DEF IsPrefix
  <1> QED
    BY <1>1, <1>2

(* Two prefixes of one sequence overlap.                                   *)
LEMMA PrefixesOverlap ==
    ASSUME NEW S, NEW s \in Seq(S), NEW t \in Seq(S), NEW u \in Seq(S),
           IsPrefix(s, u), IsPrefix(t, u)
    PROVE  Overlap(s, t)
  <1>1. /\ Len(s) <= Len(u) /\ \A i \in 1..Len(s) : s[i] = u[i]
        /\ Len(t) <= Len(u) /\ \A i \in 1..Len(t) : t[i] = u[i]
    BY PrefixByElements
  <1>2. CASE Len(s) <= Len(t)
    <2>1. \A i \in 1..Len(s) : s[i] = t[i]
      BY <1>1, <1>2
    <2> QED
      BY <1>2, <2>1, PrefixByElements DEF Overlap
  <1>3. CASE Len(t) <= Len(s)
    <2>1. \A i \in 1..Len(t) : t[i] = s[i]
      BY <1>1, <1>3
    <2> QED
      BY <1>3, <2>1, PrefixByElements DEF Overlap
  <1> QED
    BY <1>2, <1>3

(* Being a prefix is transitive.                                           *)
LEMMA PrefixOfPrefix ==
    ASSUME NEW S, NEW s \in Seq(S), NEW t \in Seq(S), NEW u \in Seq(S),
           IsPrefix(s, t), IsPrefix(t, u)
    PROVE  IsPrefix(s, u)
  <1>1. /\ Len(s) <= Len(t) /\ \A i \in 1..Len(s) : s[i] = t[i]
        /\ Len(t) <= Len(u) /\ \A i \in 1..Len(t) : t[i] = u[i]
    BY PrefixByElements
  <1>2. Len(s) <= Len(u) /\ \A i \in 1..Len(s) : s[i] = u[i]
    BY <1>1
  <1> QED
    BY <1>2, PrefixByElements

(* A path is a prefix of whatever lies below it.                           *)
LEMMA Below ==
    ASSUME NEW S, NEW s \in Seq(S), NEW x \in Seq(S)
    PROVE  s \o x \in Seq(S) /\ IsPrefix(s, s \o x)
  <1>1. /\ s \o x \in Seq(S) /\ Len(s) <= Len(s \o x)
        /\ \A i \in 1..Len(s) : s[i] = (s \o x)[i]
    BY ConcatProperties
  <1> QED
    BY <1>1, PrefixByElements

(* What lies below two directories only overlaps if the directories do.    *)
LEMMA OverlapBelow ==
    ASSUME NEW S, NEW s \in Seq(S), NEW t \in Seq(S), NEW u \in Seq(S), NEW v \in Seq(S),
           IsPrefix(s, u), IsPrefix(t, v), Overlap(u, v)
    PROVE  Overlap(s, t)
  <1>1. CASE IsPrefix(u, v)
    BY <1>1, PrefixOfPrefix, PrefixesOverlap
  <1>2. CASE IsPrefix(v, u)
    BY <1>2, PrefixOfPrefix, PrefixesOverlap
  <1> QED
    BY <1>1, <1>2 DEF Overlap
-----------------------------------------------------------------------------
(* What a catalog that was loaded is like: the rules that the theorems     *)
(* below use, of the normalized document.                                  *)
Loaded(c) ==
    /\ DOMAIN c \subseteq Agents /\ c \in [DOMAIN c -> Profile]
    /\ \A a \in DOMAIN c : RoleFields(c[a])
    /\ \E leader \in DOMAIN c : Leaders(c) = {leader}
    /\ TrustTopology(c)
    /\ \A a, b \in DOMAIN c : a # b =>
          /\ ~Overlap(c[a].path, c[b].path) /\ ~Overlap(c[a].mount, c[b].mount)
          /\ DiscordApart(c[a], c[b])
    /\ \A a \in DOMAIN c : \A r \in c[a].roots : ~Overlap(c[a].path, r)
    /\ \A a \in DOMAIN c : \A g \in c[a].grants : \E r \in c[a].roots : IsPrefix(r, g.repository)

(* Of Resolved: only paths of the host change, and they become real.       *)
LEMMA ResolvedProfile ==
    ASSUME NEW p \in Profile
    PROVE  /\ Resolved(p) \in Profile
           /\ Resolved(p).path = Real[p.path] /\ Resolved(p).roots = {Real[r] : r \in p.roots}
           /\ Resolved(p).grants = {[g EXCEPT !.repository = Real[@]] : g \in p.grants}
           /\ Resolved(p).mount = p.mount /\ Resolved(p).role = p.role /\ Resolved(p).bot = p.bot
           /\ Resolved(p).entry = p.entry /\ Resolved(p).work = p.work
           /\ Resolved(p).users = p.users /\ Resolved(p).trusted = p.trusted
  <1>1. Real[p.path] \in HostPaths /\ {Real[r] : r \in p.roots} \subseteq HostPaths
    BY CatalogAssumption DEF Profile
  <1>2. {[g EXCEPT !.repository = Real[@]] : g \in p.grants} \subseteq Grant
    <2>1. ASSUME NEW g \in p.grants
          PROVE  [g EXCEPT !.repository = Real[@]] \in Grant
      <3>1. g \in Grant /\ Real[g.repository] \in HostPaths
        BY CatalogAssumption DEF Profile, Grant
      <3> QED
        BY <3>1 DEF Grant
    <2> QED
      BY <2>1
  <1> DEFINE path == Real[p.path]
             roots == {Real[r] : r \in p.roots}
             grants == {[g EXCEPT !.repository = Real[@]] : g \in p.grants}
  <1>3. Resolved(p) = [p EXCEPT !.path = path, !.roots = roots, !.grants = grants]
    BY DEF Resolved
  <1>4. path \in HostPaths /\ roots \in SUBSET HostPaths /\ grants \in SUBSET Grant
    BY <1>1, <1>2
  <1> HIDE DEF path, roots, grants
  <1>5. /\ Resolved(p) \in Profile
        /\ Resolved(p).path = path /\ Resolved(p).roots = roots /\ Resolved(p).grants = grants
        /\ Resolved(p).mount = p.mount /\ Resolved(p).role = p.role /\ Resolved(p).bot = p.bot
        /\ Resolved(p).entry = p.entry /\ Resolved(p).work = p.work
        /\ Resolved(p).users = p.users /\ Resolved(p).trusted = p.trusted
    BY <1>3, <1>4 DEF Profile
  <1> QED
    BY <1>5 DEF path, roots, grants

(* Every document that validates is loaded as such a catalog.              *)
LEMMA ContentsLoaded == \A c \in Contents : Loaded(c)
  <1> SUFFICES ASSUME NEW d \in Documents, Valid(d) PROVE Loaded(Normalized(d))
    BY DEF Contents
  <1> DEFINE c == Normalized(d)
  <1>1. DOMAIN d \subseteq Agents /\ d \in [DOMAIN d -> Profile]
    BY CatalogAssumption
  <1>2. DOMAIN c = DOMAIN d /\ \A a \in DOMAIN d : c[a] = Resolved(d[a]) /\ d[a] \in Profile
    BY <1>1 DEF Normalized
  <1>3. c = [a \in DOMAIN d |-> Resolved(d[a])]
    BY DEF Normalized
  <1> HIDE DEF c
  <1>4. ASSUME NEW a \in DOMAIN d
        PROVE  /\ c[a] \in Profile /\ c[a].path = Real[d[a].path]
               /\ c[a].roots = {Real[r] : r \in d[a].roots}
               /\ c[a].grants = {[g EXCEPT !.repository = Real[@]] : g \in d[a].grants}
               /\ c[a].mount = d[a].mount /\ c[a].role = d[a].role /\ c[a].bot = d[a].bot
               /\ c[a].entry = d[a].entry /\ c[a].work = d[a].work
               /\ c[a].users = d[a].users /\ c[a].trusted = d[a].trusted
    BY <1>2, ResolvedProfile
  <1>5. c \in [DOMAIN c -> Profile]
    BY <1>2, <1>3, <1>4
  <1>6. Leaders(c) = Leaders(d) /\ Workers(c) = Workers(d)
    BY <1>2, <1>4 DEF Leaders, Workers
  <1>7. \A a \in DOMAIN d : RoleFields(c[a])
    BY <1>4 DEF Valid, RoleFields
  <1>8. TrustTopology(c)
    <2>1. ASSUME NEW l \in Leaders(d)
          PROVE  /\ c[l].trusted = {c[w].bot : w \in Workers(d)}
                 /\ \A w \in Workers(d) : c[w].trusted = {c[l].bot}
      <3>1. /\ d[l].trusted = {d[w].bot : w \in Workers(d)}
            /\ \A w \in Workers(d) : d[w].trusted = {d[l].bot}
        BY DEF Valid, TrustTopology
      <3>2. l \in DOMAIN d /\ Workers(d) \subseteq DOMAIN d
        BY DEF Leaders, Workers
      <3>3. {c[w].bot : w \in Workers(d)} = {d[w].bot : w \in Workers(d)}
        BY <1>4, <3>2
      <3> QED
        BY <1>4, <3>1, <3>2, <3>3
    <2> QED
      BY <1>6, <2>1 DEF TrustTopology
  <1>9. ASSUME NEW a \in DOMAIN d, NEW b \in DOMAIN d, a # b
        PROVE  /\ ~Overlap(c[a].path, c[b].path) /\ ~Overlap(c[a].mount, c[b].mount)
               /\ DiscordApart(c[a], c[b])
    <2>1. WorktreesApart(d[a], d[b]) /\ DiscordApart(d[a], d[b])
      BY <1>9 DEF Valid
    <2> QED
      BY <1>4, <2>1 DEF WorktreesApart, DiscordApart, ChannelsOf
  <1>10. ASSUME NEW a \in DOMAIN d, NEW r \in c[a].roots
         PROVE  ~Overlap(c[a].path, r)
    <2>1. PICK s \in d[a].roots : r = Real[s]
      BY <1>4
    <2>2. ~Overlap(Real[d[a].path], Real[s])
      BY DEF Valid, WorktreeRules
    <2> QED
      BY <1>4, <2>1, <2>2
  <1>11. ASSUME NEW a \in DOMAIN d, NEW g \in c[a].grants
         PROVE  \E r \in c[a].roots : IsPrefix(r, g.repository)
    <2>1. PICK h \in d[a].grants : g = [h EXCEPT !.repository = Real[@]]
      BY <1>4
    <2>2. g.repository = Real[h.repository]
      BY <1>2, <2>1 DEF Profile, Grant
    <2>3. PICK r \in d[a].roots : Within(Real[h.repository], Real[r])
      BY DEF Valid, GrantRules
    <2>4. IsPrefix(Real[r], g.repository) /\ Real[r] \in c[a].roots
      BY <1>4, <2>2, <2>3 DEF Within, IsStrictPrefix
    <2> QED
      BY <2>4
  <1>12. \E leader \in DOMAIN d : Leaders(d) = {leader}
    BY DEF Valid
  <1>13. Loaded(c)
    BY <1>1, <1>2, <1>5, <1>6, <1>7, <1>8, <1>9, <1>10, <1>11, <1>12 DEF Loaded
  <1> QED
    BY <1>13 DEF c
-----------------------------------------------------------------------------
(* The channel of an agent, and what its pod is given.                     *)
LEMMA RenderedPod ==
    ASSUME NEW p \in Profile, RoleFields(p)
    PROVE  /\ ChannelOf(p) \in ChannelsOf(p) /\ ChannelOf(p) \in Channels
           /\ p.role # "leader" => ChannelOf(p) = p.work
           /\ Rendered(p) \in Pod
           /\ Rendered(p).role = p.role /\ Rendered(p).bot = p.bot
           /\ Rendered(p).channel = ChannelOf(p) /\ Rendered(p).users = p.users
           /\ Rendered(p).trusted = p.trusted /\ Rendered(p).mounts = Mounts(p)
  <1>1. /\ p.entry \in Channels \union {NoChannel} /\ p.work \in Channels \union {NoChannel}
        /\ p.path \in Seq(Names) /\ p.mount \in Seq(Names)
        /\ p.grants \subseteq Grant /\ p.role \in Roles /\ p.bot \in Bots
        /\ p.users \subseteq Humans /\ p.trusted \subseteq Bots
    BY CatalogAssumption DEF Profile
  <1>2. /\ ChannelOf(p) \in ChannelsOf(p) /\ ChannelOf(p) \in Channels
        /\ p.role # "leader" => ChannelOf(p) = p.work
    BY <1>1 DEF ChannelOf, ChannelsOf, RoleFields
  <1>3. Mounts(p) \subseteq Mount
    <2>1. ASSUME NEW g \in p.grants
          PROVE  /\ HostDirectory(p, g) \in Seq(Names) /\ MountPoint(p, g) \in Seq(Names)
                 /\ g.access \in Access
      <3>1. g.checkout_subpath \in Seq(Names) /\ g.access \in Access
        BY <1>1, CatalogAssumption DEF Grant
      <3> QED
        BY <1>1, <3>1, ConcatProperties DEF HostDirectory, MountPoint
    <2> QED
      BY <2>1 DEF Mounts, Mount
  <1> QED
    BY <1>1, <1>2, <1>3 DEF Rendered, Pod

(* A loaded catalog: at most one listener, whatever is posted.             *)
LEMMA ListenersApart ==
    ASSUME NEW c, Loaded(c), NEW a \in DOMAIN c, NEW b \in DOMAIN c, NEW m,
           Hears(Rendered(c[a]), m), Hears(Rendered(c[b]), m)
    PROVE  a = b
  <1>1. c[a] \in Profile /\ c[b] \in Profile /\ RoleFields(c[a]) /\ RoleFields(c[b])
    BY DEF Loaded
  <1>2. m.channel \in ChannelsOf(c[a]) \intersect ChannelsOf(c[b])
    BY <1>1, RenderedPod DEF Hears
  <1> QED
    BY <1>2 DEF Loaded, DiscordApart

(* A loaded catalog: workers only hear the leader, the leader only its     *)
(* people and its workers.                                                 *)
LEMMA TrustIsAStar ==
    ASSUME NEW c, Loaded(c), NEW a \in DOMAIN c, NEW m, Hears(Rendered(c[a]), m)
    PROVE  /\ a \in Workers(c) => \E l \in Leaders(c) : m.author = c[l].bot
           /\ a \in Leaders(c) =>
                 \/ m.author \in c[a].users
                 \/ \E w \in Workers(c) : m.author = c[w].bot
  <1>1. c[a] \in Profile /\ RoleFields(c[a])
    BY DEF Loaded
  <1>2. /\ m.author \in Bots => m.author \in c[a].trusted
        /\ m.author \notin Bots => m.author \in c[a].users /\ c[a].role = "leader"
    BY <1>1, RenderedPod DEF Hears
  <1>3. PICK l \in DOMAIN c : Leaders(c) = {l}
    BY DEF Loaded
  <1>4. /\ c[l].trusted = {c[w].bot : w \in Workers(c)}
        /\ \A w \in Workers(c) : c[w].trusted = {c[l].bot}
    BY <1>3 DEF Loaded, TrustTopology
  <1>5. ASSUME a \in Workers(c)
        PROVE  m.author = c[l].bot
    BY <1>2, <1>4, <1>5 DEF Workers, Leaders
  <1>6. ASSUME a \in Leaders(c)
        PROVE  m.author \in c[a].users \/ \E w \in Workers(c) : m.author = c[w].bot
    BY <1>2, <1>3, <1>4, <1>6
  <1> QED
    BY <1>3, <1>5, <1>6

(* A loaded catalog: an agent's mounts lie below its worktree, apart from  *)
(* those of the others, from collection roots and from repositories.       *)
LEMMA MountsApart ==
    ASSUME NEW c, Loaded(c), NEW a \in DOMAIN c, NEW m \in Rendered(c[a]).mounts
    PROVE  /\ \A b \in DOMAIN c \ {a} : \A n \in Rendered(c[b]).mounts :
                 ~Overlap(m.host, n.host) /\ ~Overlap(m.path, n.path)
           /\ \A r \in c[a].roots : ~Overlap(m.host, r)
           /\ \A g \in c[a].grants : ~Overlap(m.host, g.repository)
  <1>1. ASSUME NEW b \in DOMAIN c
        PROVE  /\ c[b].path \in Seq(Names) /\ c[b].mount \in Seq(Names)
               /\ c[b].roots \subseteq Seq(Names)
               /\ \A g \in c[b].grants : g.repository \in Seq(Names)
               /\ \A n \in Rendered(c[b]).mounts :
                     /\ n.host \in Seq(Names) /\ IsPrefix(c[b].path, n.host)
                     /\ n.path \in Seq(Names) /\ IsPrefix(c[b].mount, n.path)
    <2>1. c[b] \in Profile /\ RoleFields(c[b])
      BY DEF Loaded
    <2>2. /\ c[b].path \in Seq(Names) /\ c[b].mount \in Seq(Names)
          /\ c[b].roots \subseteq Seq(Names)
          /\ \A g \in c[b].grants : g.repository \in Seq(Names) /\ g.checkout_subpath \in Seq(Names)
      BY <2>1, CatalogAssumption DEF Profile, Grant
    <2>3. ASSUME NEW n \in Rendered(c[b]).mounts
          PROVE  /\ n.host \in Seq(Names) /\ IsPrefix(c[b].path, n.host)
                 /\ n.path \in Seq(Names) /\ IsPrefix(c[b].mount, n.path)
      <3>1. n \in Mounts(c[b])
        BY <2>1, RenderedPod
      <3>2. PICK g \in c[b].grants :
              n = [host |-> HostDirectory(c[b], g), path |-> MountPoint(c[b], g),
                   access |-> g.access]
        BY <3>1 DEF Mounts
      <3>3. /\ n.host = c[b].path \o g.checkout_subpath
            /\ n.path = c[b].mount \o g.checkout_subpath
        BY <3>2 DEF HostDirectory, MountPoint
      <3>4. n.host \in Seq(Names) /\ IsPrefix(c[b].path, n.host)
        BY <2>2, <3>3, Below
      <3>5. n.path \in Seq(Names) /\ IsPrefix(c[b].mount, n.path)
        BY <2>2, <3>3, Below
      <3> QED
        BY <3>4, <3>5
    <2> QED
      BY <2>2, <2>3
  <1>2. ASSUME NEW s \in Seq(Names)
        PROVE  IsPrefix(s, s)
    BY PrefixByElements, LenProperties
  <1>3. ASSUME NEW b \in DOMAIN c \ {a}, NEW n \in Rendered(c[b]).mounts
        PROVE  ~Overlap(m.host, n.host) /\ ~Overlap(m.path, n.path)
    <2>1. ~Overlap(c[a].path, c[b].path) /\ ~Overlap(c[a].mount, c[b].mount)
      BY DEF Loaded
    <2> QED
      BY <1>1, <2>1, OverlapBelow
  <1>4. ASSUME NEW r \in c[a].roots
        PROVE  ~Overlap(m.host, r)
    <2>1. ~Overlap(c[a].path, r)
      BY DEF Loaded
    <2> QED
      BY <1>1, <1>2, <2>1, OverlapBelow
  <1>5. ASSUME NEW g \in c[a].grants
        PROVE  ~Overlap(m.host, g.repository)
    <2>1. PICK r \in c[a].roots : IsPrefix(r, g.repository)
      BY DEF Loaded
    <2>2. ~Overlap(c[a].path, r)
      BY DEF Loaded
    <2> QED
      BY <1>1, <2>1, <2>2, OverlapBelow
  <1> QED
    BY <1>3, <1>4, <1>5
-----------------------------------------------------------------------------
(* What the system remembers of catalogs: the one in force and the one in  *)
(* hand are loaded ones, each pod was rendered from one; and an execution  *)
(* is for the owner of the task and names the task's mount point.          *)
FromCatalog ==
    /\ catalog \in Contents
    /\ held \in Contents \union {NoCatalog}
    /\ held # NoCatalog => assignment # NoAssignment /\ assignment.status = "prepared"
    /\ DOMAIN pod = Agents
    /\ \A a \in Agents : pod[a] # NoPod =>
          \E c \in Contents : a \in DOMAIN c /\ pod[a] = Rendered(c[a])
    /\ assignment # NoAssignment =>
          /\ task # NoTask
          /\ assignment.phase = "execution" =>
                assignment.target = task.agent /\ assignment.checkout = task.mount

(* The invariant holds of every behaviour.                                 *)
LEMMA FromCatalogCorrect == Spec => []FromCatalog
  <1>1. Init => FromCatalog
    BY DEF Init, FromCatalog
  <1>2. FromCatalog /\ [Next]_vars => FromCatalog'
    <2> SUFFICES ASSUME FromCatalog, [Next]_vars PROVE FromCatalog'
      OBVIOUS
    <2>1. CASE UNCHANGED vars
      BY <2>1 DEF vars, FromCatalog
    <2>2. ASSUME NEW content \in Contents, Edit(content)
          PROVE  FromCatalog'
      BY <2>2 DEF Edit, FromCatalog
    <2>3. ASSUME NEW a \in Agents, RollOut(a)
          PROVE  FromCatalog'
      <3>1. /\ UNCHANGED <<catalog, task, assignment, held>> /\ DOMAIN pod' = Agents
            /\ \A b \in Agents : pod'[b] =
                  IF b = a THEN (IF a \in DOMAIN catalog THEN Rendered(catalog[a]) ELSE NoPod)
                  ELSE pod[b]
        BY <2>3 DEF RollOut, PodOf, FromCatalog
      <3> QED
        BY <3>1 DEF FromCatalog
    <2>4. ASSUME NEW a \in DOMAIN catalog, NEW kind, NEW g, CreateTask(kind, a, g)
          PROVE  FromCatalog'
      <3>1. task = NoTask /\ UNCHANGED <<catalog, pod, assignment, held>>
        BY <2>4 DEF CreateTask
      <3> QED
        BY <3>1 DEF FromCatalog
    <2>5. ASSUME NEW phase, NEW target \in DOMAIN catalog, Prepare(phase, target)
          PROVE  FromCatalog'
      <3>1. /\ UNCHANGED <<catalog, pod, task, held>> /\ task # NoTask /\ TaskBound(task, catalog)
            /\ phase = "execution" => target = task.agent
            /\ assignment'.phase = phase /\ assignment'.target = target
            /\ assignment'.checkout = catalog[target].mount \o task.checkout_subpath
        BY <2>5 DEF Prepare
      <3>2. held = NoCatalog
        BY <2>5 DEF Prepare, FromCatalog
      <3> QED
        BY <3>1, <3>2 DEF FromCatalog, TaskBound
    <2>6. CASE BeginDispatch
      BY <2>6 DEF BeginDispatch, FromCatalog
    <2>7. CASE Dispatch
      <3>1. /\ UNCHANGED <<catalog, pod, task>> /\ assignment # NoAssignment /\ held' = NoCatalog
            /\ assignment'.phase = assignment.phase /\ assignment'.target = assignment.target
            /\ assignment'.checkout = assignment.checkout
        BY <2>7 DEF Dispatch, FromCatalog
      <3> QED
        BY <3>1 DEF FromCatalog
    <2>8. CASE StopDispatch
      BY <2>8 DEF StopDispatch, FromCatalog
    <2> QED
      BY <2>1, <2>2, <2>3, <2>4, <2>5, <2>6, <2>7, <2>8 DEF Next
  <1> QED
    BY <1>1, <1>2, PTL DEF Spec
(* What is prepared is for a worker. *)
LEMMA WorkersDoIt ==
    ASSUME NEW phase
    PROVE  RolesFor(phase) \subseteq WORKER_ROLES
  BY DEF RolesFor, WORKER_ROLES, Roles

(* Type correctness of the specification.                                  *)
THEOREM TypeCorrect == Spec => []TypeOK
  <1>1. FromCatalog => DOMAIN catalog \subseteq Agents /\ catalog \in [DOMAIN catalog -> Profile]
    BY ContentsLoaded DEF FromCatalog, Loaded
  <1>2. FromCatalog => \A a \in Agents : pod[a] \in Pod \union {NoPod}
    <2> SUFFICES ASSUME FromCatalog, NEW a \in Agents, pod[a] # NoPod
                 PROVE  pod[a] \in Pod
      OBVIOUS
    <2>1. PICK c \in Contents : a \in DOMAIN c /\ pod[a] = Rendered(c[a])
      BY DEF FromCatalog
    <2>2. c[a] \in Profile /\ RoleFields(c[a])
      BY <2>1, ContentsLoaded DEF Loaded
    <2> QED
      BY <2>1, <2>2, RenderedPod
  <1> DEFINE Routed == task \in Task \union {NoTask} /\ assignment \in Assignment \union {NoAssignment}
  <1>3. Init => Routed
    BY DEF Init
  <1>4. FromCatalog /\ Routed /\ [Next]_vars => Routed'
    <2> SUFFICES ASSUME FromCatalog, Routed, [Next]_vars PROVE Routed'
      OBVIOUS
    <2>0. \A a \in DOMAIN catalog : a \in Agents /\ catalog[a] \in Profile /\ RoleFields(catalog[a])
      BY ContentsLoaded DEF FromCatalog, Loaded
    <2>1. CASE UNCHANGED vars
      BY <2>1 DEF vars
    <2>2. ASSUME NEW content \in Contents, Edit(content)
          PROVE  Routed'
      BY <2>2 DEF Edit
    <2>3. ASSUME NEW a \in Agents, RollOut(a)
          PROVE  Routed'
      BY <2>3 DEF RollOut
    <2>4. ASSUME NEW a \in DOMAIN catalog, NEW kind \in {"code", "research"},
                 NEW g \in catalog[a].grants, CreateTask(kind, a, g)
          PROVE  Routed'
      <3>1. /\ catalog[a].path \in HostPaths /\ catalog[a].mount \in Seq(Names)
            /\ g.repository \in HostPaths /\ g.checkout_subpath \in Subpaths
            /\ g.checkout_subpath \in Seq(Names)
        BY <2>0, CatalogAssumption DEF Profile, Grant
      <3>2. MountPoint(catalog[a], g) \in Seq(Names)
        BY <3>1, ConcatProperties DEF MountPoint
      <3>3. ChannelOf(catalog[a]) \in Channels /\ a \in Agents
        BY <2>0, RenderedPod
      <3>4. task' = [kind |-> kind, agent |-> a, path |-> catalog[a].path,
                     mount |-> MountPoint(catalog[a], g), repository |-> g.repository,
                     checkout_subpath |-> g.checkout_subpath, reply_to |-> ChannelOf(catalog[a])]
        BY <2>4 DEF CreateTask
      <3>5. task' \in Task
        BY <3>1, <3>2, <3>3, <3>4 DEF Task
      <3>6. UNCHANGED assignment
        BY <2>4 DEF CreateTask
      <3> QED
        BY <3>5, <3>6
    <2>5. ASSUME NEW phase \in {"execution", "review"}, NEW target \in DOMAIN catalog,
                 Prepare(phase, target)
          PROVE  Routed'
      <3> DEFINE p == catalog[target]
      <3>1. p \in Profile /\ RoleFields(p) /\ target \in Agents
        BY <2>0
      <3>2. p.mount \in Seq(Names) /\ p.bot \in Bots /\ p.work \in Channels \union {NoChannel}
        BY <3>1, CatalogAssumption DEF Profile
      <3>3. /\ task \in Task /\ p.role \in RolesFor(phase) /\ UNCHANGED task
            /\ assignment' =
                 [phase |-> phase, target |-> target, role |-> p.role, channel |-> p.work,
                  bot |-> p.bot, checkout |-> p.mount \o task.checkout_subpath,
                  status |-> "prepared", author |-> NoBot]
        BY <2>5 DEF Prepare
      <3>4. p.role \in WORKER_ROLES /\ p.role # "leader"
        BY <3>3, WorkersDoIt DEF WORKER_ROLES
      <3>5. p.work \in Channels
        BY <3>1, <3>2, <3>4 DEF RoleFields
      <3>6. task.checkout_subpath \in Seq(Names)
        BY <3>3, CatalogAssumption DEF Task
      <3>7. p.mount \o task.checkout_subpath \in Seq(Names)
        BY <3>2, <3>6, ConcatProperties
      <3> HIDE DEF p
      <3>8. assignment' \in Assignment
        BY <3>1, <3>2, <3>3, <3>4, <3>5, <3>7 DEF Assignment
      <3> QED
        BY <3>3, <3>8
    <2>6. CASE BeginDispatch \/ StopDispatch
      BY <2>6 DEF BeginDispatch, StopDispatch
    <2>7. CASE Dispatch
      <3>1. PICK leader \in Leaders(held) :
              assignment' = [assignment EXCEPT !.status = "dispatched",
                                               !.author = held[leader].bot]
        BY <2>7 DEF Dispatch
      <3>2. Loaded(held)
        BY <2>7, ContentsLoaded DEF Dispatch, FromCatalog
      <3>3. held[leader].bot \in Bots
        BY <3>2 DEF Leaders, Loaded, Profile
      <3>4. assignment \in Assignment /\ UNCHANGED task
        BY <2>7 DEF Dispatch, FromCatalog
      <3> QED
        BY <3>1, <3>3, <3>4 DEF Assignment
    <2> QED
      BY <2>1, <2>2, <2>3, <2>4, <2>5, <2>6, <2>7 DEF Next
  <1>5. FromCatalog /\ Routed => TypeOK
    BY <1>1, <1>2 DEF TypeOK, FromCatalog
  <1> QED
    BY <1>3, <1>4, <1>5, FromCatalogCorrect, PTL DEF Spec
-----------------------------------------------------------------------------
(* Whatever is posted is heard by one agent at most, and by the right one: *)
(* the channels and the trust that validate_catalog compares make it so.   *)
THEOREM OneListenerCorrect == Spec => []OneListener
  <1>1. FromCatalog => OneListener
    <2> SUFFICES ASSUME FromCatalog PROVE OneListener
      OBVIOUS
    <2>1. Loaded(catalog)
      BY ContentsLoaded DEF FromCatalog
    <2>2. ASSUME NEW a \in DOMAIN catalog, NEW m, Hears(Rendered(catalog[a]), m)
          PROVE  /\ \A b \in DOMAIN catalog : Hears(Rendered(catalog[b]), m) => a = b
                 /\ a \in Workers(catalog) => \E l \in Leaders(catalog) : m.author = catalog[l].bot
                 /\ a \in Leaders(catalog) =>
                       \/ m.author \in catalog[a].users
                       \/ \E w \in Workers(catalog) : m.author = catalog[w].bot
      <3>1. \A b \in DOMAIN catalog : Hears(Rendered(catalog[b]), m) => a = b
        BY <2>1, <2>2, ListenersApart
      <3> QED
        BY <2>1, <2>2, <3>1, TrustIsAStar
    <2> QED
      BY <2>2 DEF OneListener
  <1> QED
    BY <1>1, FromCatalogCorrect, PTL

(* No two agents are given overlapping directories, and none is given a    *)
(* part of a repository that it was cloned from.                           *)
THEOREM WorkspacesApartCorrect == Spec => []WorkspacesApart
  <1>1. FromCatalog => WorkspacesApart
    <2> SUFFICES ASSUME FromCatalog PROVE WorkspacesApart
      OBVIOUS
    <2>1. Loaded(catalog)
      BY ContentsLoaded DEF FromCatalog
    <2> QED
      BY <2>1, MountsApart DEF WorkspacesApart
  <1> QED
    BY <1>1, FromCatalogCorrect, PTL

(* A message that is posted is heard by its target, if the target's pod is *)
(* as the catalog of the dispatch says, whatever was edited before and     *)
(* meanwhile; the owner of the task then has the checkout that the message *)
(* names, with the access of the task's kind; and if every pod is as that  *)
(* catalog says, nobody else hears it.                                     *)
THEOREM DispatchArrivesCorrect == Spec => DispatchArrives
  <1> DEFINE Target == assignment.target
             Posted == MessageOf(assignment')
             Heard == Hears(pod[Target], Posted)
             Mounted ==
                assignment.phase = "execution" =>
                    [host |-> task.path \o task.checkout_subpath,
                     path |-> assignment.checkout,
                     access |-> IF task.kind = "code" THEN "write" ELSE "read"]
                    \in pod[Target].mounts
             Alone == \A a \in Agents : pod[a] # NoPod /\ Hears(pod[a], Posted) => a = Target
             Arrives == /\ pod[Target] = PodOf(Target, held) => /\ Heard
                                                                /\ Mounted
                        /\ (\A a \in Agents : pod[a] = PodOf(a, held)) => Alone
  <1>1. FromCatalog /\ TypeOK /\ Dispatch => Arrives
    <2> SUFFICES ASSUME FromCatalog, TypeOK, Dispatch PROVE Arrives
      OBVIOUS
    <2> DEFINE w == assignment
               p == held[w.target]
    <2>1. /\ Loaded(held) /\ assignment \in Assignment
          /\ TaskBound(task, held) /\ TargetBound(assignment, held)
      BY ContentsLoaded DEF FromCatalog, TypeOK, Dispatch
    <2>2. PICK leader \in Leaders(held) :
            assignment' = [assignment EXCEPT !.status = "dispatched",
                                             !.author = held[leader].bot]
      BY DEF Dispatch
    <2>3. /\ assignment'.channel = w.channel /\ assignment'.bot = w.bot
          /\ assignment'.author = held[leader].bot
      BY <2>1, <2>2 DEF Assignment
    <2>4. /\ w.target \in DOMAIN held /\ p.role # "leader"
          /\ w.bot = p.bot /\ w.channel = p.work
      BY <2>1, WorkersDoIt DEF TargetBound, WORKER_ROLES
    <2>5. p \in Profile /\ RoleFields(p)
      BY <2>1, <2>4 DEF Loaded
    <2>6. PodOf(Target, held) = Rendered(p)
      BY <2>4 DEF PodOf
    <2>7. Hears(Rendered(p), Posted)
      <3>1. w.target \in Workers(held)
        BY <2>4 DEF Workers, Leaders
      <3>2. p.trusted = {held[leader].bot}
        BY <2>1, <3>1 DEF Loaded, TrustTopology
      <3>3. held[leader] \in Profile
        BY <2>1 DEF Loaded, Leaders
      <3>4. held[leader].bot \in Bots
        BY <3>3 DEF Profile
      <3>5. /\ Rendered(p).channel = p.work /\ Rendered(p).bot = p.bot
            /\ Rendered(p).trusted = {held[leader].bot}
        BY <2>4, <2>5, <3>2, RenderedPod
      <3>6. /\ Posted.channel = p.work /\ Posted.author = held[leader].bot
            /\ Posted.mentions = {p.bot}
        BY <2>3, <2>4 DEF MessageOf
      <3> QED
        BY <3>4, <3>5, <3>6 DEF Hears
    <2>8. ASSUME w.phase = "execution", pod[Target] = Rendered(p)
          PROVE  [host |-> task.path \o task.checkout_subpath, path |-> w.checkout,
                  access |-> IF task.kind = "code" THEN "write" ELSE "read"]
                 \in pod[Target].mounts
      <3>1. w.target = task.agent /\ w.checkout = task.mount
        BY <2>8 DEF FromCatalog, Dispatch
      <3>2. /\ task.mount = p.mount \o task.checkout_subpath
            /\ task.path = p.path
        BY <2>1, <3>1 DEF TaskBound
      <3>3. PICK g \in Matches(p, task) :
              g.access = IF task.kind # "code" THEN "read" ELSE "write"
        BY <2>1, <2>8 DEF TargetBound
      <3>4. g \in p.grants /\ g.checkout_subpath = task.checkout_subpath
        BY DEF Matches
      <3>5. [host |-> HostDirectory(p, g), path |-> MountPoint(p, g), access |-> g.access]
            \in Mounts(p)
        BY <3>4 DEF Mounts
      <3>6. /\ HostDirectory(p, g) = task.path \o task.checkout_subpath
            /\ MountPoint(p, g) = w.checkout
            /\ g.access = IF task.kind = "code" THEN "write" ELSE "read"
        BY <3>1, <3>2, <3>3, <3>4 DEF HostDirectory, MountPoint
      <3>7. pod[Target].mounts = Mounts(p)
        BY <2>5, <2>8, RenderedPod
      <3> QED
        BY <3>5, <3>6, <3>7
    <2>9. ASSUME \A a \in Agents : pod[a] = PodOf(a, held)
          PROVE  Alone
      <3> SUFFICES ASSUME NEW a \in Agents, pod[a] # NoPod, Hears(pod[a], Posted)
                   PROVE  a = Target
        OBVIOUS
      <3>1. a \in DOMAIN held /\ Hears(Rendered(held[a]), Posted)
        BY <2>9 DEF PodOf
      <3> QED
        BY <2>1, <2>4, <2>7, <3>1, ListenersApart
    <2> QED
      BY <2>6, <2>7, <2>8, <2>9
  <1>2. FromCatalog /\ TypeOK => [Dispatch => Arrives]_assignment
    BY <1>1
  <1>3. DispatchArrives <=> [][Dispatch => Arrives]_assignment
    BY DEF DispatchArrives
  <1> HIDE DEF Arrives
  <1> QED
    BY <1>2, <1>3, FromCatalogCorrect, TypeCorrect, PTL
=============================================================================
