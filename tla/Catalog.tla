------------------------------ MODULE Catalog ------------------------------
(***************************************************************************)
(* catalog.yaml as the one source of authority: what oab_control/catalog.py *)
(* accepts, what renderer.py makes of it for each pod, what discord_policy *)
(* then lets an agent hear, and how a task and a work assignment stay      *)
(* bound to it while it is edited.                                         *)
(*                                                                         *)
(* The file is edited by hand, and every command loads it afresh; a file   *)
(* that does not validate refuses the command, so only valid contents      *)
(* matter.  Pods learn of a change one by one, when they are rolled out.   *)
(*                                                                         *)
(* Rules about one scalar (the form of an ID, a path, a quantity, a Secret *)
(* reference, a credential in a string) hold of the values in use; the Git *)
(* identity and the base branch, which are only compared to refuse, are    *)
(* left out.                                                               *)
(***************************************************************************)
EXTENDS Integers, FiniteSets, SequencesExt

CONSTANTS
    Agents,        \* agent IDs
    Bots, Humans,  \* Discord accounts
    Channels,      \* Discord channels
    Names,         \* parts of a path
    HostPaths,     \* absolute paths on the host, as sequences of parts
    Real,          \* Path.resolve, which follows symbolic links
    MountPaths,    \* absolute paths in a container
    Subpaths,      \* checkout_subpath values
    Documents,     \* contents that somebody may give catalog.yaml
    NoChannel, NoBot, NoPod, NoTask, NoAssignment, NoCatalog

Roles == {"leader", "researcher", "developer", "reviewer"}
WORKER_ROLES == Roles \ {"leader"}
Access == {"read", "write"}
Grant == [repository: HostPaths, checkout_subpath: Subpaths, access: Access]
Profile ==
    [role: Roles, bot: Bots, entry: Channels \union {NoChannel},
     work: Channels \union {NoChannel}, users: SUBSET Humans, trusted: SUBSET Bots,
     path: HostPaths, mount: MountPaths, roots: SUBSET HostPaths, grants: SUBSET Grant]

ASSUME CatalogAssumption ==
    /\ HostPaths \subseteq Seq(Names) /\ MountPaths \subseteq Seq(Names)
    /\ Subpaths \subseteq Seq(Names)
    /\ Real \in [HostPaths -> HostPaths]
    /\ Bots \intersect Humans = {} /\ NoChannel \notin Channels /\ NoBot \notin Bots
    /\ \A d \in Documents : DOMAIN d \subseteq Agents /\ d \in [DOMAIN d -> Profile]

VARIABLES
    catalog,     \* what load_catalog makes of the file now
    pod,         \* what each agent's pod was last rendered from
    task,        \* the routing of one Delivery Task
    assignment,  \* its latest Work Assignment, and the message that carries it
    held         \* the catalog that a running assignment-dispatch has loaded

vars == <<catalog, pod, task, assignment, held>>
-----------------------------------------------------------------------------
(* validate_catalog *)

Within(child, parent) == IsStrictPrefix(parent, child)         \* contained
Overlap(left, right) == IsPrefix(left, right) \/ IsPrefix(right, left)

Leaders(d) == {a \in DOMAIN d : d[a].role = "leader"}
Workers(d) == DOMAIN d \ Leaders(d)
ChannelsOf(p) == {p.entry, p.work} \ {NoChannel}

(* validate_discord: a leader has an entry channel and listens to people,  *)
(* a worker has a work channel and does not.                               *)
RoleFields(p) ==
    IF p.role = "leader"
    THEN p.entry # NoChannel /\ p.work = NoChannel /\ p.users # {}
    ELSE p.entry = NoChannel /\ p.work # NoChannel /\ p.users = {}

(* validate_worktree: links are followed before worktrees are compared.    *)
WorktreeRules(p) ==
    /\ \A r, s \in p.roots : Overlap(r, s) => r = s
    /\ \A r \in p.roots : ~Overlap(Real[p.path], Real[r])

(* validate_grants: a repository lies in exactly one collection root, and  *)
(* the checkouts of one repository lie beside one another.                 *)
GrantRules(p) ==
    /\ p.grants # {}
    /\ \A g \in p.grants :
          \E r \in p.roots : \A s \in p.roots :
              Within(Real[g.repository], Real[s]) <=> s = r
    /\ \A g, h \in p.grants :
          /\ Real[g.repository] = Real[h.repository]
          /\ Overlap(g.checkout_subpath, h.checkout_subpath)
          => g = h

\* mutant: worktrees are compared as they are written
ApartAsWritten(p, q) == ~Overlap(p.path, q.path) /\ ~Overlap(p.mount, q.mount)
WorktreesApart(p, q) == ~Overlap(Real[p.path], Real[q.path]) /\ ~Overlap(p.mount, q.mount)

\* mutant: only the bot accounts are compared
AccountsOnly(p, q) == p.bot # q.bot
DiscordApart(p, q) == p.bot # q.bot /\ ChannelsOf(p) \intersect ChannelsOf(q) = {}

(* validate_trust: a star around the leader. *)
TrustTopology(d) ==
    \A leader \in Leaders(d) :
        /\ d[leader].trusted = {d[w].bot : w \in Workers(d)}
        /\ \A w \in Workers(d) : d[w].trusted = {d[leader].bot}

Valid(d) ==
    /\ \E leader \in DOMAIN d : Leaders(d) = {leader}
    /\ Workers(d) # {}
    /\ \A a \in DOMAIN d : RoleFields(d[a]) /\ WorktreeRules(d[a]) /\ GrantRules(d[a])
    /\ \A a, b \in DOMAIN d :
          a # b => WorktreesApart(d[a], d[b]) /\ DiscordApart(d[a], d[b])
    /\ TrustTopology(d)

(* What the validator returns: the same document, with real paths. *)
Resolved(p) ==
    [p EXCEPT !.path = Real[@],
              !.roots = {Real[r] : r \in @},
              !.grants = {[g EXCEPT !.repository = Real[@]] : g \in @}]
Normalized(d) == [a \in DOMAIN d |-> Resolved(d[a])]

Contents == {Normalized(d) : d \in {e \in Documents : Valid(e)}}
-----------------------------------------------------------------------------
(* render_openab_values and render_config_toml: what a pod is given.       *)

ChannelOf(p) == IF p.role = "leader" THEN p.entry ELSE p.work    \* _channel
HostDirectory(p, g) == p.path \o g.checkout_subpath
MountPoint(p, g) == p.mount \o g.checkout_subpath

(* The mounts of the grants.  The read-only inbox, one directory per agent *)
(* outside of every worktree, and the leader's configuration file are not  *)
(* in any workspace and left out.                                          *)
Mount == [host: Seq(Names), path: Seq(Names), access: Access]
Mounts(p) ==
    {[host |-> HostDirectory(p, g), path |-> MountPoint(p, g), access |-> g.access] :
        g \in p.grants}

Pod ==
    [role: Roles, bot: Bots, channel: Channels, users: SUBSET Humans,
     trusted: SUBSET Bots, mounts: SUBSET Mount]

\* mutant: every pod is given the work channel
WorkChannelPod(p) ==
    [role |-> p.role, bot |-> p.bot, channel |-> p.work, users |-> p.users,
     trusted |-> p.trusted, mounts |-> Mounts(p)]
Rendered(p) ==
    [role |-> p.role, bot |-> p.bot, channel |-> ChannelOf(p), users |-> p.users,
     trusted |-> p.trusted, mounts |-> Mounts(p)]

(* What a deploy of this catalog makes of the workload of an agent.        *)
PodOf(a, c) == IF a \in DOMAIN c THEN Rendered(c[a]) ELSE NoPod

(* evaluate_message *)
Message ==
    [channel: Channels, author: Bots \union Humans, mentions: SUBSET Bots]

Hears(p, m) ==
    /\ m.channel = p.channel
    /\ p.bot \in m.mentions
    /\ IF m.author \in Bots THEN m.author \in p.trusted
       ELSE m.author \in p.users /\ p.role = "leader"
-----------------------------------------------------------------------------
(* A Delivery Task and a Work Assignment. *)

Task ==
    [kind: {"code", "research"}, agent: Agents, path: HostPaths, mount: Seq(Names),
     repository: HostPaths, checkout_subpath: Subpaths, reply_to: Channels]
Assignment ==
    [phase: {"execution", "review"}, target: Agents, role: WORKER_ROLES,
     channel: Channels, bot: Bots, checkout: Seq(Names),
     status: {"prepared", "dispatched"}, author: Bots \union {NoBot}]

(* _matching_grant *)
Matches(p, t) ==
    {g \in p.grants : g.repository = t.repository /\ g.checkout_subpath = t.checkout_subpath}

\* mutant: the mount point of the task is not compared
TaskBoundButMount(t, c) ==
    /\ t.agent \in DOMAIN c
    /\ t.path = c[t.agent].path
    /\ t.reply_to = ChannelOf(c[t.agent])
    /\ \E g \in Matches(c[t.agent], t) :
          t.kind = "code" => c[t.agent].role = "developer" /\ g.access = "write"
(* validate_task_catalog_binding *)
TaskBound(t, c) ==
    /\ t.agent \in DOMAIN c
    /\ t.path = c[t.agent].path
    /\ t.mount = c[t.agent].mount \o t.checkout_subpath
    /\ t.reply_to = ChannelOf(c[t.agent])
    /\ \E g \in Matches(c[t.agent], t) :
          t.kind = "code" => c[t.agent].role = "developer" /\ g.access = "write"

RolesFor(phase) ==
    IF phase = "review" THEN {"reviewer"}
    ELSE IF task.kind = "code" THEN {"developer"} ELSE {"researcher", "developer"}

(* _validate_binding *)
TargetBound(w, c) ==
    /\ w.target \in DOMAIN c
    /\ c[w.target].role = w.role /\ w.role \in RolesFor(w.phase)
    /\ w.phase = "execution" => w.target = task.agent
    /\ w.bot = c[w.target].bot /\ w.channel = c[w.target].work
    /\ \E g \in Matches(c[w.target], task) :
          g.access = IF w.phase = "review" \/ task.kind # "code" THEN "read" ELSE "write"

MessageOf(w) == [channel |-> w.channel, author |-> w.author, mentions |-> {w.bot}]
-----------------------------------------------------------------------------
Init ==
    /\ catalog \in Contents
    /\ pod = [a \in Agents |-> NoPod]
    /\ task = NoTask
    /\ assignment = NoAssignment
    /\ held = NoCatalog

(* Somebody edits the file, as much of it as they like. *)
Edit(content) ==
    /\ content \in Contents
    /\ catalog' = content
    /\ UNCHANGED <<pod, task, assignment, held>>

(* A deploy reaches the workload of one agent: rendered anew, or removed.  *)
RollOut(a) ==
    /\ pod' = [pod EXCEPT ![a] = PodOf(a, catalog)]
    /\ UNCHANGED <<catalog, task, assignment, held>>

(* task-create *)
CreateTask(kind, a, g) ==
    LET p == catalog[a]
        t == [kind |-> kind, agent |-> a, path |-> p.path, mount |-> MountPoint(p, g),
              repository |-> g.repository, checkout_subpath |-> g.checkout_subpath,
              reply_to |-> ChannelOf(p)]
    IN
    /\ task = NoTask
    /\ TaskBound(t, catalog)
    /\ task' = t
    /\ UNCHANGED <<catalog, pod, assignment, held>>

(* assignment-prepare, when no assignment is waiting to be dispatched *)
Prepare(phase, target) ==
    LET p == catalog[target] IN
    /\ task # NoTask
    /\ assignment # NoAssignment => assignment.status = "dispatched"
    /\ TaskBound(task, catalog)
    /\ p.role \in RolesFor(phase)
    /\ phase = "execution" => target = task.agent
    /\ \E g \in Matches(p, task) :
          /\ phase = "execution" /\ task.kind = "code" => g.access = "write"
          /\ phase = "review" => g.access = "read"
    /\ assignment' =
          [phase |-> phase, target |-> target, role |-> p.role, channel |-> p.work,
           bot |-> p.bot, checkout |-> p.mount \o task.checkout_subpath,
           status |-> "prepared", author |-> NoBot]
    /\ UNCHANGED <<catalog, pod, task, held>>

(* assignment-dispatch loads the catalog once.  Then the preflight and the *)
(* preview run, and meanwhile the file may be edited and pods rolled out.  *)
(* One dispatch at a time; Dispatch is about two.                          *)
BeginDispatch ==
    /\ held = NoCatalog
    /\ assignment # NoAssignment
    /\ assignment.status = "prepared"
    /\ held' = catalog
    /\ UNCHANGED <<catalog, pod, task, assignment>>

(* The confirmed dispatch checks against the catalog in hand, and posts    *)
(* the message as the bot of that catalog's leader.                        *)
Dispatch ==
    /\ held # NoCatalog
    /\ assignment.status = "prepared"
    /\ TaskBound(task, held)
    /\ TargetBound(assignment, held)
    /\ \E leader \in Leaders(held) :
          assignment' = [assignment EXCEPT !.status = "dispatched",
                                           !.author = held[leader].bot]
    /\ held' = NoCatalog
    /\ UNCHANGED <<catalog, pod, task>>

(* It is refused, was only a preview, fails or dies.                       *)
StopDispatch ==
    /\ held # NoCatalog
    /\ held' = NoCatalog
    /\ UNCHANGED <<catalog, pod, task, assignment>>

Next ==
    \/ \E content \in Contents : Edit(content)
    \/ \E a \in Agents : RollOut(a)
    \/ \E a \in DOMAIN catalog : \E kind \in {"code", "research"}, g \in catalog[a].grants :
          CreateTask(kind, a, g)
    \/ \E phase \in {"execution", "review"}, target \in DOMAIN catalog :
          Prepare(phase, target)
    \/ BeginDispatch
    \/ Dispatch
    \/ StopDispatch

Spec == Init /\ [][Next]_vars
-----------------------------------------------------------------------------
(* Type invariant: a catalog that was loaded has only real paths, and what *)
(* is rendered, bound and prepared from it is complete.                    *)
TypeOK ==
    /\ DOMAIN catalog \subseteq Agents /\ catalog \in [DOMAIN catalog -> Profile]
    /\ \A a \in Agents : pod[a] \in Pod \union {NoPod}
    /\ DOMAIN pod = Agents
    /\ task \in Task \union {NoTask}
    /\ assignment \in Assignment \union {NoAssignment}
    /\ held \in Contents \union {NoCatalog}
    /\ held # NoCatalog => assignment # NoAssignment /\ assignment.status = "prepared"

(* Who listens to whom (validate_catalog and evaluate_message together):   *)
(* whatever is posted, by anybody, in any channel, at most one agent takes *)
(* it; a worker only from the leader's bot, the leader only from people on *)
(* its list and from its workers.  A message that mentions every bot is    *)
(* the worst case: to mention more bots never loses a listener.            *)
OneListener ==
    \A a \in DOMAIN catalog, author \in Bots \union Humans, channel \in Channels :
        LET m == [channel |-> channel, author |-> author, mentions |-> Bots] IN
        Hears(Rendered(catalog[a]), m) =>
            /\ \A b \in DOMAIN catalog : Hears(Rendered(catalog[b]), m) => a = b
            /\ a \in Workers(catalog) => \E l \in Leaders(catalog) : author = catalog[l].bot
            /\ a \in Leaders(catalog) =>
                  \/ author \in catalog[a].users
                  \/ \E w \in Workers(catalog) : author = catalog[w].bot

(* Workspaces (validate_worktree, validate_grants and the rendered mounts):*)
(* no two agents are given overlapping directories of the host, whatever   *)
(* links the catalog's paths went through; and what an agent is given      *)
(* overlaps no repository that it was cloned from, and no collection root. *)
WorkspacesApart ==
    \A a \in DOMAIN catalog : \A m \in Rendered(catalog[a]).mounts :
        /\ \A b \in DOMAIN catalog \ {a} : \A n \in Rendered(catalog[b]).mounts :
              ~Overlap(m.host, n.host) /\ ~Overlap(m.path, n.path)
        /\ \A r \in catalog[a].roots : ~Overlap(m.host, r)
        /\ \A g \in catalog[a].grants : ~Overlap(m.host, g.repository)

(* dispatch_assignment's binding checks: a message that is posted is heard *)
(* by its target, if the target's pod is as the catalog of the command     *)
(* says, although the file was edited after the task and the assignment    *)
(* were made and while the command ran; for an execution the checkout that *)
(* the message names is then a mount of the target's pod, of the directory *)
(* that the task was made for and with the access of its kind; and if all  *)
(* pods are as that catalog says, nobody else takes the message.           *)
(* (Two repositories may be granted under one checkout_subpath, which only *)
(* the grants of one repository are compared for: then the directory has a *)
(* second mount at the same path.)                                         *)
DispatchArrives ==
    [][Dispatch =>
          LET target == assignment.target
              message == MessageOf(assignment')
          IN
          /\ pod[target] = PodOf(target, held) =>
                /\ Hears(pod[target], message)
                /\ assignment.phase = "execution" =>
                      [host |-> task.path \o task.checkout_subpath,
                       path |-> assignment.checkout,
                       access |-> IF task.kind = "code" THEN "write" ELSE "read"]
                      \in pod[target].mounts
          /\ (\A a \in Agents : pod[a] = PodOf(a, held)) =>
                \A a \in Agents :
                    pod[a] # NoPod /\ Hears(pod[a], message) => a = target]_assignment
=============================================================================
