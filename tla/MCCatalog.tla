------------------------------ MODULE MCCatalog ------------------------------
(***************************************************************************)
(* An instance of Catalog for TLC: a leader, a developer and a reviewer,   *)
(* and every file that is a few edits away from a valid one.               *)
(***************************************************************************)
EXTENDS Catalog

CONSTANTS l, d, r, bl, bd, br, b4, c1, c2, c3, h1

(* Directories of the host.  /link leads to the developer's worktree, and  *)
(* /src2 into the collection root /src.                                    *)
Links == [p \in {<<"link">>, <<"src2">>} |->
            IF p = <<"link">> THEN <<"w", "d">> ELSE <<"src">>]
Directories ==
    {<<"w", "l">>, <<"w", "d">>, <<"w", "r">>, <<"w", "r", "x">>, <<"w", "n">>,
     <<"src">>, <<"src", "x">>, <<"src", "y">>, <<"other">>}
HostPathsOf == Directories \union DOMAIN Links
RealOf == [p \in HostPathsOf |-> IF p \in DOMAIN Links THEN Links[p] ELSE p]
MountPathsOf == {<<"m", "l">>, <<"m", "d">>, <<"m", "r">>, <<"m">>, <<"m", "n">>}
SubpathsOf == {<<"x">>, <<"x", "sub">>}
NamesOf == {"w", "l", "d", "r", "x", "n", "src", "y", "other", "m", "link", "src2", "sub"}

GrantOf(repository, checkout, access) ==
    [repository |-> repository, checkout_subpath |-> checkout, access |-> access]
Reads == GrantOf(<<"src", "x">>, <<"x">>, "read")
Writes == GrantOf(<<"src", "x">>, <<"x">>, "write")
Nested == GrantOf(<<"src", "x">>, <<"x", "sub">>, "read")
Second == GrantOf(<<"src", "y">>, <<"x">>, "read")
Outside == GrantOf(<<"other">>, <<"x">>, "read")

(* The catalog that every edit starts from, and the same without the       *)
(* reviewer.                                                               *)
ProfileOf(role, bot, entry, work, users, trusted, path, mount, grants) ==
    [role |-> role, bot |-> bot, entry |-> entry, work |-> work, users |-> users,
     trusted |-> trusted, path |-> path, mount |-> mount, roots |-> {<<"src">>},
     grants |-> grants]
Leader(trusted) ==
    ProfileOf("leader", bl, c1, NoChannel, {h1}, trusted, <<"w", "l">>, <<"m", "l">>, {Reads})
Developer ==
    ProfileOf("developer", bd, NoChannel, c2, {}, {bl}, <<"w", "d">>, <<"m", "d">>, {Writes})
Reviewer ==
    ProfileOf("reviewer", br, NoChannel, c3, {}, {bl}, <<"w", "r">>, <<"m", "r">>, {Reads})
Base == [a \in {l, d, r} |->
            IF a = l THEN Leader({bd, br}) ELSE IF a = d THEN Developer ELSE Reviewer]
(* Accounts and channels may also move: the developer and the reviewer     *)
(* exchange theirs.                                                        *)
Exchanged ==
    [Base EXCEPT ![d].bot = br, ![d].work = c3, ![r].bot = bd, ![r].work = c2]
Smaller == [a \in {l, d} |-> IF a = l THEN Leader({bd}) ELSE Developer]

(* One field of one agent is changed. *)
DiscordEdits(c) ==
    UNION {
        {[c EXCEPT ![a].role = x] : x \in {"leader", "developer", "reviewer"}}
        \union {[c EXCEPT ![a].entry = x] : x \in Channels \union {NoChannel}}
        \union {[c EXCEPT ![a].work = x] : x \in Channels \union {NoChannel}}
        \union {[c EXCEPT ![a].users = x] : x \in SUBSET Humans}
        \union {[c EXCEPT ![a].trusted = x] : x \in SUBSET Bots}
        : a \in DOMAIN c}
    \union {[c EXCEPT ![d].bot = x] : x \in {bd, b4} \union {c[a].bot : a \in DOMAIN c}}

WorktreeEdits(c) ==
    {[c EXCEPT ![d].path = x] : x \in HostPaths}
    \union {[c EXCEPT ![d].mount = x] : x \in MountPaths}
    \union {[c EXCEPT ![d].grants = x] :
               x \in {{}, {Writes}, {Reads}, {Reads, Nested}, {Writes, Second}, {Outside}}}
    \union {[c EXCEPT ![d].roots = x] :
               x \in {{}, {<<"src">>, <<"other">>}, {<<"src">>, <<"src", "x">>},
                      {<<"src">>, <<"src2">>}, {<<"src2">>}, {<<"w", "d">>, <<"src">>}}}
    \union {[c EXCEPT ![l].path = <<"link">>], [c EXCEPT ![l].path = <<"src2">>]}

(* Bounds: up to two edits of the Discord part, or one of the rest; one    *)
(* edit when there is no reviewer; and the exchange.                       *)
DocumentsOf ==
    UNION {DiscordEdits(c) : c \in DiscordEdits(Base)}
    \union WorktreeEdits(Base) \union DiscordEdits(Smaller) \union {Exchanged}

(* Bounds: the file alternates between the first catalog and one other,    *)
(* and each pod is as one of the two says.                                 *)
PodsOf(c) == [a \in Agents |-> PodOf(a, c)]
Renderings == {[content |-> c, pods |-> PodsOf(c)] : c \in Contents}
First == CHOOSE o \in Renderings : o.content = Normalized(Base)

TwoContents ==
    \E o \in Renderings :
        /\ catalog \in {First.content, o.content}
        /\ held \in {NoCatalog, First.content, o.content}
        /\ \A a \in Agents : pod[a] \in {NoPod, First.pods[a], o.pods[a]}
=============================================================================
