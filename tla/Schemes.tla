------------------------------ MODULE Schemes ------------------------------
(***************************************************************************)
(* The list of schemes and its namespaces, kernel/scheme/mod.rs; the root  *)
(* scheme ":", kernel/scheme/root.rs, through which daemons add schemes;   *)
(* and the ids and namespaces of contexts, kernel/syscall/privilege.rs.    *)
(*                                                                         *)
(* SchemeList is the record schemes.  Its operations are operators from    *)
(* such a record to the next one, as the code composes them.  Nothing ever *)
(* removes a scheme, a name or a namespace.                                *)
(***************************************************************************)
EXTENDS Naturals, FiniteSets, Sequences, SequencesExt, TLC

CONSTANTS
    Contexts,
    None,      \* the argument -1
    Uids,      \* user ids; 0 is root
    Gids,      \* group ids
    Defaults,  \* the names new_ns inserts, as a sequence that begins with ""
    RootOnly,  \* the names new_root adds, as a sequence
    Paths,     \* the names daemons register
    NameLists, \* the arguments of mkns
    MAX,       \* SCHEME_MAX_SCHEMES
    MaxNs,     \* bound on the namespaces
    MaxFiles   \* bound on the handles of all root schemes

VARIABLES
    schemes,   \* SCHEMES: map (id -> kind), names (namespace -> name -> id),
               \* next_ns, next_id, err (ENODEV of make_ns) and panic
    cred,      \* the ids and namespaces of a context
    handles,   \* RootScheme::handles of all root schemes
    next_file  \* RootScheme::next_id, by namespace

vars == <<schemes, cred, handles, next_file>>

Spaces == 0 .. MaxNs
Kinds == ({"root"} \X Spaces) \cup {<<"kernel">>, <<"user">>}

-----------------------------------------------------------------------------

(* The first id from n on that is not in map.                              *)
free_id(map, n) ==
    CHOOSE i \in n .. n + Cardinality(DOMAIN map) :
        i \notin DOMAIN map /\ \A j \in n .. i - 1 : j \in DOMAIN map

(* SchemeList::insert; a name that is taken (EEXIST) changes nothing.      *)
insert(list, ns, name, kind) ==
    LET id == free_id(list.map, IF list.next_id >= MAX THEN 1 ELSE list.next_id)
    IN  IF name \in DOMAIN list.names[ns] THEN list
        ELSE [list EXCEPT !.next_id = id + 1,
                          !.panic = @ \/ id \in DOMAIN list.map,
                          !.map = (id :> kind) @@ @,
                          !.names[ns] = (name :> id) @@ @]

insert_all(list, ns, names) ==
    FoldLeft(LAMBDA l, name : insert(l, ns, name, IF name = "" THEN <<"root", ns>> ELSE <<"kernel">>),
             list, names)

(* SchemeList::new_ns                                                      *)
new_ns(list) ==
    LET ns == list.next_ns
    IN  insert_all([list EXCEPT !.next_ns = ns + 1, !.names = (ns :> <<>>) @@ @], ns, Defaults)

(* SchemeList::new and new_root                                            *)
new_root ==
    insert_all(new_ns([map |-> <<>>, names |-> <<>>, next_ns |-> 0, next_id |-> 1,
                       err |-> FALSE, panic |-> FALSE]), 0, RootOnly)

(* The body of the loop of make_ns, which the first missing name ends.     *)
copy_name(list, from, to, name) ==
    IF list.err \/ list.panic THEN list
    ELSE IF name \notin DOMAIN list.names[from] THEN [list EXCEPT !.err = TRUE]
    ELSE IF name \in DOMAIN list.names[to] THEN [list EXCEPT !.panic = TRUE]
    ELSE [list EXCEPT !.names[to] = (name :> list.names[from][name]) @@ @]

(* SchemeList::make_ns.  On an error the new namespace stays.              *)
make_ns(list, from, names) ==
    FoldLeft(LAMBDA l, name : copy_name(l, from, list.next_ns, name),
             new_ns([list EXCEPT !.err = FALSE]), names)

Init ==
    /\ schemes = new_root
    /\ cred = [c \in Contexts |->
                 [ruid |-> 0, euid |-> 0, rgid |-> 0, egid |-> 0, rns |-> 0, ens |-> 0]]
    /\ handles = {}
    /\ next_file = [ns \in Spaces |-> 0]

-----------------------------------------------------------------------------
(* self.names[&ns] with a namespace that does not exist panics.            *)
lookup_panics(c) ==
    /\ cred[c].ens \notin DOMAIN schemes.names
    /\ schemes' = [schemes EXCEPT !.panic = TRUE]
    /\ UNCHANGED <<cred, handles, next_file>>

(* mkns, for root only                                                     *)
mkns(c, names) ==
    /\ cred[c].euid = 0
    /\ schemes.next_ns \in Spaces
    /\ cred[c].ens \in DOMAIN schemes.names
    /\ schemes' = make_ns(schemes, cred[c].ens, names)
    /\ UNCHANGED <<cred, handles, next_file>>

(* fetch_add of RootScheme::next_id                                        *)
next_number(ns) == [next_file EXCEPT ![ns] = @ + 1]

(* The bound on handles leaves room for another one.                       *)
more_files == FoldFunction(+, 0, next_file) < MaxFiles

(* RootScheme::open of path by c: c opens ":path" in its namespace.  The   *)
(* handle number is used up even if the name is taken.                     *)
open_root(c, path) ==
    LET ens == cred[c].ens
        root == schemes.map[schemes.names[ens][""]]
        ns == root[2]
        list == insert(schemes, ns, path, <<"user">>)
    IN  /\ cred[c].euid = 0
        /\ ens \in DOMAIN schemes.names
        /\ more_files
        /\ next_file' = next_number(ns)
        /\ schemes' = list
        /\ handles' = IF list = schemes THEN handles
                      ELSE handles \cup {[ns |-> ns, file |-> next_file[ns],
                                          inner |-> list.names[ns][path]]}
        /\ UNCHANGED cred

(* RootScheme::dup and close, by whoever has the handle.                   *)
dup(h) ==
    /\ more_files
    /\ next_file' = next_number(h.ns)
    /\ handles' = handles \cup {[h EXCEPT !.file = next_file[h.ns]]}
    /\ UNCHANGED <<schemes, cred>>

close(h) ==
    /\ handles' = handles \ {h}
    /\ UNCHANGED <<schemes, cred, next_file>>

-----------------------------------------------------------------------------
(* Bug: everybody may have any id that is not root.                        *)
may_set_other(k, r, e, x) == k.euid = 0 \/ x = None \/ x # 0

(* The test of setreuid, setregid and setrens: k may replace one of the    *)
(* pair r, e by x.                                                         *)
may_set(k, r, e, x) == k.euid = 0 \/ x = None \/ x = e \/ x = r

replaced(old, x) == IF x = None THEN old ELSE x

(* The context has the credentials k.                                      *)
set_cred(c, k) ==
    /\ cred' = [cred EXCEPT ![c] = k]
    /\ UNCHANGED <<schemes, handles, next_file>>

setreuid(c, r, e) ==
    LET k == cred[c]
    IN  /\ may_set(k, k.ruid, k.euid, r) /\ may_set(k, k.ruid, k.euid, e)
        /\ set_cred(c, [k EXCEPT !.ruid = replaced(@, r), !.euid = replaced(@, e)])

setregid(c, r, e) ==
    LET k == cred[c]
    IN  /\ may_set(k, k.rgid, k.egid, r) /\ may_set(k, k.rgid, k.egid, e)
        /\ set_cred(c, [k EXCEPT !.rgid = replaced(@, r), !.egid = replaced(@, e)])

setrens(c, r, e) ==
    LET k == cred[c]
    IN  /\ may_set(k, k.rns, k.ens, r) /\ may_set(k, k.rns, k.ens, e)
        /\ set_cred(c, [k EXCEPT !.rns = replaced(@, r), !.ens = replaced(@, e)])

Next ==
    /\ ~schemes.panic
    /\ \/ \E c \in Contexts :
            \/ lookup_panics(c)
            \/ \E names \in NameLists : mkns(c, names)
            \/ \E path \in Paths : open_root(c, path)
            \/ \E r \in Uids \cup {None}, e \in Uids \cup {None} : setreuid(c, r, e)
            \/ \E r \in Gids \cup {None}, e \in Gids \cup {None} : setregid(c, r, e)
            \/ \E r \in Spaces \cup {None}, e \in Spaces \cup {None} : setrens(c, r, e)
       \/ \E h \in handles : dup(h) \/ close(h)

Spec == Init /\ [][Next]_vars

-----------------------------------------------------------------------------
(* The types, every name is that of a scheme in the map, and no two        *)
(* handles of a root scheme have the same number.                          *)
TypeOK ==
    /\ \A id \in DOMAIN schemes.map : id \in Nat \ {0} /\ schemes.map[id] \in Kinds
    /\ DOMAIN schemes.names = 0 .. schemes.next_ns - 1
    /\ \A ns \in DOMAIN schemes.names :
         Range(schemes.names[ns]) \subseteq DOMAIN schemes.map
    /\ cred \in [Contexts -> [ruid : Uids, euid : Uids, rgid : Gids, egid : Gids,
                              rns : Spaces, ens : Spaces]]
    /\ \A g, h \in handles : g.ns = h.ns /\ g.file = h.file => g = h

(* No assertion of SchemeList fails: the id of a new scheme is free, also  *)
(* after the ids have wrapped around at SCHEME_MAX_SCHEMES, and make_ns    *)
(* does not insert a name twice.  Only root can make a namespace missing,  *)
(* when it enters one that was never made.                                 *)
NoPanic ==
    schemes.panic => \E c \in Contexts : cred[c].ens \notin DOMAIN schemes.names

(* Namespaces share only what mkns was asked to copy: a scheme that is in  *)
(* two namespaces has the same name in both, and no two names of one       *)
(* namespace are the same scheme, whatever order daemons register and      *)
(* namespaces are made in.                                                 *)
SharedByName ==
    \A m, n \in DOMAIN schemes.names :
        \A x \in DOMAIN schemes.names[m], y \in DOMAIN schemes.names[n] :
            schemes.names[m][x] = schemes.names[n][y] =>
                x = y /\ (m # n => \E names \in NameLists : x \in Range(names))

(* A context that has root neither as its real nor as its effective user   *)
(* id keeps to the ids and the namespaces it has.                          *)
KeepsIds ==
    \A c \in Contexts :
        LET k == cred[c]
        IN  k.ruid # 0 /\ k.euid # 0 =>
                /\ {k'.ruid, k'.euid} \subseteq {k.ruid, k.euid}
                /\ {k'.rgid, k'.egid} \subseteq {k.rgid, k.egid}
                /\ {k'.rns, k'.ens} \subseteq {k.rns, k.ens}

(* No call of setreuid, setregid or setrens, and so no sequence of them,   *)
(* gives such a context another id or namespace.                           *)
Confined == [][KeepsIds]_vars
=============================================================================
