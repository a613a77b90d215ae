----------------------------- MODULE Namespace ------------------------------
(***************************************************************************)
(* Inodes, directories, users and sessions of the file server: the inode   *)
(* cache of fs/src/inode.c, the directories of fs/src/dirop.c, the commands *)
(* of fs/src/fs.c and fs/src/user.c behind their handlers, and the mount    *)
(* that every new connection performs.                                     *)
(*                                                                         *)
(* A command is one step.  fs is all that the inode layer keeps; operators *)
(* named after a function take the fs it starts from and give the fs it    *)
(* leaves, those that return an inode together with its cache slot.  Data  *)
(* blocks are those of FileData and do not run out: a directory is a       *)
(* sequence of entries.  Paths are names of one component.  cat, w, i, d   *)
(* put every inode they get and leave this state as it is; so does ls while *)
(* its listing fits its buffer (handle.c:201: the loop ends without the    *)
(* iput when it does not).                                                 *)
(* A command that is refused is no step: all it may do is write the         *)
(* directory it has read back early.                                       *)
(***************************************************************************)
EXTENDS Integers, Sequences, FiniteSets, FiniteSetsExt

CONSTANTS
    Sessions,      \* connections
    Names,         \* names that clients give: to cd,
    DirNames,      \* to mkdir and rmdir,
    FileNames,     \* to mk and rm
    LongNames,     \* of them, those of MAXNAME characters and more; they begin with
    LongStem,      \* the same MAXNAME - 1 characters, a name too
    Users,         \* user ids; the home directory has the same name
    NINODES,       \* slots of the inode cache
    MaxInodes,     \* inodes of the inode table
    Spare,         \* bound: what makes an inode starts with this many free
    MaxRefs        \* bound: a command starts with fewer references to an inode

ASSUME NamespaceAssumption ==
    /\ NINODES \in Nat \ {0} /\ MaxInodes \in Nat \ {0} /\ Spare \in Nat /\ MaxRefs \in Nat
    /\ Users \cap {".", "..", ""} = {} /\ "" \notin Names \cup DirNames \cup FileNames /\ "root" \notin Users
    /\ LongNames \subseteq DirNames \cup FileNames
    /\ LongNames \cap ({".", "..", "home", LongStem} \cup Users) = {} /\ LongStem # ""

VARIABLES
    fs,                \* inode bitmap and table, directory contents, inode cache
    session,           \* of a connection: user, and the slot of its directory
    fs_initialized,
    where              \* history: the inode of the directory each session moved to

vars == <<fs, session, fs_initialized, where>>

NULL      == 0                     \* no slot
Slots     == 1..NINODES
Inums     == 0 .. MaxInodes - 1
ROOT_INUM == 0
USHORT    == 65536                 \* nlink is an unsigned short

\* What is told apart of an inode: type, links, owner, whether others may read
\* (no mode of the code lets others write), the number of directory entries
\* (size) and whose blocks hold them (addrs).
NoInode == [type |-> "none", nlink |-> 0, uid |-> "none", oread |-> FALSE, size |-> 0, addrs |-> 0]

FreeSlot == [inum |-> -1, ref |-> 0, ip |-> NoInode]

Entry(name, type, inum) == [name |-> name, type |-> type, inum |-> inum]
Removed == Entry("", "none", 0)
Garbage == Entry("?", "none", -1)

Found(f, k) == [fs |-> f, k |-> k]

-----------------------------------------------------------------------------
(* The inode layer *)

\* Only the number is reset.  What else stays in a slot is read again only
\* through the current directory of a session; elsewhere iget overwrites it.
init_inode_cache(f) ==
    [f EXCEPT !.ic = [k \in Slots |->
        IF \E c \in Sessions : session[c].cwd = k THEN [f.ic[k] EXCEPT !.inum = -1] ELSE FreeSlot]]

Cached(f, n) == {k \in Slots : f.ic[k].inum = n}

\* Inode n with a further reference in slot k, or read into it.
Held(f, k)    == Found([f EXCEPT !.ic[k].ref = f.ic[k].ref + 1], k)
Read(f, k, n) == Found([f EXCEPT !.ic[k] = [inum |-> n, ref |-> 1, ip |-> f.inode[n]]], k)

\* Mutant: the search ends at the first free slot.
iget_eager(f, n) ==
    IF n \notin Inums THEN Found(f, NULL)
    ELSE LET first == Cached(f, n) \cup Cached(f, -1)
         IN  IF first = {} THEN Found(f, NULL)
             ELSE IF Min(first) \in Cached(f, n) THEN Held(f, Min(first))
             ELSE Read(f, Min(first), n)

iget(f, n) ==
    IF n \notin Inums THEN Found(f, NULL)
    ELSE IF Cached(f, n) # {} THEN Held(f, Min(Cached(f, n)))
    ELSE IF Cached(f, -1) # {} THEN Read(f, Min(Cached(f, -1)), n)
    ELSE Found(f, NULL)

\* A slot that a mount has emptied has inode number -1, beyond the disk:
\* nothing is written.
iupdate(f, k) ==
    IF f.ic[k].inum \in Inums THEN [f EXCEPT !.inode[f.ic[k].inum] = f.ic[k].ip] ELSE f

\* Mutant: the slot is not given up.
iput_kept(f, k) ==
    IF k = NULL THEN f
    ELSE LET g == [f EXCEPT !.ic[k].ref = IF f.ic[k].ref > 0 THEN f.ic[k].ref - 1 ELSE 0]
         IN  IF g.ic[k].ref = 0 THEN iupdate(g, k) ELSE g

iput(f, k) ==
    IF k = NULL THEN f
    ELSE LET g == [f EXCEPT !.ic[k].ref = IF f.ic[k].ref > 0 THEN f.ic[k].ref - 1 ELSE 0]
         IN  IF g.ic[k].ref = 0 THEN [iupdate(g, k) EXCEPT !.ic[k] = FreeSlot] ELSE g

\* The inode as ialloc writes it, without data.
NewInode(f, n, type) ==
    [f EXCEPT !.inode[n] = [NoInode EXCEPT !.type = type, !.nlink = 1, !.oread = TRUE, !.addrs = n],
              !.ents[n] = <<>>]

\* Mutant: the bitmap is not written back.
ialloc_unmarked(f, type) ==
    LET n == Min({i \in 0..MaxInodes : i \notin f.imap})
    IN  IF n \notin Inums THEN Found(f, NULL) ELSE iget(NewInode(f, n, type), n)

\* The lowest free number.  The code compares it with the number of blocks, so
\* it may lie behind the table: the new inode then goes over the first entries
\* of the first data block, which is the root directory's, and iget fails.
ialloc(f, type) ==
    LET n == Min({i \in 0..MaxInodes : i \notin f.imap})
        g == [f EXCEPT !.imap = f.imap \cup {n}]
    IN  IF n \in Inums THEN iget(NewInode(g, n, type), n)
        ELSE Found([g EXCEPT !.ents[ROOT_INUM] =
                       [i \in DOMAIN f.ents[ROOT_INUM] |->
                           IF i <= 4 THEN Garbage ELSE f.ents[ROOT_INUM][i]]], NULL)

\* What the callers of ialloc set in the new inode.
Owned(f, k, nlink, uid, oread) ==
    iupdate([f EXCEPT !.ic[k].ip = [f.ic[k].ip EXCEPT !.nlink = nlink, !.uid = uid, !.oread = oread]], k)

\* An inode that somebody holds stays; its blocks are not told apart here.
iremove(f, k) ==
    IF f.ic[k].ip.nlink # 0 \/ f.ic[k].ref # 0 THEN f
    ELSE [f EXCEPT !.imap = f.imap \ {f.ic[k].inum}]

-----------------------------------------------------------------------------
(* Directories *)

IsDir(f, k) == k # NULL /\ f.ic[k].ip.type = "dir"

Upto(seq, n) == SubSeq(seq, 1, Min({n, Len(seq)}))

\* The entries that the inode in slot k reaches; another inode of the same number
\* may have taken some away.
Dir(f, k) == Upto(f.ents[f.ic[k].ip.addrs], f.ic[k].ip.size)

Matches(f, k, name, type) ==
    {i \in DOMAIN Dir(f, k) : Dir(f, k)[i].name = name /\ Dir(f, k)[i].type = type}

\* readi and writei end with an iupdate of the directory.
Scanned(f, k) == IF Dir(f, k) = <<>> THEN f ELSE iupdate(f, k)

\* Mutant: the last entry is not looked at.
dir_lookup_short(f, k, name, type) ==
    IF ~IsDir(f, k) THEN Found(f, NULL)
    ELSE LET m == Matches(f, k, name, type) \ {Len(Dir(f, k))}
         IN  IF m = {} THEN Found(Scanned(f, k), NULL) ELSE iget(Scanned(f, k), Dir(f, k)[Min(m)].inum)

\* A removed entry matches no name.
dir_lookup(f, k, name, type) ==
    IF ~IsDir(f, k) THEN Found(f, NULL)
    ELSE LET m == Matches(f, k, name, type)
         IN  IF m = {} THEN Found(Scanned(f, k), NULL) ELSE iget(Scanned(f, k), Dir(f, k)[Min(m)].inum)

\* Entry i of the directory in slot k, on disk.
WriteEntry(f, k, i, e) ==
    LET d == f.ic[k].ip.addrs
        s == f.ents[d]
    IN  [f EXCEPT !.ents[d] = Upto(s, i - 1) \o <<e>> \o SubSeq(s, i + 1, Len(s))]

\* What dir_add copies of a name.  The other functions compare MAXNAME characters,
\* so that an entry made for a long name bears another one.
Clipped(name) == IF name \in LongNames THEN LongStem ELSE name

\* The entry goes to the end: a removed entry has an empty name, and the loop
\* looks for one called "/".
dir_add(f, k, name, type, inum) ==
    IF ~IsDir(f, k) THEN f
    ELSE iupdate([WriteEntry(f, k, f.ic[k].ip.size + 1, Entry(Clipped(name), type, inum))
                     EXCEPT !.ic[k].ip.size = f.ic[k].ip.size + 1], k)

\* The entries dir_remove may remove: not those of the root directory.
Removable(f, k, name, type) == {i \in Matches(f, k, name, type) : Dir(f, k)[i].inum # ROOT_INUM}

dir_remove(f, k, name, type) ==
    LET m == Removable(f, k, name, type)
    IN  IF m = {} THEN Scanned(f, k) ELSE iupdate(WriteEntry(f, k, Min(m), Removed), k)

\* Mutant: every directory counts as empty.
dir_is_empty_always(f, k) == f.ic[k].ip.type = "dir"

dir_is_empty(f, k) ==
    \A i \in DOMAIN Dir(f, k) :
        Dir(f, k)[i].inum = 0 \/ Dir(f, k)[i].name \in {".", ".."}

\* A new directory in slot k: its inode and the entries it starts with.
NewDir(f, k, uid, oread, parent) ==
    dir_add(dir_add(Owned(f, k, 2, uid, oread), k, ".", "dir", f.ic[k].inum), k, "..", "dir", parent)

-----------------------------------------------------------------------------
(* Commands, on the directory in slot k and for user uid *)

\* A name that exists is an error; the reference the lookup took stays.
cmd_mk(f, k, uid, name) ==
    LET l == dir_lookup(f, k, name, "file")
        a == ialloc(l.fs, "file")
    IN  IF l.k # NULL THEN l.fs
        ELSE IF a.k = NULL THEN a.fs
        ELSE iput(dir_add(Owned(a.fs, a.k, 1, uid, FALSE), k, name, "file", a.fs.ic[a.k].inum), a.k)

cmd_mkdir(f, k, uid, name) ==
    LET l == dir_lookup(f, k, name, "dir")
        a == ialloc(l.fs, "dir")
    IN  IF l.k # NULL THEN l.fs
        ELSE IF a.k = NULL THEN a.fs
        ELSE iput(dir_add(NewDir(a.fs, a.k, uid, FALSE, a.fs.ic[k].inum),
                          k, name, "dir", a.fs.ic[a.k].inum), a.k)

\* The shared end of cmd_rm and cmd_rmdir: the entry goes, links are dropped,
\* the inode is removed if none is left.
Unlink(f, k, ip, name, type, links) ==
    LET g == dir_remove(f, k, name, type)
        r == [g EXCEPT !.ic[ip].ip.nlink = (g.ic[ip].ip.nlink - links) % USHORT]
    IN  IF Removable(f, k, name, type) = {} THEN iput(g, ip)
        ELSE iput(IF r.ic[ip].ip.nlink = 0 THEN iremove(r, ip) ELSE r, ip)

cmd_rm(f, k, name) ==
    LET l == dir_lookup(f, k, name, "file")
    IN  IF l.k = NULL THEN l.fs ELSE Unlink(l.fs, k, l.k, name, "file", 1)

cmd_rmdir(f, k, name) ==
    LET l == dir_lookup(f, k, name, "dir")
        g == Scanned(l.fs, l.k)
    IN  IF l.k = NULL THEN l.fs
        ELSE IF ~dir_is_empty(g, l.k) THEN iput(g, l.k)
        ELSE Unlink(g, k, l.k, name, "dir", 2)

\* Mutant: the parent is released although it is the new directory.
cmd_cd_dot(f, k, name) ==
    LET p == iget(f, f.ic[k].inum)
        t == IF name = "." THEN Found(iput(p.fs, p.k), p.k)
             ELSE LET l == dir_lookup(p.fs, p.k, name, "dir") IN Found(iput(l.fs, p.k), l.k)
    IN  IF t.k = NULL THEN Found(t.fs, k) ELSE Found(iput(t.fs, k), t.k)

\* cmd_cd with a name of one component.  A path with slashes it resolves from the
\* root directory or the current one, if the handler finds an entry of that name;
\* such names, which mkdir accepts, are left out.
cmd_cd(f, k, name) ==
    LET p == iget(f, f.ic[k].inum)
        t == IF name = "." THEN p
             ELSE LET l == dir_lookup(p.fs, p.k, name, "dir") IN Found(iput(l.fs, p.k), l.k)
    IN  IF t.k = NULL THEN Found(t.fs, k) ELSE Found(iput(t.fs, k), t.k)

get_home_root(f) ==
    LET r == iget(f, ROOT_INUM)
        l == dir_lookup(r.fs, r.k, "home", "dir")
    IN  Found(iput(l.fs, r.k), l.k)

CreateHome(f) ==
    LET r == iget(f, ROOT_INUM)
        a == ialloc(r.fs, "dir")
        n == a.fs.ic[a.k].inum
    IN  IF a.k = NULL THEN Found(iput(a.fs, r.k), NULL)
        ELSE get_home_root(iput(iput(NewDir(dir_add(a.fs, r.k, "home", "dir", n),
                                            a.k, "root", TRUE, ROOT_INUM), a.k), r.k))

\* /home, created if it is missing; h is what get_home_root returned.
HomeRoot(h) == IF h.k # NULL THEN h ELSE CreateHome(h.fs)

\* Mutant: the new directory's parent is the root directory.
AddUserDir_root(h, u) ==
    LET l == dir_lookup(h.fs, h.k, u, "dir")
        a == ialloc(l.fs, "dir")
    IN  IF h.k = NULL THEN h.fs
        ELSE IF l.k # NULL THEN iput(l.fs, h.k)
        ELSE IF a.k = NULL THEN iput(a.fs, h.k)
        ELSE iput(iput(dir_add(NewDir(a.fs, a.k, u, FALSE, ROOT_INUM),
                               h.k, u, "dir", a.fs.ic[a.k].inum), a.k), h.k)

\* A directory for the user in /home, which h has found.  A user who exists is an
\* error; the reference that the lookup took stays.
AddUserDir(h, u) ==
    LET l == dir_lookup(h.fs, h.k, u, "dir")
        a == ialloc(l.fs, "dir")
    IN  IF h.k = NULL THEN h.fs
        ELSE IF l.k # NULL THEN iput(l.fs, h.k)
        ELSE IF a.k = NULL THEN iput(a.fs, h.k)
        ELSE iput(iput(dir_add(NewDir(a.fs, a.k, u, FALSE, a.fs.ic[h.k].inum),
                               h.k, u, "dir", a.fs.ic[a.k].inum), a.k), h.k)

user_add(f, u) == AddUserDir(HomeRoot(get_home_root(f)), u)

\* The directory goes out of /home; its inode is only put.
user_delete(f, u) ==
    LET h == get_home_root(f)
        l == dir_lookup(h.fs, h.k, u, "dir")
        e == Scanned(l.fs, l.k)
        g == IF dir_is_empty(e, l.k) THEN dir_remove(e, h.k, u, "dir") ELSE e
    IN  IF h.k = NULL THEN h.fs
        ELSE IF l.k = NULL THEN iput(l.fs, h.k)
        ELSE iput(iput(g, l.k), h.k)

\* The directory of user u in /home, which h has found.
UserDir(h, u) ==
    LET l == dir_lookup(h.fs, h.k, u, "dir") IN Found(iput(l.fs, h.k), l.k)

\* It is created by the first login; a user_add that fails leaves nothing to find.
FirstLogin(h, l, u) ==
    IF h.k = NULL \/ l.k # NULL THEN l
    ELSE UserDir(get_home_root(user_add(l.fs, u)), u)

-----------------------------------------------------------------------------
(* Sessions *)

Offline == [on |-> FALSE, uid |-> "none", cwd |-> NULL]

\* The bounds: of a command, and of one that makes files or directories.
Bounded ==
    /\ MaxInodes \notin fs.imap       \* no command after a first overflow
    /\ \A k \in Slots : fs.ic[k].ref < MaxRefs
Room == Cardinality(Inums \ fs.imap) >= Spare

\* cmd_f: an empty table and cache, the root directory and /home.  Only the
\* session that formats gets a new current directory.
Formatted(f) ==
    LET e == init_inode_cache([f EXCEPT !.imap = {},
                 !.inode = [n \in Inums |-> NoInode], !.ents = [n \in Inums |-> <<>>]])
        r == ialloc(e, "dir")
        h == CreateHome(dir_add(Owned(r.fs, r.k, 1, "root", TRUE), r.k, ".", "dir", ROOT_INUM))
    IN  Found(iput(h.fs, h.k), r.k)

\* fs_mount empties the inode cache, whoever holds its inodes.
on_connection(c) ==
    LET m == iget(init_inode_cache(fs), ROOT_INUM)
    IN  /\ ~session[c].on
        /\ IF ROOT_INUM \in fs.imap
           THEN /\ fs' = m.fs
                /\ session' = [session EXCEPT ![c] = [on |-> TRUE, uid |-> "none", cwd |-> m.k]]
                /\ fs_initialized' = TRUE
           ELSE /\ session' = [session EXCEPT ![c] = [Offline EXCEPT !.on = TRUE]]
                /\ UNCHANGED <<fs, fs_initialized>>
        /\ where' = [where EXCEPT ![c] = ROOT_INUM]

cleanup(c) ==
    /\ session[c].on
    /\ fs' = iput(fs, session[c].cwd)
    /\ session' = [session EXCEPT ![c] = Offline]
    /\ UNCHANGED <<fs_initialized, where>>

handle_f(c) ==
    LET r == Formatted(fs)
    IN  /\ session[c].on /\ session[c].uid = "root"
        /\ fs' = r.fs
        /\ session' = [session EXCEPT ![c].cwd = r.k]
        /\ where' = [where EXCEPT ![c] = ROOT_INUM]
        /\ fs_initialized' = TRUE

\* The user with id 1 has no home directory and stays where it is.
login_root(c) ==
    /\ session[c].on
    /\ session' = [session EXCEPT ![c].uid = "root"]
    /\ UNCHANGED <<fs, fs_initialized, where>>

\* Session c becomes user u's, whose home directory l has found.
Logged(c, u, l, r) ==
    IF l.k = NULL
    THEN fs' = l.fs /\ UNCHANGED <<session, where>>
    ELSE /\ fs' = iput(r.fs, l.k)
         /\ session' = [session EXCEPT ![c].uid = u, ![c].cwd = r.k]
         /\ where' = [where EXCEPT ![c] = ROOT_INUM]

user_login(c, u) ==
    LET h == get_home_root(fs)
        l == FirstLogin(h, UserDir(h, u), u)
    IN  /\ session[c].on /\ fs_initialized /\ Bounded /\ Room
        /\ Logged(c, u, l, iget(iput(l.fs, session[c].cwd), ROOT_INUM))
        /\ UNCHANGED fs_initialized

\* What on_recv asks before it calls a handler.
LoggedIn(c) == session[c].on /\ session[c].uid # "none" /\ fs_initialized

\* A session without a current directory can only add and delete users: the other
\* handlers follow the null pointer, which is left out.
Ready(c) == LoggedIn(c) /\ session[c].cwd # NULL

\* user_check_perm
MayWrite(f, c, k) == f.ic[k].ip.uid = session[c].uid
MayRead(f, c, k)  == MayWrite(f, c, k) \/ f.ic[k].ip.oread

\* A handler that changes the file system and nothing of the session.
Change(f) == Bounded /\ fs' = f /\ UNCHANGED <<session, fs_initialized, where>>

handle_mk(c, name) ==
    /\ Ready(c) /\ Room /\ MayWrite(fs, c, session[c].cwd)
    /\ Change(cmd_mk(fs, session[c].cwd, session[c].uid, name))

handle_mkdir(c, name) ==
    /\ Ready(c) /\ Room /\ MayWrite(fs, c, session[c].cwd)
    /\ Change(cmd_mkdir(fs, session[c].cwd, session[c].uid, name))

\* The handlers look the name up, check it and let it go before the command.
handle_rm(c, name) ==
    LET l == dir_lookup(fs, session[c].cwd, name, "file")
    IN  /\ Ready(c) /\ l.k # NULL
        /\ MayWrite(fs, c, session[c].cwd) /\ MayWrite(l.fs, c, l.k)
        /\ Change(cmd_rm(iput(l.fs, l.k), session[c].cwd, name))

handle_rmdir(c, name) ==
    LET l == dir_lookup(fs, session[c].cwd, name, "dir")
    IN  /\ Ready(c) /\ l.k # NULL
        /\ MayWrite(fs, c, session[c].cwd) /\ MayWrite(l.fs, c, l.k)
        /\ Change(cmd_rmdir(iput(l.fs, l.k), session[c].cwd, name))

handle_cd(c, name) ==
    LET l == dir_lookup(fs, session[c].cwd, name, "dir")
        r == cmd_cd(iput(l.fs, l.k), session[c].cwd, name)
    IN  /\ Ready(c) /\ Bounded /\ l.k # NULL /\ MayRead(l.fs, c, l.k)
        /\ fs' = r.fs
        /\ session' = [session EXCEPT ![c].cwd = r.k]
        /\ where' = [where EXCEPT ![c] = IF name = "." THEN where[c] ELSE l.fs.ic[l.k].inum]
        /\ UNCHANGED fs_initialized

handle_useradd(c, u) ==
    /\ LoggedIn(c) /\ Room /\ session[c].uid = "root"
    /\ Change(user_add(fs, u))

handle_userdel(c, u) ==
    /\ LoggedIn(c) /\ session[c].uid = "root"
    /\ Change(user_delete(fs, u))

\* A disk that has never been formatted.
Init ==
    /\ fs = [imap |-> {}, inode |-> [n \in Inums |-> NoInode], ents |-> [n \in Inums |-> <<>>],
             ic |-> [k \in Slots |-> FreeSlot]]
    /\ session = [c \in Sessions |-> Offline]
    /\ fs_initialized = FALSE
    /\ where = [c \in Sessions |-> ROOT_INUM]

Next ==
    \E c \in Sessions :
        \/ on_connection(c) \/ cleanup(c) \/ handle_f(c) \/ login_root(c)
        \/ \E u \in Users : user_login(c, u) \/ handle_useradd(c, u) \/ handle_userdel(c, u)
        \/ \E n \in FileNames : handle_mk(c, n) \/ handle_rm(c, n)
        \/ \E n \in DirNames : handle_mkdir(c, n) \/ handle_rmdir(c, n)
        \/ \E n \in Names : handle_cd(c, n)

Spec == Init /\ [][Next]_vars

-----------------------------------------------------------------------------
(* Properties *)

\* A slot of the inode cache that holds an inode is referred to by somebody, and
\* sessions refer to slots.
TypeOK ==
    /\ fs.imap \subseteq 0..MaxInodes
    /\ \A k \in Slots : fs.ic[k].inum \in Inums \cup {-1} /\ fs.ic[k].ref \in Nat
    /\ \A k \in Slots : fs.ic[k].inum # -1 => fs.ic[k].ref > 0
    /\ \A n \in Inums : fs.inode[n].nlink \in 0 .. USHORT - 1
    /\ \A c \in Sessions : session[c].cwd \in Slots \cup {NULL}

\* iget: an inode is in at most one slot, so that a session and a command that
\* use it change the same copy, whatever references leak.
CachedOnce ==
    \A j, k \in Slots : fs.ic[j].inum = fs.ic[k].inum /\ fs.ic[j].inum # -1 => j = k

\* fs_mount: "make every session's cwd point to the root directory".  From then
\* on a session's current directory is the one it moved to, and the session
\* holds it in the cache, whatever other connections do.
SessionKeepsCwd ==
    \A c \in Sessions :
        session[c].cwd # NULL =>
            /\ fs.ic[session[c].cwd].inum = where[c]
            /\ fs.ic[session[c].cwd].ref > 0

Live(d) == {i \in DOMAIN fs.ents[d] : fs.ents[d][i] # Removed}

\* ialloc and dir_add: every entry of every directory leads to an inode that is
\* allocated and of the type the entry says.
EntriesLive ==
    \A d \in Inums : \A i \in Live(d) :
        LET e == fs.ents[d][i]
        IN  e.inum \in fs.imap \cap Inums /\ fs.inode[e.inum].type = e.type

\* cmd_mk, cmd_mkdir, user_add: no name is twice in a directory with the same
\* type ("file already exists", fs.c:144), although a lookup also fails when the
\* inode cache is full.  A name of MAXNAME characters is never found again, and is.
OneName ==
    \A d \in Inums : \A i, j \in Live(d) :
        fs.ents[d][i].name = fs.ents[d][j].name /\ fs.ents[d][i].type = fs.ents[d][j].type => i = j

\* Where cd .. leads from directory d.
Parents(d) == {fs.ents[d][i].inum : i \in {j \in Live(d) : fs.ents[d][j].name = ".." /\ fs.ents[d][j].type = "dir"}}

\* cmd_mkdir and user_add: from a directory that has a name in another one,
\* cd .. leads back to that one.
DotDot ==
    \A d \in Inums : \A i \in Live(d) :
        LET e == fs.ents[d][i]
        IN  e.type = "dir" /\ e.name \notin {".", ".."} => Parents(e.inum) = {d}

\* cmd_rmdir and user_delete: the entry of a directory is zeroed only when that
\* directory has no entries but "." and "..".
RemovesOnlyEmpty ==
    [][\A d \in Inums : \A i \in Live(d) :
          /\ i \in DOMAIN fs'.ents[d] /\ fs'.ents[d][i] = Removed
          /\ fs.ents[d][i].type = "dir"
          => \A j \in Live(fs.ents[d][i].inum) :
                fs.ents[fs.ents[d][i].inum][j].name \in {".", ".."}]_(fs.ents)

=============================================================================
