------------------------------ MODULE FileServer ------------------------------
(***************************************************************************)
(* The epoll file server of the third day (day3/hw3_server.c): one loop     *)
(* that greets clients, lists directories and starts a thread for each      *)
(* download and upload, with a slot per descriptor that accept does not     *)
(* clear; and its clients (day3/hw3_client.c), each a user at a menu.       *)
(*                                                                          *)
(* A stream is a sequence of units: the start, a command, a chunk (a block  *)
(* of stdio), and what a handler writes in several calls without a read in  *)
(* between: the arguments of an upload (3 writes) and a listing (1, 2 for   *)
(* each directory and 3 for each file).  No read looks at how much it got:  *)
(* one inside a unit may come short, and one of up to 1024 bytes may take   *)
(* the next units too.  What a program does with bytes it took for          *)
(* something else depends on the bytes: the model stops there (astray).     *)
(***************************************************************************)
EXTENDS Integers, Sequences, FiniteSets, SequencesExt

CONSTANTS
    N,          \* clients
    SubDirs,    \* directory -> the directories in it, in readdir's order; "." is the server's
    FileNames,  \* the names of files
    Disk0,      \* path <<directory, name>> -> the file there, its chunks by who wrote them
    UpSize,     \* chunks of the file a client may upload
    Commands,   \* bound: commands of each client
    Typed,      \* the numbers a user may type, listed or not
    Junk,       \* the sizes that a client's memory may hold past its listing
    Mortal      \* clients that may end without a command E

Root == "."
Clients == 1 .. N   \* in the order they connect
Fds == 1 .. N
None == 0
Server == 0         \* the event of serv_sock
Original == 0       \* who wrote a file the server began with
Hole == -1          \* a chunk beyond the end that was written over
Extra == -2         \* bytes that are not of an upload's file
Dirs == UNION {{d} \cup ToSet(SubDirs[d]) : d \in DOMAIN SubDirs}
Paths == (DOMAIN SubDirs) \X FileNames
NoPath == <<Root, "">>

(* A directory of the root's has one directory at most: of two, the second  *)
(* would be looked up in the directory of the first one's name.             *)
ASSUME FileAssumption ==
    /\ N \in Nat \ {0} /\ Commands \in [1 .. N -> Nat] /\ UpSize \in Nat \ {0} /\ Mortal \subseteq 1 .. N
    /\ Typed \subseteq Int /\ Junk \subseteq Nat /\ "" \notin Dirs
    /\ Root \in DOMAIN SubDirs /\ DOMAIN SubDirs = {Root} \cup ToSet(SubDirs[Root])
    /\ \A d \in DOMAIN SubDirs : SubDirs[d] \in Seq(Dirs \ {Root})
    /\ \A d \in DOMAIN SubDirs \ {Root} : Len(SubDirs[d]) <= 1
    /\ IsFiniteSet(FileNames) /\ "" \notin FileNames
    /\ DOMAIN Disk0 \subseteq Paths /\ Disk0 \in [DOMAIN Disk0 -> Seq({Original})]

VARIABLES
    state,      \* "run", "gone" when the server has ended, "astray"
    clnt_sock,  \* main's variable: the descriptor accepted last
    watched,    \* descriptors in the epoll set
    batch,      \* events that epoll_wait returned and the loop has not taken
    cur, step,  \* the event taken, and how far its handling is: "poll", "read", "act"
    slot,       \* serv_cnt, one slot per descriptor
    threads,    \* the download and upload threads
    disk,       \* the files: path -> chunks
    net,        \* the connections: fd (None when closed), conn, up and down
    cl,         \* the clients
    found,      \* history: the message and place a client's slot held when it was accepted
    misdel,     \* history: clients whose upload took another's socket from the epoll set
    misled,     \* history: clients that chose a directory with a directory, or a number
                \*   that their listing did not have
    cut,        \* history: clients with a unit read in part, or together with the next
    rewritten,  \* history: paths that an upload opened, each with the client it came from
    stored,     \* history: where a client's upload was finished
    astray      \* history: clients whose bytes were taken for something else

loopVars == <<clnt_sock, watched, batch, cur, step, slot>>
history == <<found, misdel, misled, cut, rewritten, stored, astray>>
vars == <<state, loopVars, threads, disk, net, cl, history>>

NoMessage == [msg |-> "none", index |-> 0, is_dir |-> FALSE, dir_index |-> 0]
NoListing == [dirs |-> << >>, files |-> << >>]
Unit(kind, val) == [kind |-> kind, val |-> val]

\* A slot: init, check_msg, dir_name, file_name and paht_name, which is "" at first.
Slot0 == [init |-> FALSE, msg |-> NoMessage, dirs |-> << >>, files |-> << >>, path |-> Root]

(* A client: what it does, the listing it shows, its is_dir and check_msg,  *)
(* what it has yet to write, commands left; the directory its user is in;   *)
(* the file it downloads, what it got of it and its total, and all the      *)
(* files it chose; its first upload, which ends the connection.             *)
Client0(c) == [phase |-> "off", listing |-> NoListing, is_dir |-> FALSE, check_msg |-> NoMessage,
            out |-> << >>, left |-> Commands[c], where |-> Root,
            want |-> NoPath, got |-> << >>, total |-> 0, wants |-> {}, put |-> NoPath]

Init ==
    /\ state = "run" /\ clnt_sock = None
    /\ watched = {} /\ batch = {} /\ cur = None /\ step = "poll"
    /\ slot = [f \in Fds |-> Slot0]
    /\ threads = {}
    /\ disk = Disk0
    /\ net = [c \in Clients |-> [fd |-> None, conn |-> "none", up |-> << >>, down |-> << >>]]
    /\ cl = [c \in Clients |-> Client0(c)]
    /\ found = [c \in Clients |-> [msg |-> "none", path |-> Root]]
    /\ misdel = {} /\ misled = {} /\ cut = {} /\ rewritten = {} /\ astray = {}
    /\ stored = [c \in Clients |-> NoPath]

Departed(c) == cl[c].phase \in {"quit", "dead"}
Conn(f) == IF \E c \in Clients : f # None /\ net[c].fd = f
           THEN CHOOSE c \in Clients : net[c].fd = f ELSE None
Available(c) == net[c].up # << >> \/ Departed(c)   \* a read returns

\* What the server reads is not what it reads it as.
Astray(c) ==
    /\ astray' = astray \cup {c}
    /\ state' = "astray"
    /\ UNCHANGED <<loopVars, threads, disk, net, cl, found, misdel, misled, cut, rewritten, stored>>

\* A read inside a unit of client c comes short.
CutShort(c) ==
    /\ astray' = astray \cup {c} /\ cut' = cut \cup {c}
    /\ state' = "astray"
    /\ UNCHANGED <<loopVars, threads, disk, net, cl, found, misdel, misled, rewritten, stored>>

(* Writes of the server to connection c, after the connections became n:    *)
(* once the client is gone the first write succeeds and the next is a       *)
(* SIGPIPE, which nothing handles; a bad descriptor is only an error.       *)
Tell(c, n, units) ==
    \/ /\ c = None \/ (c # None /\ Departed(c))
       /\ net' = n
       /\ state' \in {state} \cup (IF c = None THEN {} ELSE {"gone"})
    \/ /\ c # None /\ ~ Departed(c)
       /\ net' = [n EXCEPT ![c].down = @ \o units]
       /\ state' = state

------------------------------------------------------------------------------
(* The loop.                                                                *)

Pending == {c \in Clients : net[c].conn = "queued"}
Ready == {f \in watched : Conn(f) # None /\ Available(Conn(f))}
         \cup (IF Pending # {} THEN {Server} ELSE {})

Wait ==
    /\ step = "poll" /\ batch = {} /\ Ready # {}
    /\ batch' = Ready
    /\ UNCHANGED <<state, clnt_sock, watched, cur, step, slot, threads, disk, net, cl, history>>

LowestFree(f) == Conn(f) = None /\ \A g \in Fds : g < f => Conn(g) # None

\* Only init is set: the message, the names and the place are the previous client's.
AcceptedSlot(s) == [s EXCEPT !.init = TRUE]

AcceptClient ==
    /\ step = "poll" /\ Server \in batch
    /\ \E c \in Pending, f \in Fds :
        /\ \A d \in Pending : c <= d
        /\ LowestFree(f)
        /\ net' = [net EXCEPT ![c].fd = f, ![c].conn = "open"]
        /\ clnt_sock' = f
        /\ watched' = watched \cup {f}
        /\ slot' = [slot EXCEPT ![f] = AcceptedSlot(@)]
        /\ found' = [found EXCEPT ![c] = [msg |-> slot'[f].msg.msg, path |-> slot[f].path]]
    /\ batch' = batch \ {Server}
    /\ UNCHANGED <<state, cur, step, threads, disk, cl, misdel, misled, cut, rewritten, stored, astray>>

Take(f) ==
    /\ step = "poll" /\ f \in batch \ {Server}
    /\ cur' = f /\ step' = "read"
    /\ batch' = batch \ {f}
    /\ UNCHANGED <<state, clnt_sock, watched, slot, threads, disk, net, cl, history>>

\* In an order of readdir's.
FilesIn(d) == SetToSeq({n \in FileNames : <<d, n>> \in DOMAIN disk})

\* Directory d, its files' sizes looked up in directory at.
Listing(d, at) ==
    [dirs |-> SubDirs[d],
     files |-> [j \in 1 .. Len(FilesIn(d)) |->
                    [name |-> FilesIn(d)[j], size |-> Len(disk[<<at, FilesIn(d)[j]>>])]]]

(* A number that nothing listed finds an entry of zeros, or names that an   *)
(* earlier and longer listing left: dir_name and file_name have 1024        *)
(* entries, malloc maps the slots as zeros, and what lies before dir_name,  *)
(* entries 0 and -1, is the end of the slot before.                         *)
NameAt(s, k) == IF k \in DOMAIN s THEN s[k] ELSE ""

\* Names are copied over the first entries of an array.
Over(s, t) == [j \in 1 .. (IF Len(s) > Len(t) THEN Len(s) ELSE Len(t)) |->
                    IF j <= Len(t) THEN t[j] ELSE s[j]]

ListedSlot(s, list) ==
    [s EXCEPT !.dirs = Over(@, list.dirs),
              !.files = Over(@, [j \in DOMAIN list.files |-> list.files[j].name])]

EventDone == step' = "poll" /\ cur' = None

\* The tests of check_msg.msg, which follow either read.
LookAt(m) == IF m = NoMessage THEN EventDone ELSE step' = "act" /\ cur' = cur

(* The first event of a client: the start is read, the server's directory   *)
(* is listed, and then the message in the slot is looked at.                *)
Greet ==
    LET c == Conn(cur)
    IN  /\ step = "read" /\ c # None /\ slot[cur].init
        /\ Available(c)
        /\ Tell(c, [net EXCEPT ![c].up = IF @ = << >> THEN @ ELSE Tail(@)],
                <<Unit("list", Listing(Root, Root))>>)
        /\ slot' = [slot EXCEPT ![cur] = ListedSlot([@ EXCEPT !.init = FALSE],
                                                    Listing(Root, Root))]
        /\ LookAt(slot[cur].msg)
        /\ UNCHANGED <<clnt_sock, watched, batch, threads, disk, cl, history>>

(* Later events: a command, or the end of the stream or a bad descriptor,   *)
(* which leave the message of the slot as it was.                           *)
ReadCommand ==
    LET c == Conn(cur)
        u == IF c = None THEN << >> ELSE net[c].up
    IN  /\ step = "read" /\ ~ slot[cur].init
        /\ c # None => Available(c)
        /\ IF u # << >> /\ Head(u).kind # "cmd" THEN Astray(c)
           ELSE /\ IF u = << >> THEN UNCHANGED <<net, slot>>
                   ELSE /\ net' = [net EXCEPT ![c].up = Tail(@)]
                        /\ slot' = [slot EXCEPT ![cur].msg = Head(u).val]
                /\ LookAt(IF u = << >> THEN slot[cur].msg ELSE Head(u).val)
                /\ UNCHANGED <<state, clnt_sock, watched, batch, threads, disk, cl, history>>

Acting(msg) == step = "act" /\ slot[cur].msg.msg = msg

\* The loop's reads of 4 bytes, of a message, and of the arguments of an upload.
ReadShort ==
    /\ step = "read" \/ Acting("F")
    /\ Conn(cur) # None /\ net[Conn(cur)].up # << >>
    /\ CutShort(Conn(cur))

(* B: the directory is looked for in the server's own; while its entries    *)
(* are read, the names of its directories replace the name it is known by,  *)
(* so that the files after them are looked up elsewhere.                    *)
ListDir ==
    LET m == slot[cur].msg
        d == IF m.dir_index = -1 THEN Root ELSE NameAt(slot[cur].dirs, m.index)
        places == IF m.dir_index = -1 THEN {Root}
                  ELSE {d, NameAt(Over(slot[cur].dirs, SubDirs[d]), m.index)}
        missing(at) == \E n \in ToSet(FilesIn(d)) : <<at, n>> \notin DOMAIN disk
    IN  /\ Acting("B")
        /\ \/ /\ d \notin DOMAIN SubDirs   \* readdir of NULL: no such directory, or ""
              /\ state' = "gone"
              /\ UNCHANGED <<cur, step, slot, net>>
           \/ /\ d \in DOMAIN SubDirs
              /\ \E at \in places :
                  \/ /\ missing(at)        \* error_handling
                     /\ state' = "gone"
                     /\ UNCHANGED <<cur, step, slot, net>>
                  \/ /\ ~ missing(at)
                     /\ Tell(Conn(cur), net, <<Unit("list", Listing(d, at))>>)
                     /\ slot' = [slot EXCEPT ![cur] =
                                    [ListedSlot(@, Listing(d, at)) EXCEPT !.path = d]]
                     /\ EventDone
        /\ UNCHANGED <<clnt_sock, watched, batch, threads, disk, cl, history>>

\* Defect: the place of the client is not looked at.
PathInRoot(s) == <<Root, NameAt(s.files, s.msg.index)>>

(* The path of a download, from the slot's names as they are now.  After a  *)
(* B with -1 the directory is entry -1, "": the path "./" + "" + "/" is the *)
(* server's own.  With no file's name it is a directory, or "" (l.318).     *)
PathOf(s) ==
    LET name == NameAt(s.files, s.msg.index)
        place == NameAt(s.dirs, s.msg.dir_index)
    IN  IF s.msg.is_dir THEN <<IF place = "" THEN Root ELSE place, name>>
        ELSE <<IF name = "" THEN "" ELSE Root, name>>

\* D: a thread sends the file.
StartDownload ==
    /\ Acting("D")
    /\ threads' = threads \cup
            {[kind |-> "down", fd |-> cur, path |-> PathOf(slot[cur]), next |-> 1, size |-> 0]}
    /\ EventDone
    /\ UNCHANGED <<state, clnt_sock, watched, batch, slot, disk, net, cl, history>>

Closed(c) == [net EXCEPT ![c].fd = None, ![c].conn = "closed", ![c].up = << >>]

\* Defect: main's variable instead of the event's descriptor, as F has it.
LastAccepted(f) == clnt_sock

Ended(f) == f

\* E: the message stays in the slot.
CloseClient ==
    /\ Acting("E")
    /\ net' = IF Conn(Ended(cur)) = None THEN net ELSE Closed(Conn(Ended(cur)))
    /\ watched' = watched \ {cur}
    /\ EventDone
    /\ UNCHANGED <<state, clnt_sock, batch, slot, threads, disk, cl, history>>

\* Defect: the epoll set is left as it is.
WatchedStill == watched

Unwatched == watched \ {clnt_sock}

\* F: the loop waits for the arguments; not the client's socket but clnt_sock is unwatched.
StartUpload ==
    LET c == Conn(cur)
        u == IF c = None THEN << >> ELSE net[c].up
    IN  /\ Acting("F")
        /\ c # None => Available(c)
        /\ IF u = << >> \/ Head(u).kind # "args" THEN Astray(c)
           ELSE /\ net' = [net EXCEPT ![c].up = Tail(@)]
                /\ threads' = threads \cup
                        {[kind |-> "up", fd |-> cur, path |-> <<slot[cur].path, Head(u).val.name>>,
                          next |-> 0, size |-> Head(u).val.size]}
                /\ watched' = Unwatched
                /\ misdel' = IF clnt_sock = cur THEN misdel ELSE misdel \cup {c}
                /\ EventDone
                /\ UNCHANGED <<state, clnt_sock, batch, slot, disk, cl,
                               found, misled, cut, rewritten, stored, astray>>

LoopStep ==
    \/ Wait \/ AcceptClient \/ \E f \in Fds : Take(f)
    \/ Greet \/ ReadCommand \/ ReadShort
    \/ ListDir \/ StartDownload \/ CloseClient \/ StartUpload

------------------------------------------------------------------------------
(* The threads.                                                             *)

Advanced(t) == (threads \ {t}) \cup {[t EXCEPT !.next = @ + 1]}

IsDirectory(path) == path[2] = "" /\ path[1] \in DOMAIN SubDirs

(* fread of a file that could not be opened ends the process; a directory   *)
(* can be opened, but not read.                                             *)
SendChunk(t) ==
    /\ t.kind = "down"
    /\ \/ /\ t.path \notin DOMAIN disk /\ ~ IsDirectory(t.path)
          /\ state' = "gone"
          /\ UNCHANGED <<threads, net>>
       \/ /\ t.path \in DOMAIN disk /\ t.next <= Len(disk[t.path])
          /\ Tell(Conn(t.fd), net, <<Unit("chunk", [path |-> t.path, n |-> t.next,
                                               by |-> disk[t.path][t.next]])>>)
          /\ threads' = Advanced(t)
       \/ /\ t.path \in DOMAIN disk => t.next > Len(disk[t.path])
          /\ t.path \in DOMAIN disk \/ IsDirectory(t.path)
          /\ threads' = threads \ {t}
          /\ UNCHANGED <<state, net>>
    /\ UNCHANGED <<loopVars, disk, cl, history>>

\* fopen creates or empties the file.
OpenUpload(t) ==
    /\ t.kind = "up" /\ t.next = 0
    /\ disk' = [p \in DOMAIN disk \cup {t.path} |-> IF p = t.path THEN << >> ELSE disk[p]]
    /\ rewritten' = rewritten \cup {<<t.path, Conn(t.fd)>>}
    /\ threads' = Advanced(t)
    /\ UNCHANGED <<state, loopVars, net, cl, found, misdel, misled, cut, stored, astray>>

\* The file after a piece that its writer wrote and k units more were put at n.
Written(s, n, by, k) ==
    [j \in 1 .. (IF n + k > Len(s) THEN n + k ELSE Len(s)) |->
        IF j = n THEN by ELSE IF j \in n + 1 .. n + k THEN Extra
        ELSE IF j <= Len(s) THEN s[j] ELSE Hole]

\* What a read of up to 1024 bytes may take with the last piece: the units that have come.
TakenToo(t, c) == IF t.next < t.size THEN {0} ELSE 0 .. Len(net[c].up) - 1

(* One piece of the file, whoever wrote it; a read that takes several is    *)
(* the same as several reads.  The last one may take what the client sent   *)
(* after the file, which is written to the file as well.                    *)
StoreChunk(t) ==
    LET c == Conn(t.fd)
        u == Head(net[c].up)
    IN  /\ t.kind = "up" /\ t.next \in 1 .. t.size
        /\ c # None /\ net[c].up # << >>
        /\ IF u.kind # "chunk" THEN Astray(c)
           ELSE \E k \in TakenToo(t, c) :
                /\ disk' = [disk EXCEPT ![t.path] = Written(@, t.next, u.val.by, k)]
                /\ net' = [net EXCEPT ![c].up = SubSeq(@, k + 2, Len(@))]
                /\ cut' = (IF k = 0 THEN cut ELSE cut \cup {c})
                /\ astray' = (IF k = 0 THEN astray ELSE astray \cup {c})
                /\ threads' = Advanced(t)
                /\ UNCHANGED <<state, loopVars, cl, found, misdel, misled, rewritten, stored>>

\* Defect: the last chunk is not waited for.
StoredAllButOne(t) == t.next >= t.size /\ t.next > 0

StoredAll(t) == t.next > t.size

\* The upload ends by closing the connection, although the client's menu goes on.
EndUpload(t) ==
    LET c == Conn(t.fd)
    IN  /\ t.kind = "up" /\ StoredAll(t)
        /\ threads' = threads \ {t}
        /\ IF c = None THEN UNCHANGED <<net, stored>>
           ELSE net' = Closed(c) /\ stored' = [stored EXCEPT ![c] = t.path]
        /\ watched' = watched \ {t.fd}
        /\ UNCHANGED <<state, clnt_sock, batch, cur, step, slot, disk, cl,
                       found, misdel, misled, cut, rewritten, astray>>

ThreadStep(t) == SendChunk(t) \/ OpenUpload(t) \/ StoreChunk(t) \/ EndUpload(t)

------------------------------------------------------------------------------
(* The clients.                                                             *)

serverVars == <<state, loopVars, threads, disk>>

\* The stream up after client c wrote u: nothing reads it once the connection is closed.
Sent(c, u) == [net EXCEPT ![c].up = IF net[c].conn = "closed" THEN @ ELSE @ \o u]

Connect(c) ==
    /\ cl[c].phase = "off" /\ \A d \in Clients : d < c => cl[d].phase # "off"
    /\ cl' = [cl EXCEPT ![c].phase = "new"]
    /\ net' = [net EXCEPT ![c].conn = "queued"]
    /\ UNCHANGED <<serverVars, history>>

Start(c) ==
    /\ cl[c].phase = "new"
    /\ cl' = [cl EXCEPT ![c].phase = "list"]
    /\ net' = Sent(c, <<Unit("start", 1)>>)
    /\ UNCHANGED <<serverVars, history>>

ReadList(c) ==
    LET u == Head(net[c].down)
    IN  /\ cl[c].phase = "list" /\ net[c].down # << >>
        /\ IF u.kind = "list"
           THEN /\ cl' = [cl EXCEPT ![c].listing = u.val, ![c].phase = "menu"]
                /\ astray' = astray
           ELSE /\ cl' = [cl EXCEPT ![c].phase = "astray"]
                /\ astray' = astray \cup {c}
        /\ net' = [net EXCEPT ![c].down = Tail(@)]
        /\ UNCHANGED <<serverVars, found, misdel, misled, cut, rewritten, stored>>

\* One of the reads of a listing comes short.
ReadListShort(c) ==
    /\ cl[c].phase = "list" /\ net[c].down # << >>
    /\ cl' = [cl EXCEPT ![c].phase = "astray"]
    /\ astray' = astray \cup {c} /\ cut' = cut \cup {c}
    /\ UNCHANGED <<serverVars, net, found, misdel, misled, rewritten, stored>>

(* The server has closed the connection.  Reads fail at once: a listing     *)
(* stays as it was (a name may end earlier), a download reads for ever.     *)
Resume(c) ==
    /\ cl[c].phase = "list" /\ net[c].down = << >> /\ net[c].conn = "closed"
    /\ cl' = [cl EXCEPT ![c].phase = "menu"]
    /\ UNCHANGED <<serverVars, net, history>>

\* SIGPIPE, or fwrite of -1 bytes after a read that gave -1.
Broken(c) ==
    /\ cl[c].phase \in {"menu", "up", "down"} /\ net[c].conn = "closed"
    /\ cl' = [cl EXCEPT ![c].phase = "broken"]
    /\ UNCHANGED <<serverVars, net, history>>

AtMenu(c) == cl[c].phase = "menu" /\ cl[c].left > 0

\* B: any number, one of the listing or not, or -1 for the server's own directory.
ChooseDir(c, k) ==
    LET m == [cl[c].check_msg EXCEPT !.msg = "B", !.index = k, !.dir_index = k]
        d == IF k = -1 THEN Root ELSE NameAt(cl[c].listing.dirs, k)
    IN  /\ AtMenu(c)
        /\ cl' = [cl EXCEPT ![c].phase = "list", ![c].is_dir = TRUE, ![c].check_msg = m,
                            ![c].left = @ - 1, ![c].where = IF d = "" THEN @ ELSE d]
        /\ net' = Sent(c, <<Unit("cmd", m)>>)
        /\ misled' = IF d # Root /\ (d \in DOMAIN SubDirs => SubDirs[d] # << >>)
                     THEN misled \cup {c} ELSE misled
        /\ UNCHANGED <<serverVars, found, misdel, cut, rewritten, stored, astray>>

Chosen(c, i) == [cl[c].check_msg EXCEPT !.msg = "D", !.index = i, !.is_dir = cl[c].is_dir]

\* D: a file of the listing, and how long the listing said it is.
ChooseFile(c, i) ==
    LET file == cl[c].listing.files[i]
    IN  /\ AtMenu(c) /\ i \in DOMAIN cl[c].listing.files
        /\ cl' = [cl EXCEPT ![c].phase = IF file.size = 0 THEN "menu" ELSE "down",
                            ![c].check_msg = Chosen(c, i), ![c].left = @ - 1,
                            ![c].want = <<cl[c].where, file.name>>,
                            ![c].wants = @ \cup {<<cl[c].where, file.name>>},
                            ![c].got = << >>, ![c].total = file.size]
        /\ net' = Sent(c, <<Unit("cmd", Chosen(c, i))>>)
        /\ UNCHANGED <<serverVars, history>>

(* Another number: the message is sent, and then the name to write to and   *)
(* the size are what memory holds; without such a file fclose crashes.      *)
ChooseNoFile(c, i, size) ==
    /\ AtMenu(c) /\ i \notin DOMAIN cl[c].listing.files
    /\ \E phase \in {IF size = 0 THEN "menu" ELSE "down", "dead"} :
            cl' = [cl EXCEPT ![c].phase = phase, ![c].check_msg = Chosen(c, i), ![c].left = @ - 1,
                             ![c].got = << >>, ![c].total = size]
    /\ net' = Sent(c, <<Unit("cmd", Chosen(c, i))>>)
    /\ misled' = misled \cup {c}
    /\ UNCHANGED <<serverVars, found, misdel, cut, rewritten, stored, astray>>

\* Defect: the last chunk is not waited for.
GotAllEarly(c, k) == Len(cl[c].got) + k + 1 >= cl[c].total

\* Defect: another chunk is waited for.
GotAllLate(c, k) == Len(cl[c].got) + k > cl[c].total

\* Whether k chunks more are all of the file.
GotAll(c, k) == Len(cl[c].got) + k >= cl[c].total

\* A read of up to 1024 bytes: the last may take all that has come.
ReadChunk(c) ==
    LET down == net[c].down
    IN  /\ cl[c].phase = "down" /\ down # << >>
        /\ \E k \in 1 .. (IF GotAll(c, 1) THEN Len(down) ELSE 1) :
            /\ IF \A j \in 1 .. k : down[j].kind = "chunk"
               THEN /\ cl' = [cl EXCEPT ![c].got = @ \o [j \in 1 .. k |-> down[j].val],
                                        ![c].phase = IF GotAll(c, k) THEN "menu" ELSE "down"]
                    /\ UNCHANGED <<cut, astray>>
               ELSE /\ cl' = [cl EXCEPT ![c].phase = "astray"]
                    /\ astray' = astray \cup {c}
                    /\ cut' = IF k > 1 THEN cut \cup {c} ELSE cut
            /\ net' = [net EXCEPT ![c].down = SubSeq(@, k + 1, Len(@))]
        /\ UNCHANGED <<serverVars, found, misdel, misled, rewritten, stored>>

\* F: the command, then the arguments and the file, one write after another.
ChooseUpload(c, n) ==
    LET m == [cl[c].check_msg EXCEPT !.msg = "F", !.index = 1]
    IN  /\ AtMenu(c)
        /\ cl' = [cl EXCEPT ![c].phase = "up", ![c].check_msg = m, ![c].left = @ - 1,
                            ![c].put = IF @ = NoPath THEN <<cl[c].where, n>> ELSE @,
                            ![c].out = <<Unit("args", [name |-> n, size |-> UpSize])>>
                                \o [j \in 1 .. UpSize |-> Unit("chunk", [by |-> c, n |-> j])]]
        /\ net' = Sent(c, <<Unit("cmd", m)>>)
        /\ UNCHANGED <<serverVars, history>>

WriteUp(c) ==
    /\ cl[c].phase = "up"
    /\ cl' = [cl EXCEPT ![c].out = Tail(@),
                        ![c].phase = IF Len(cl[c].out) = 1 THEN "menu" ELSE "up"]
    /\ net' = Sent(c, <<Head(cl[c].out)>>)
    /\ UNCHANGED <<serverVars, history>>

\* E, and the client closes its socket.
Quit(c) ==
    /\ cl[c].phase = "menu"
    /\ cl' = [cl EXCEPT ![c].phase = "quit"]
    /\ net' = Sent(c, <<Unit("cmd", [cl[c].check_msg EXCEPT !.msg = "E"])>>)
    /\ UNCHANGED <<serverVars, history>>

Die(c) ==
    /\ c \in Mortal /\ cl[c].phase \in {"new", "list", "menu", "down", "up"}
    /\ cl' = [cl EXCEPT ![c].phase = "dead"]
    /\ UNCHANGED <<serverVars, net, history>>

ClientStep(c) ==
    \/ Connect(c) \/ Start(c) \/ ReadList(c) \/ ReadListShort(c) \/ ReadChunk(c) \/ WriteUp(c)
    \/ Resume(c) \/ Broken(c)
    \/ \E k \in Typed : ChooseDir(c, k)
    \/ \E i \in Typed : ChooseFile(c, i) \/ \E size \in Junk : ChooseNoFile(c, i, size)
    \/ \E n \in FileNames : ChooseUpload(c, n)
    \/ Quit(c) \/ Die(c)

Next ==
    /\ state = "run"
    /\ LoopStep \/ (\E t \in threads : ThreadStep(t)) \/ (\E c \in Clients : ClientStep(c))

Spec == Init /\ [][Next]_vars

(* The loop and the threads are scheduled; a client that waits for bytes or *)
(* has an upload to write goes on.  Nobody need choose anything.            *)
FairSpec ==
    /\ Spec
    /\ WF_vars(state = "run" /\ LoopStep)
    /\ \A f \in Fds : WF_vars(state = "run" /\ \E t \in threads : t.fd = f /\ ThreadStep(t))
    /\ \A c \in Clients :
        WF_vars(state = "run" /\ (ReadList(c) \/ ReadChunk(c) \/ WriteUp(c) \/ Resume(c)))

------------------------------------------------------------------------------

LoopTypeOK ==
    /\ state \in {"run", "gone", "astray"} /\ clnt_sock \in Fds \cup {None}
    /\ batch \subseteq Fds \cup {Server} /\ cur \in Fds \cup {None}
    /\ step \in {"poll", "read", "act"} /\ (step = "poll" <=> cur = None)
    /\ \A f \in Fds :
        /\ slot[f].init \in BOOLEAN /\ slot[f].msg.msg \in {"none", "B", "D", "E", "F"}
        /\ ToSet(slot[f].dirs) \subseteq Dirs /\ slot[f].path \in DOMAIN SubDirs
    /\ \A t \in threads : t.kind \in {"up", "down"} /\ t.fd \in Fds

\* What each variable holds; the epoll set holds open descriptors.
TypeOK ==
    /\ LoopTypeOK
    /\ \A f \in watched : Conn(f) # None
    /\ DOMAIN disk \subseteq Paths
    /\ \A p \in DOMAIN disk : ToSet(disk[p]) \subseteq {Original, Hole, Extra} \cup Clients
    /\ \A c \in Clients :
        /\ net[c].fd \in Fds \cup {None}
        /\ net[c].conn \in {"none", "queued", "open", "closed"}
        /\ cl[c].phase \in {"off", "new", "list", "menu", "down", "up", "quit", "dead",
                             "broken", "astray"}

Stale(c) == found[c].msg # "none"   \* its slot held another client's last command
Died(c) == cl[c].phase = "dead"
Torn(c) == \E r \in rewritten : r[1] \in cl[c].wants  \* an upload opened a file it chose

(* However the loop, the threads and the clients interleave, bytes are read *)
(* as what they were written as - unless a read took a part of a unit or    *)
(* more than one, the client's slot held a command of a client before it,   *)
(* its upload unwatched another's socket, it died, its file was rewritten,  *)
(* or it chose a directory with a directory or a number not listed.         *)
FramingKept ==
    \A c \in astray : c # None =>
        c \in cut \/ Stale(c) \/ c \in misdel \/ Died(c) \/ c \in misled \/ Torn(c)

(* What a client receives is the file it chose, from the directory its user *)
(* is in, chunk by chunk, although the server resolves the path from names  *)
(* its slot kept from earlier listings - unless the slot held an old        *)
(* command, an upload opened a file it chose, or it chose a directory with  *)
(* a directory or a number not listed.                                      *)
DownloadIsFile ==
    \A c \in Clients : ~ Stale(c) /\ c \notin misled /\ ~ Torn(c) =>
        cl[c].got = [j \in 1 .. Len(cl[c].got) |->
                        [path |-> cl[c].want, n |-> j, by |-> Original]]

(* A finished upload is in the directory its user is in and begins with the *)
(* client's whole file; only what the client sent after it may follow       *)
(* (l.431) - unless an upload of another client opened the same path, the   *)
(* client's slot held a command of a client before it, it chose a directory *)
(* with a directory or a number not listed, or its upload unwatched         *)
(* another's socket.                                                        *)
UploadIsWhole ==
    \A c \in Clients : stored[c] # NoPath =>
        \/ c \in misled \/ c \in misdel \/ Stale(c)
        \/ /\ stored[c] = cl[c].put
           /\ \/ /\ Len(disk[stored[c]]) >= UpSize
                 /\ \A j \in 1 .. Len(disk[stored[c]]) :
                        disk[stored[c]][j] = IF j <= UpSize THEN c ELSE Extra
                 /\ Len(disk[stored[c]]) > UpSize => c \in cut
              \/ \E d \in (Clients \ {c}) \cup {None} : <<stored[c], d>> \in rewritten

(* The server ends only after a client died, chose a directory with a       *)
(* directory or a number not listed (l.232-241), met another's command in   *)
(* its slot or had its file rewritten; it closes a connection only after E  *)
(* or an upload, or for such a slot.                                        *)
ServedToTheEnd ==
    /\ state = "gone" => \E c \in Clients : Died(c) \/ c \in misled \/ Stale(c) \/ Torn(c)
    /\ \A c \in Clients : net[c].conn = "closed" =>
            cl[c].phase = "quit" \/ stored[c] # NoPath \/ Stale(c)

Undisturbed(c) ==
    /\ state = "run" /\ misdel = {} /\ \A d \in Clients : ~ Stale(d)
    /\ ~ Torn(c) /\ c \notin misled \cup cut /\ cl[c].put = NoPath

(* A client that waits for a listing or a file gets it, although one loop   *)
(* serves all and reads without a limit - unless it has uploaded, which     *)
(* ends its connection; a read took a part of a unit or more than one; it   *)
(* chose a directory with a directory or a number not listed; its file was  *)
(* rewritten; or, for any client, a slot held an old command or an upload   *)
(* unwatched the wrong socket.  As commands are bounded, no client may then *)
(* wait again and again.                                                    *)
Answered ==
    []<>(\A c \in Clients :
            cl[c].phase \in {"list", "down", "astray"} => ~ Undisturbed(c))
===============================================================================
