--------------------------- MODULE FileServerProofs ---------------------------
(***************************************************************************)
(* Proofs about the epoll file server, for any number of clients, any      *)
(* directories, files and commands: the types (TypeCorrect), and the part  *)
(* of the inductive invariant that says who reads what.                    *)
(* FileServerTransfers goes on from here to what is transferred.           *)
(*                                                                         *)
(* Every action is first stated as facts, from which the types follow and, *)
(* later, the rest; and as a client sees them there are only its own steps *)
(* and those of others, which leave all that is its (Split).               *)
(*                                                                         *)
(* A client's stream up is read by the loop and, once an upload is         *)
(* started, by the upload's thread.  So the invariant ties what a client   *)
(* has sent and will send to its phase (Uplink) and says which of loop and *)
(* thread reads it next (Heads).  All this is said of clients whose slot   *)
(* held no command when they were accepted (Served), and Heads of those    *)
(* whose upload unwatched its own socket (misdel): the properties exempt   *)
(* the others, which the server really does serve wrongly.                 *)
(***************************************************************************)
EXTENDS FileServer, SequenceTheorems, FiniteSetTheorems, TLAPS

------------------------------------------------------------------------------
(* What the variables hold.                                                *)

\* A command as the client sends it.
Messages == [msg : {"B", "D", "E", "F"}, index : Int, is_dir : BOOLEAN, dir_index : Int]
UserPaths == Dirs \X FileNames
Authors == Clients \cup {Original, Hole, Extra}
Chunks == [path : Paths, n : Nat, by : Authors]
Listings == [dirs : Seq(Dirs), files : Seq([name : FileNames, size : Nat])]
UpUnits == [kind : {"start"}, val : {1}] \cup [kind : {"cmd"}, val : Messages]
           \cup [kind : {"args"}, val : [name : FileNames, size : {UpSize}]]
           \cup [kind : {"chunk"}, val : [by : Clients, n : 1 .. UpSize]]
DownUnits == [kind : {"list"}, val : Listings] \cup [kind : {"chunk"}, val : Chunks]

Slots == [init : BOOLEAN, msg : Messages \cup {NoMessage}, dirs : Seq(Dirs),
          files : Seq(FileNames), path : DOMAIN SubDirs]
Connections == [fd : Fds \cup {None}, conn : {"none", "queued", "open", "closed"},
                up : Seq(UpUnits), down : Seq(DownUnits)]
Phases == {"off", "new", "list", "menu", "down", "up", "quit", "dead", "broken", "astray"}
ClientStates ==
    [phase : Phases, listing : Listings, is_dir : BOOLEAN, check_msg : Messages \cup {NoMessage},
     out : Seq(UpUnits), left : Nat, where : Dirs, want : UserPaths \cup {NoPath},
     got : Seq(Chunks), total : Nat, wants : SUBSET UserPaths, put : UserPaths \cup {NoPath}]

\* A download's path is whatever the slot gave; an upload knows how much is to come.
ThreadOK(t) ==
    \/ t \in [kind : {"down"}, fd : Fds, path : {t.path}, next : Nat \ {0}, size : {0}]
    \/ t \in [kind : {"up"}, fd : Fds, path : Paths, next : Nat, size : {UpSize}]

LoopOK ==
    /\ state \in {"run", "gone", "astray"} /\ clnt_sock \in Fds \cup {None}
    /\ watched \subseteq Fds /\ batch \subseteq Fds \cup {Server}
    /\ cur \in Fds \cup {None} /\ step \in {"poll", "read", "act"} /\ (step = "poll" <=> cur = None)
    /\ slot \in [Fds -> Slots]
    /\ \A t \in threads : ThreadOK(t)

DiskOK == DOMAIN disk \subseteq Paths /\ disk \in [DOMAIN disk -> Seq(Authors)]

PeersOK == net \in [Clients -> Connections] /\ cl \in [Clients -> ClientStates]

HistoryOK ==
    /\ found \in [Clients -> [msg : {"none", "B", "D", "E", "F"}, path : DOMAIN SubDirs]]
    /\ rewritten \subseteq Paths \X (Clients \cup {None})
    /\ stored \in [Clients -> Paths \cup {NoPath}]

\* A descriptor belongs to one connection, which is open; the epoll set holds such descriptors.
FdsOK ==
    /\ \A c, d \in Clients : net[c].fd # None /\ net[c].fd = net[d].fd => c = d
    /\ \A c \in Clients :
        /\ net[c].conn = "open" <=> net[c].fd # None
        /\ net[c].conn = "closed" => net[c].up = << >>
    /\ \A f \in watched : \E c \in Clients : net[c].fd = f

\* How a client's phase goes with what it has and has to write.
GotOK ==
    \A c \in Clients :
        /\ cl[c].phase = "down" => Len(cl[c].got) < cl[c].total
        /\ cl[c].phase = "up" => cl[c].out # << >>
        /\ cl[c].phase = "off" => net[c].conn = "none"

\* Type correctness with what the types of one step need of another.
TypeInv == LoopOK /\ DiskOK /\ PeersOK /\ HistoryOK /\ FdsOK /\ GotOK

------------------------------------------------------------------------------
(* A client before its first event, and the slots.                          *)

Open(c) == net[c].conn = "open"
\* Client c was not greeted yet; Served: it was, and its slot held no command of another.
Early(c) == net[c].conn \in {"none", "queued"} \/ (Open(c) /\ slot[net[c].fd].init)
Greeted(c) == Open(c) /\ ~ slot[net[c].fd].init
Served(c) == ~ Stale(c) /\ Greeted(c)
\* The event that is handled is not in the batch.
BatchInv == cur # None => cur \notin batch

\* Of a client before its first event nothing has been read, and it has asked for nothing.
EarlyInv(c) ==
    /\ ~ Open(c) /\ Early(c) => ~ Stale(c)
    /\ Early(c) /\ ~ Stale(c) =>
        /\ net[c].down = << >>
        /\ \/ net[c].conn = "none" /\ cl[c].phase = "off" /\ net[c].up = << >>
           \/ net[c].conn # "none" /\ cl[c].phase \in {"new", "dead"} /\ net[c].up = << >>
           \/ net[c].conn # "none" /\ cl[c].phase \in {"list", "dead"}
              /\ net[c].up = <<Unit("start", 1)>>
        /\ cl[c].out = << >> /\ cl[c].where = Root /\ ~ cl[c].is_dir /\ cl[c].want = NoPath /\
            cl[c].got = << >>
        /\ cl[c].wants = {} /\ cl[c].put = NoPath
        /\ stored[c] = NoPath
        /\ Open(c) => slot[net[c].fd].msg = NoMessage

\* A slot without a command has no thread, and the loop acts only on a slot that has one.
SlotInv(f) ==
    /\ slot[f].msg = NoMessage =>
        /\ slot[f].path = Root /\ slot[f].dirs \in {<< >>, SubDirs[Root]}
        /\ \A t \in threads : t.fd # f
    /\ cur = f /\ step = "act" => slot[f].msg # NoMessage /\ ~ slot[f].init

------------------------------------------------------------------------------
(* What a client has sent and will send by itself, and what the loop does.  *)

\* What the client has sent or will send without choosing again, that the server has not read.
ToCome(c) == net[c].up \o cl[c].out
\* The loop is about to carry out the command it has read from c; Doing: which one.
Acts(c) == cur = net[c].fd /\ step = "act"
Doing(c, m) == Acts(c) /\ slot[net[c].fd].msg.msg = m
IsCmd(u, m) == u.kind = "cmd" /\ u.val.msg = m
Without(s, m) == \A k \in 1 .. Len(s) : ~ IsCmd(s[k], m)
NoArgs(s) == \A k \in 1 .. Len(s) : s[k].kind # "args"
\* After F come its arguments, after D only a choice at the menu, after B and E nothing yet.
Chain(s) == \A k \in 1 .. Len(s) :
    /\ IsCmd(s[k], "F") => k < Len(s) /\ s[k + 1].kind = "args"
    /\ IsCmd(s[k], "D") => k = Len(s) \/ s[k + 1].kind = "cmd"
    /\ IsCmd(s[k], "B") \/ IsCmd(s[k], "E") => k = Len(s)
\* An upload has taken all that c has sent, E too.
Swallowed(c) == ToCome(c) = << >> /\ slot[net[c].fd].msg.msg = "F"
\* Arguments follow the F they belong to, and chunks follow these; the loop may have read F.
ArgsFollow(s, msg) == \A k \in 1 .. Len(s) :
    /\ s[k].kind = "args" => IF k = 1 THEN msg = "F" ELSE IsCmd(s[k - 1], "F")
    /\ s[k].kind = "chunk" => IF k = 1 THEN msg = "F" ELSE s[k - 1].kind \in {"args", "chunk"}
OwnUnits(s, c) == \A k \in 1 .. Len(s) : s[k].kind # "start" /\
    (s[k].kind = "chunk" => s[k].val.by = c)
NoCmds(s) == \A k \in 1 .. Len(s) : s[k].kind # "cmd"
NoChunk(s) == \A k \in 1 .. Len(s) : s[k].kind # "chunk"
NoList(s) == \A k \in 1 .. Len(s) : s[k].kind # "list"
OneList(s) == \A j, k \in 1 .. Len(s) : s[j].kind = "list" /\ s[k].kind = "list" => j = k

(* The stream up of a served client agrees with the client's phase: a      *)
(* client that waits for a listing has asked for one or is about to be     *)
(* sent it, one at the menu has none to come, and it has quit just when E  *)
(* is on its way, is carried out or was taken for the rest of its file.    *)
Uplink(c) ==
  /\ cl[c].phase \notin {"off", "new", "broken"}
  /\ Chain(ToCome(c)) /\ OwnUnits(ToCome(c), c) /\ NoCmds(cl[c].out)
  /\ ArgsFollow(ToCome(c), slot[net[c].fd].msg.msg)
  /\ cl[c].phase \in {"list", "menu", "down", "quit"} => cl[c].out = << >>
  /\ ~ Without(ToCome(c), "E") \/ Doing(c, "E") => cl[c].phase = "quit"
  /\ cl[c].phase = "quit" => ~ Without(ToCome(c), "E") \/ Doing(c, "E") \/ Swallowed(c)
  /\ slot[net[c].fd].msg.msg = "E" => Acts(c)
  /\ cl[c].phase \in {"menu", "up", "down", "quit"} =>
        NoList(net[c].down) /\ Without(ToCome(c), "B") /\ ~ Doing(c, "B")
  /\ Doing(c, "B") => net[c].up = << >>
  /\ cl[c].phase = "list" =>
        /\ OneList(net[c].down)
        /\ NoList(net[c].down) \/ (Without(ToCome(c), "B") /\ ~ Doing(c, "B"))

\* The uploads of a connection.
Ups(c) == {t \in threads : t.kind = "up" /\ t.fd = net[c].fd}
(* Who reads the stream up next.  Unless the client's upload was left in   *)
(* the epoll set, the loop reads it while there is no upload and meets a   *)
(* command or, carrying out F, its arguments; the one upload reads it      *)
(* otherwise, and the loop has no event of that descriptor.                *)
Heads(c) ==
  /\ Ups(c) = {} /\ ToCome(c) # << >> =>
        \/ ToCome(c)[1].kind = "cmd" /\ ~ Doing(c, "F")
        \/ ToCome(c)[1].kind = "args" /\ Doing(c, "F")
        \/ Died(c) /\ net[c].up = << >>
  /\ Doing(c, "F") /\ ~ Died(c) => ToCome(c) # << >>
  /\ slot[net[c].fd].msg.msg = "F" => Doing(c, "F") \/ Ups(c) # {}
  /\ \A t, u \in Ups(c) : t = u
  /\ Ups(c) # {} => net[c].fd \notin watched \cup batch \cup {cur}

------------------------------------------------------------------------------
(* The operators of the model.                                             *)

USE DEF Clients, Fds, None, Server

\* The directories that FileAssumption speaks of.
LEMMA Roots ==
    /\ Root \in DOMAIN SubDirs /\ Root \in Dirs
    /\ \A d \in DOMAIN SubDirs : SubDirs[d] \in Seq(Dirs) /\ SubDirs[d] \in Seq(Dirs \ {Root})
    /\ DOMAIN SubDirs \subseteq Dirs
    /\ \A k \in 1 .. Len(SubDirs[Root]) : SubDirs[Root][k] \in DOMAIN SubDirs
<1>1. Root \in DOMAIN SubDirs /\ \A d \in DOMAIN SubDirs : SubDirs[d] \in Seq(Dirs \ {Root})
    BY FileAssumption
<1>2. DOMAIN SubDirs \subseteq Dirs BY DEF Dirs
<1>3. \A d \in DOMAIN SubDirs : SubDirs[d] \in Seq(Dirs)
    BY <1>1, SeqMonotonic, Dirs \ {Root} \subseteq Dirs
<1>4. ASSUME NEW k \in 1 .. Len(SubDirs[Root]) PROVE SubDirs[Root][k] \in DOMAIN SubDirs
    <2>1. DOMAIN SubDirs[Root] = 1 .. Len(SubDirs[Root]) BY <1>1
    <2>2. SubDirs[Root][k] \in ToSet(SubDirs[Root]) BY <2>1 DEF ToSet
    <2> QED BY <2>2, FileAssumption
<1> QED BY <1>1, <1>2, <1>3, <1>4

\* A listing overwrites the first names of the slot's table and leaves those after them.
LEMMA OverIs ==
    ASSUME NEW A, NEW s \in Seq(A), NEW t \in Seq(A)
    PROVE  /\ Over(s, t) \in Seq(A)
           /\ Len(Over(s, t)) = IF Len(s) > Len(t) THEN Len(s) ELSE Len(t)
           /\ \A j \in 1 .. Len(t) : Over(s, t)[j] = t[j]
           /\ \A j \in 1 .. Len(s) : j > Len(t) => Over(s, t)[j] = s[j]
<1> DEFINE n == IF Len(s) > Len(t) THEN Len(s) ELSE Len(t)
<1>1. n \in Nat /\ n >= Len(s) /\ n >= Len(t) OBVIOUS
<1>2. Over(s, t) = [j \in 1 .. n |-> IF j <= Len(t) THEN t[j] ELSE s[j]] BY DEF Over
<1>3. \A j \in 1 .. n : (IF j <= Len(t) THEN t[j] ELSE s[j]) \in A BY ElementOfSeq
<1>4. Over(s, t) \in [1 .. n -> A] BY <1>2, <1>3
<1>5. Over(s, t) \in Seq(A) /\ Len(Over(s, t)) = n BY <1>1, <1>4
<1> QED BY <1>1, <1>2, <1>5

\* The names in a directory are names of files, and there are finitely many.
LEMMA FilesInIs ==
    ASSUME NEW d
    PROVE  /\ FilesIn(d) \in Seq(FileNames)
           /\ \A j \in 1 .. Len(FilesIn(d)) : <<d, FilesIn(d)[j]>> \in DOMAIN disk
           /\ ToSet(FilesIn(d)) = {FilesIn(d)[j] : j \in 1 .. Len(FilesIn(d))}
<1> DEFINE S == {n \in FileNames : <<d, n>> \in DOMAIN disk}
<1>1. IsFiniteSet(S) BY FS_Subset, FileAssumption
<1>2. PICK f \in Bijection(1 .. Cardinality(S), S) : TRUE
    BY <1>1, FS_CardinalityType DEF ExistsBijection
<1>3. f \in [1 .. Cardinality(S) -> S] /\ IsInjective(f)
    BY <1>2 DEF Bijection, Injection, Surjection, IsInjective
<1>4. FilesIn(d) \in [1 .. Cardinality(S) -> S] BY <1>3 DEF FilesIn, SetToSeq
<1>5. Cardinality(S) \in Nat BY <1>1, FS_CardinalityType
<1>6. FilesIn(d) \in Seq(S) /\ DOMAIN FilesIn(d) = 1 .. Cardinality(S) /\
          Len(FilesIn(d)) = Cardinality(S)
    <2> HIDE DEF S
    <2>1. PICK n \in Nat : n = Cardinality(S) BY <1>5
    <2>2. FilesIn(d) \in [1 .. n -> S] BY <1>4, <2>1
    <2> QED BY <2>1, <2>2
<1>7. FilesIn(d) \in Seq(FileNames) BY <1>6, SeqMonotonic, S \subseteq FileNames
<1>8. \A j \in 1 .. Len(FilesIn(d)) : FilesIn(d)[j] \in S BY <1>4, <1>6
<1> QED BY <1>6, <1>7, <1>8 DEF ToSet

\* The listing of a directory whose files are all found.
LEMMA ListingIs ==
    ASSUME DiskOK, NEW d \in DOMAIN SubDirs, NEW at,
           \A n \in ToSet(FilesIn(d)) : <<at, n>> \in DOMAIN disk
    PROVE  /\ Listing(d, at) \in Listings
           /\ Listing(d, at).dirs = SubDirs[d]
           /\ Len(Listing(d, at).files) = Len(FilesIn(d))
           /\ \A j \in 1 .. Len(FilesIn(d)) :
                /\ Listing(d, at).files[j].name = FilesIn(d)[j]
                /\ Listing(d, at).files[j].size = Len(disk[<<at, FilesIn(d)[j]>>])
<1> DEFINE F == FilesIn(d)
<1> DEFINE fs == [j \in 1 .. Len(F) |-> [name |-> F[j], size |-> Len(disk[<<at, F[j]>>])]]
<1>1. F \in Seq(FileNames) /\ Len(F) \in Nat BY FilesInIs
<1>2. \A j \in 1 .. Len(F) : F[j] \in FileNames /\ <<at, F[j]>> \in DOMAIN disk
    BY <1>1, FilesInIs
<1>3. \A j \in 1 .. Len(F) : Len(disk[<<at, F[j]>>]) \in Nat BY <1>2 DEF DiskOK
<1> HIDE DEF F
<1>4. fs \in [1 .. Len(F) -> [name : FileNames, size : Nat]] BY <1>2, <1>3
<1>5. fs \in Seq([name : FileNames, size : Nat]) /\ Len(fs) = Len(F) BY <1>1, <1>4
<1>6. Listing(d, at) = [dirs |-> SubDirs[d], files |-> fs] BY DEF Listing, F
<1> QED BY <1>5, <1>6, Roots DEF Listings, F

\* The connection of a descriptor, which is unique.
LEMMA ConnIs ==
    ASSUME PeersOK, FdsOK, NEW f \in Fds
    PROVE  /\ Conn(f) \in Clients \cup {None}
           /\ \A c \in Clients : Conn(f) = c <=> net[c].fd = f
<1>1. f # None OBVIOUS
<1>2. None \notin Clients OBVIOUS
<1> USE DEF FdsOK
<1> HIDE DEF Clients, None, Fds
<1>3. CASE \E c \in Clients : net[c].fd = f
    <2>1. PICK c \in Clients : net[c].fd = f BY <1>3
    <2>2. \A d \in Clients : net[d].fd = f => d = c BY <2>1, <1>1
    <2>3. Conn(f) = CHOOSE d \in Clients : net[d].fd = f BY <1>1, <1>3 DEF Conn
    <2>4. Conn(f) = c BY <2>1, <2>2, <2>3
    <2> QED BY <2>1, <2>2, <2>4
<1>4. CASE ~ \E c \in Clients : net[c].fd = f
    <2>1. Conn(f) = None BY <1>4 DEF Conn
    <2> QED BY <2>1, <1>2, <1>4
<1> QED BY <1>3, <1>4

------------------------------------------------------------------------------
(* Writes to a connection, and messages.                                   *)

\* A step touches the connection of c only.
OnlyNet(c) == net' \in [Clients -> Connections] /\ \A d \in Clients : d # c => net'[d] = net[d]
\* The server wrote the units to c, or to no one; the stream up is u afterwards.
Told(c, u, units) ==
    /\ OnlyNet(c)
    /\ c \in Clients => /\ net'[c].fd = net[c].fd /\ net'[c].conn = net[c].conn /\ net'[c].up = u
                         /\ net'[c].down = IF Departed(c) THEN net[c].down ELSE net[c].down \o units
    /\ state' \in {state, "gone"} /\ (state' # state => c \in Clients /\ Departed(c))

\* What a write does: a departed client gets nothing, and the server may end.
LEMMA TellIs ==
    ASSUME PeersOK, NEW c \in Clients \cup {None}, NEW u \in Seq(UpUnits), NEW n,
           n \in [Clients -> Connections], \A d \in Clients : d # c => n[d] = net[d],
           c # None => n[c].fd = net[c].fd /\ n[c].conn = net[c].conn /\ n[c].up = u /\
               n[c].down = net[c].down,
           NEW units \in Seq(DownUnits), Tell(c, n, units)
    PROVE  Told(c, u, units)
<1> None \notin Clients OBVIOUS
<1> HIDE DEF Clients, None
<1>1. CASE c = None \/ (c # None /\ Departed(c))
    <2>1. net' = n /\ state' \in {state} \cup (IF c = None THEN {} ELSE {"gone"}) BY <1>1 DEF Tell
    <2> QED BY <1>1, <2>1 DEF Told, OnlyNet
<1>2. CASE c # None /\ ~ Departed(c)
    <2>1. net' = [n EXCEPT ![c].down = @ \o units] /\ state' = state BY <1>2 DEF Tell
    <2>2. c \in Clients BY <1>2
    <2>3. n[c].down \o units \in Seq(DownUnits) BY <2>2, ConcatProperties DEF Connections
    <2>4. net'[c] = [n[c] EXCEPT !.down = @ \o units] BY <2>1, <2>2
    <2>5. \A d \in Clients : d # c => net'[d] = n[d] BY <2>1
    <2>6. net'[c] \in Connections BY <2>2, <2>3, <2>4 DEF Connections
    <2>7. net' \in [Clients -> Connections] BY <2>1, <2>2, <2>5, <2>6
    <2>8. net'[c].fd = n[c].fd /\ net'[c].conn = n[c].conn /\ net'[c].up = n[c].up /\
              net'[c].down = n[c].down \o units
        BY <2>2, <2>4 DEF Connections
    <2> QED BY <1>2, <2>1, <2>2, <2>5, <2>7, <2>8 DEF Told, OnlyNet
<1> QED BY <1>1, <1>2

\* Connections that keep their descriptors keep FdsOK.
LEMMA FdsKept ==
    ASSUME FdsOK, watched' \subseteq watched,
           \A d \in Clients : net'[d].fd = net[d].fd /\ net'[d].conn = net[d].conn
                              /\ (net[d].conn = "closed" => net'[d].up = << >>)
    PROVE  FdsOK'
BY DEF FdsOK

\* A slot that was never used holds no command.
LEMMA NoMessageIs == NoMessage \notin Messages /\ NoMessage.msg = "none"
    /\ \A m \in Messages \cup {NoMessage} : m.msg \in {"none", "B", "D", "E", "F"} /\ (m.msg = "none" <=> m = NoMessage)
BY DEF NoMessage, Messages

\* The first unit of a stream up is a unit, and what follows is a stream.
LEMMA HeadUp ==
    ASSUME PeersOK, NEW c \in Clients, net[c].up # << >>
    PROVE  /\ Head(net[c].up) \in UpUnits /\ Tail(net[c].up) \in Seq(UpUnits)
           /\ Head(net[c].up).kind = "cmd" => Head(net[c].up).val \in Messages
           /\ Head(net[c].up).kind = "args" =>
               Head(net[c].up).val \in [name : FileNames, size : {UpSize}]
           /\ Head(net[c].up).kind = "chunk" =>
               Head(net[c].up).val \in [by : Clients, n : 1 .. UpSize]
<1>1. net[c].up \in Seq(UpUnits) BY DEF PeersOK, Connections
<1>2. Head(net[c].up) \in UpUnits /\ Tail(net[c].up) \in Seq(UpUnits) BY <1>1, HeadTailProperties
<1> QED BY <1>2 DEF UpUnits

\* The same for a stream down.
LEMMA HeadDown ==
    ASSUME PeersOK, NEW c \in Clients, net[c].down # << >>
    PROVE  /\ Head(net[c].down) \in DownUnits /\ Tail(net[c].down) \in Seq(DownUnits)
           /\ Head(net[c].down).kind = "list" => Head(net[c].down).val \in Listings
           /\ Head(net[c].down).kind = "chunk" => Head(net[c].down).val \in Chunks
<1>1. net[c].down \in Seq(DownUnits) BY DEF PeersOK, Connections
<1>2. Head(net[c].down) \in DownUnits /\ Tail(net[c].down) \in Seq(DownUnits)
    BY <1>1, HeadTailProperties
<1> QED BY <1>2 DEF DownUnits

LEMMA ListUnit ==
    ASSUME NEW L \in Listings
    PROVE  <<Unit("list", L)>> \in Seq(DownUnits)
BY DEF Unit, DownUnits

------------------------------------------------------------------------------
(* The first state.                                                        *)

\* The initial state has the types.
LEMMA InitType == Init => TypeInv
<1> SUFFICES ASSUME Init PROVE TypeInv OBVIOUS
<1>0. << >> \in Seq(UpUnits) /\ << >> \in Seq(DownUnits) /\ << >> \in Seq(Dirs) /\
          << >> \in Seq(FileNames)
      /\ << >> \in Seq(Chunks) /\ << >> \in Seq([name : FileNames, size : Nat]) OBVIOUS
<1>1. LoopOK
    <2>1. Slot0 \in Slots BY <1>0, Roots DEF Slot0, Slots
    <2> QED BY <2>1 DEF Init, LoopOK
<1>2. DiskOK
    <2>1. \A p \in DOMAIN Disk0 : Disk0[p] \in Seq(Authors)
        <3>1. {Original} \subseteq Authors BY DEF Authors
        <3>2. Seq({Original}) \subseteq Seq(Authors) BY <3>1, SeqMonotonic
        <3> QED BY <3>2, FileAssumption
    <2>2. Disk0 \in [DOMAIN Disk0 -> Seq(Authors)]
        <3>1. Disk0 = [p \in DOMAIN Disk0 |-> Disk0[p]] BY FileAssumption
        <3> QED BY <3>1, <2>1
    <2> QED BY <2>2, FileAssumption DEF Init, DiskOK
<1>3. PeersOK
    <2>1. net \in [Clients -> Connections] BY <1>0 DEF Init, Connections
    <2>2. \A c \in Clients : Client0(c) \in ClientStates
        <3> TAKE c \in Clients
        <3>1. Commands[c] \in Nat BY FileAssumption
        <3>2. NoListing \in Listings BY <1>0 DEF NoListing, Listings
        <3>3. {} \in SUBSET UserPaths OBVIOUS
        <3>4. "off" \in Phases BY DEF Phases
        <3> HIDE DEF Clients
        <3> QED BY <1>0, <3>1, <3>2, <3>3, <3>4, Roots DEF Client0, ClientStates
    <2> QED BY <2>1, <2>2 DEF Init, PeersOK
<1>4. HistoryOK BY Roots DEF Init, HistoryOK
<1>5. FdsOK BY DEF Init, FdsOK
<1>6. GotOK BY DEF Init, GotOK, Client0
<1> QED BY <1>1, <1>2, <1>3, <1>4, <1>5, <1>6 DEF TypeInv

------------------------------------------------------------------------------
(* The types through the steps of the loop.  Every action is first stated  *)
(* as facts, from which the types follow and, later, the rest.             *)

\* Waiting for events keeps the types.
LEMMA TypeWait == TypeInv /\ Wait => TypeInv'
<1> SUFFICES ASSUME TypeInv, Wait PROVE TypeInv' OBVIOUS
<1>1. Ready \subseteq Fds \cup {Server} BY DEF TypeInv, LoopOK, Ready
<1> QED BY <1>1 DEF Wait, TypeInv, LoopOK, DiskOK, PeersOK, HistoryOK, FdsOK, GotOK, history

\* So does accepting a client,
LEMMA TypeAccept == TypeInv /\ AcceptClient => TypeInv'
<1> SUFFICES ASSUME TypeInv, AcceptClient PROVE TypeInv' OBVIOUS
<1>0. PICK c \in Pending, f \in Fds :
        /\ LowestFree(f)
        /\ net' = [net EXCEPT ![c].fd = f, ![c].conn = "open"]
        /\ clnt_sock' = f
        /\ watched' = watched \cup {f}
        /\ slot' = [slot EXCEPT ![f] = AcceptedSlot(@)]
        /\ found' = [found EXCEPT ![c] = [msg |-> slot'[f].msg.msg, path |-> slot[f].path]]
    BY DEF AcceptClient
<1>1. UNCHANGED <<state, cur, step, threads, disk, cl, misdel, misled, cut, rewritten, stored, astray>>
      /\ batch' \subseteq batch
    BY DEF AcceptClient
<1>2. c \in Clients /\ net[c].conn = "queued" BY DEF Pending
<1>3. slot'[f] \in Slots /\ slot'[f].msg = slot[f].msg /\ slot[f] \in Slots
    BY <1>0 DEF AcceptedSlot, TypeInv, LoopOK, Slots
<1>4. LoopOK'
    <2>1. slot' \in [Fds -> Slots] BY <1>0, <1>3 DEF TypeInv, LoopOK
    <2>2. \A t : ThreadOK(t)' <=> ThreadOK(t) BY DEF ThreadOK
    <2>3. clnt_sock' \in Fds /\ watched' \subseteq Fds /\ batch' \subseteq Fds \cup {Server}
        BY <1>0, <1>1 DEF TypeInv, LoopOK
    <2> QED BY <1>1, <2>1, <2>2, <2>3 DEF TypeInv, LoopOK
<1>5. DiskOK' BY <1>1 DEF TypeInv, DiskOK
<1>6. PeersOK' BY <1>0, <1>1, <1>2 DEF TypeInv, PeersOK, Connections
<1>7. HistoryOK'
    <2>1. slot[f].msg.msg \in {"none", "B", "D", "E", "F"} /\ slot[f].path \in DOMAIN SubDirs
        BY <1>3, NoMessageIs DEF Slots
    <2> QED BY <1>0, <1>1, <1>2, <1>3, <2>1 DEF TypeInv, HistoryOK
<1>8. FdsOK'
    <2>1. \A d \in Clients : net[d].fd # f
        BY <1>0, ConnIs DEF LowestFree, TypeInv
    <2>2. net'[c].fd = f /\ net'[c].conn = "open" /\ net'[c].up = net[c].up
        BY <1>0, <1>2 DEF TypeInv, PeersOK, Connections
    <2>3. \A d \in Clients : d # c => net'[d] = net[d] BY <1>0, <1>2 DEF TypeInv, PeersOK
    <2>4. net[c].fd = None BY <1>2 DEF TypeInv, FdsOK
    <2> HIDE DEF Clients, Fds, None
    <2>5. f # None BY DEF Fds, None
    <2>6. \A d, e \in Clients : net'[d].fd # None /\ net'[d].fd = net'[e].fd => d = e
        BY <2>1, <2>2, <2>3 DEF TypeInv, FdsOK
    <2>7. \A d \in Clients : (net'[d].conn = "open" <=> net'[d].fd # None) /\
              (net'[d].conn = "closed" => net'[d].up = << >>)
        BY <2>2, <2>3, <2>5 DEF TypeInv, FdsOK
    <2>8. \A g \in watched' : \E d \in Clients : net'[d].fd = g
        <3> SUFFICES ASSUME NEW g \in watched' PROVE \E d \in Clients : net'[d].fd = g OBVIOUS
        <3>1. CASE g = f BY <1>2, <2>2, <3>1
        <3>2. CASE g # f
            <4>1. g \in watched BY <1>0, <3>2
            <4>2. PICK d \in Clients : net[d].fd = g BY <4>1 DEF TypeInv, FdsOK
            <4>3. g # None BY <4>1 DEF TypeInv, LoopOK, Fds, None
            <4> QED BY <2>3, <2>4, <4>2, <4>3
        <3> QED BY <3>1, <3>2
    <2> QED BY <2>6, <2>7, <2>8 DEF FdsOK
<1>9. GotOK' BY <1>0, <1>1, <1>2 DEF TypeInv, GotOK, PeersOK
<1> QED BY <1>4, <1>5, <1>6, <1>7, <1>8, <1>9 DEF TypeInv

\* and taking an event from the batch.
LEMMA TypeTake ==
    ASSUME TypeInv, NEW f \in Fds, Take(f)
    PROVE  TypeInv'
<1>1. f # None OBVIOUS
<1> QED BY <1>1 DEF Take, TypeInv, LoopOK, DiskOK, PeersOK, HistoryOK, FdsOK, GotOK, history

\* What a listing leaves in the slot.
LEMMA ListedIs ==
    ASSUME NEW s \in Slots, NEW L \in Listings
    PROVE  /\ ListedSlot(s, L) \in Slots
           /\ ListedSlot(s, L).init = s.init /\ ListedSlot(s, L).msg = s.msg /\
               ListedSlot(s, L).path = s.path
           /\ ListedSlot(s, L).dirs = Over(s.dirs, L.dirs)
           /\ Len(ListedSlot(s, L).files) >= Len(L.files)
           /\ \A j \in 1 .. Len(L.files) : ListedSlot(s, L).files[j] = L.files[j].name
<1> DEFINE ns == [j \in DOMAIN L.files |-> L.files[j].name]
<1>1. L.files \in Seq([name : FileNames, size : Nat]) /\ L.dirs \in Seq(Dirs) BY DEF Listings
<1>2. DOMAIN L.files = 1 .. Len(L.files) /\ Len(L.files) \in Nat BY <1>1
<1>3. \A j \in 1 .. Len(L.files) : L.files[j] \in [name : FileNames, size : Nat]
    BY <1>1, ElementOfSeq
<1>4. ns \in [1 .. Len(L.files) -> FileNames] BY <1>2, <1>3
<1>5. ns \in Seq(FileNames) /\ Len(ns) = Len(L.files) BY <1>2, <1>4
<1>6. \A j \in 1 .. Len(L.files) : ns[j] = L.files[j].name BY <1>2
<1> HIDE DEF ns
<1>7. s.dirs \in Seq(Dirs) /\ s.files \in Seq(FileNames) BY DEF Slots
<1>8. Over(s.dirs, L.dirs) \in Seq(Dirs) BY <1>1, <1>7, OverIs
<1>9. Over(s.files, ns) \in Seq(FileNames) /\ Len(Over(s.files, ns)) >= Len(ns)
      /\ \A j \in 1 .. Len(ns) : Over(s.files, ns)[j] = ns[j]
    BY <1>5, <1>7, OverIs
<1>10. ListedSlot(s, L) = [s EXCEPT !.dirs = Over(s.dirs, L.dirs), !.files = Over(s.files, ns)]
    BY DEF ListedSlot, ns
<1> QED BY <1>5, <1>6, <1>8, <1>9, <1>10 DEF Slots

\* Reading the listing of a directory that is looked up in itself meets no missing file.
LEMMA OwnFiles ==
    ASSUME NEW d
    PROVE  \A n \in ToSet(FilesIn(d)) : <<d, n>> \in DOMAIN disk
BY FilesInIs

\* The slot's names are those of the listing, as far as it goes.
FilesKnown(s, L) == /\ Len(L.files) \in Nat /\ Len(s) >= Len(L.files)
                    /\ \A j \in 1 .. Len(L.files) : s[j] = L.files[j].name
OnlySlot(f) == slot' \in [Fds -> Slots] /\ \A g \in Fds : g # f => slot'[g] = slot[g]

\* What the first event of client c does; the facts of an action are what later proofs use of it.
GreetFacts(c, L) ==
    /\ c \in Clients /\ cur \in Fds /\ net[c].fd = cur /\ net[c].conn = "open" /\ Available(c)
    /\ slot[cur].init /\ step = "read" /\ L \in Listings /\ L = Listing(Root, Root)
    /\ Told(c, IF net[c].up = << >> THEN net[c].up ELSE Tail(net[c].up), <<Unit("list", L)>>)
    /\ OnlySlot(cur)
    /\ ~ slot'[cur].init /\ slot'[cur].msg = slot[cur].msg /\ slot'[cur].path = slot[cur].path
    /\ slot'[cur].dirs = Over(slot[cur].dirs, L.dirs) /\ FilesKnown(slot'[cur].files, L)
    /\ LookAt(slot[cur].msg)
    /\ UNCHANGED <<clnt_sock, watched, batch, threads, disk, cl, found, misdel, misled, cut, rewritten,
        stored, astray>>

LEMMA GreetIs ==
    ASSUME TypeInv, Greet
    PROVE  \E c, L : GreetFacts(c, L)
<1> DEFINE c == Conn(cur)
<1> DEFINE L == Listing(Root, Root)
<1> DEFINE u == IF net[c].up = << >> THEN net[c].up ELSE Tail(net[c].up)
<1> DEFINE n == [net EXCEPT ![c].up = IF @ = << >> THEN @ ELSE Tail(@)]
<1> DEFINE s == [slot[cur] EXCEPT !.init = FALSE]
<1>1. cur \in Fds BY DEF Greet, TypeInv, LoopOK
<1>2. c \in Clients /\ net[c].fd = cur BY <1>1, ConnIs DEF Greet, TypeInv
<1>3. L \in Listings BY Roots, OwnFiles, ListingIs DEF TypeInv
<1>4. /\ Tell(c, n, <<Unit("list", L)>>)
      /\ slot' = [slot EXCEPT ![cur] = ListedSlot([@ EXCEPT !.init = FALSE], L)]
      /\ Available(c) /\ slot[cur].init /\ step = "read" /\ LookAt(slot[cur].msg)
      /\ UNCHANGED <<clnt_sock, watched, batch, threads, disk, cl, history>>
    BY DEF Greet
<1>5. u \in Seq(UpUnits) BY <1>2, HeadUp DEF TypeInv, PeersOK, Connections
<1>6. n = [net EXCEPT ![c].up = u] BY <1>2 DEF TypeInv, PeersOK
<1>7. net[c].conn = "open" BY <1>1, <1>2 DEF TypeInv, FdsOK
<1>8. s \in Slots /\ s.init = FALSE /\ s.msg = slot[cur].msg /\ s.path = slot[cur].path /\
          s.dirs = slot[cur].dirs
    BY <1>1 DEF TypeInv, LoopOK, Slots
<1>9. slot' = [slot EXCEPT ![cur] = ListedSlot(s, L)] BY <1>1, <1>4 DEF TypeInv, LoopOK
<1> HIDE DEF c, L, u, n, s
<1>10. Told(c, u, <<Unit("list", L)>>)
    <2>1. /\ n \in [Clients -> Connections] /\ \A d \in Clients : d # c => n[d] = net[d]
          /\ n[c].fd = net[c].fd /\ n[c].conn = net[c].conn /\ n[c].up = u /\
              n[c].down = net[c].down
        BY <1>2, <1>5, <1>6 DEF TypeInv, PeersOK, Connections
    <2>2. <<Unit("list", L)>> \in Seq(DownUnits) BY <1>3, ListUnit
    <2>3. PeersOK BY DEF TypeInv
    <2> QED BY <1>2, <1>4, <1>5, <2>1, <2>2, <2>3, TellIs
<1>11. OnlySlot(cur) /\ slot'[cur] = ListedSlot(s, L)
    BY <1>1, <1>3, <1>8, <1>9, ListedIs DEF OnlySlot, TypeInv, LoopOK
<1>12. ~ slot'[cur].init /\ slot'[cur].msg = slot[cur].msg /\ slot'[cur].path = slot[cur].path
       /\ slot'[cur].dirs = Over(slot[cur].dirs, L.dirs) /\ FilesKnown(slot'[cur].files, L)
    <2>1. Len(L.files) \in Nat BY <1>3 DEF Listings
    <2> QED BY <1>3, <1>8, <1>11, <2>1, ListedIs DEF FilesKnown
<1>13. GreetFacts(c, L)
    <2>1. UNCHANGED <<found, misdel, misled, cut, rewritten, stored, astray>> BY <1>4 DEF history
    <2> QED BY <1>1, <1>2, <1>3, <1>4, <1>7, <1>10, <1>11, <1>12, <2>1 DEF GreetFacts, L, u
<1> QED BY <1>13

\* After a read the loop carries out the command or is done with the event.
LEMMA LookIs ==
    ASSUME TypeInv, cur \in Fds, NEW m, LookAt(m)
    PROVE  /\ cur' \in Fds \cup {None} /\ step' \in {"poll", "read", "act"} /\
               (step' = "poll" <=> cur' = None)
           /\ m = NoMessage => cur' = None /\ step' = "poll"
           /\ m # NoMessage => cur' = cur /\ step' = "act"
BY DEF LookAt, EventDone

\* What a write of the server leaves of the types.
LEMMA ToldType ==
    ASSUME TypeInv, NEW c \in Clients \cup {None}, NEW u, NEW units, Told(c, u, units),
           c # None => u = net[c].up \/ net[c].conn = "open", watched' \subseteq watched, cl' = cl
    PROVE  PeersOK' /\ FdsOK' /\ GotOK' /\ state' \in {"run", "gone", "astray"}
<1>1. \A d \in Clients : net'[d].fd = net[d].fd /\ net'[d].conn = net[d].conn
                              /\ (net[d].conn = "closed" => net'[d].up = << >>)
    BY DEF Told, OnlyNet, TypeInv, FdsOK
<1>2. FdsOK' BY <1>1, FdsKept DEF TypeInv
<1>3. PeersOK' BY DEF Told, OnlyNet, TypeInv, PeersOK
<1>4. GotOK' BY DEF Told, OnlyNet, TypeInv, GotOK
<1> QED BY <1>2, <1>3, <1>4 DEF Told, TypeInv, LoopOK

LEMMA TypeGreet ==
    ASSUME TypeInv, NEW c, NEW L, GreetFacts(c, L)
    PROVE  TypeInv'
<1>1. PeersOK' /\ FdsOK' /\ GotOK' /\ state' \in {"run", "gone", "astray"}
    BY ToldType DEF GreetFacts
<1>2. LoopOK' BY <1>1, LookIs DEF GreetFacts, OnlySlot, TypeInv, LoopOK
<1>3. DiskOK' /\ HistoryOK' BY DEF GreetFacts, TypeInv, DiskOK, HistoryOK
<1> QED BY <1>1, <1>2, <1>3 DEF TypeInv

\* A read that goes astray.
LEMMA TypeAstray ==
    ASSUME TypeInv, NEW c, Astray(c)
    PROVE  TypeInv'
BY DEF Astray, TypeInv, LoopOK, DiskOK, PeersOK, HistoryOK, FdsOK, GotOK, loopVars

\* A read of the loop that comes short.
ShortFacts(c) ==
    /\ c \in Clients /\ net[c].fd = cur /\ cur \in Fds
    /\ state' = "astray" /\ astray' = astray \cup {c} /\ cut' = cut \cup {c}
    /\ UNCHANGED <<clnt_sock, watched, batch, cur, step, slot, threads, disk, net, cl, found,
        misdel, misled, rewritten, stored>>

LEMMA ShortIs ==
    ASSUME TypeInv, ReadShort
    PROVE  \E c : ShortFacts(c)
<1>1. cur \in Fds BY DEF ReadShort, Acting, TypeInv, LoopOK
<1>2. Conn(cur) \in Clients /\ net[Conn(cur)].fd = cur BY <1>1, ConnIs DEF ReadShort, TypeInv
<1>3. ShortFacts(Conn(cur)) BY <1>1, <1>2 DEF ReadShort, CutShort, ShortFacts, loopVars
<1> QED BY <1>3

LEMMA TypeShort ==
    ASSUME TypeInv, NEW c, ShortFacts(c)
    PROVE  TypeInv'
BY DEF ShortFacts, TypeInv, LoopOK, DiskOK, PeersOK, HistoryOK, FdsOK, GotOK

\* The server reads the first unit and writes nothing.
LEMMA TailTold ==
    ASSUME TypeInv, NEW c \in Clients, NEW u \in Seq(UpUnits), net' = [net EXCEPT ![c].up = u],
           state' = state
    PROVE  Told(c, u, << >>) /\ net'[c].down = net[c].down
<1> HIDE DEF Clients
<1>1. PICK n : n = [net EXCEPT ![c].up = u] OBVIOUS
<1>2. net' = n BY <1>1
<1>3. net \in [Clients -> Connections] BY DEF TypeInv, PeersOK
<1>4. /\ n \in [Clients -> Connections]
      /\ n[c].up = u /\ n[c].down = net[c].down
      /\ \A d \in Clients : n[d].fd = net[d].fd /\ n[d].conn = net[d].conn /\
          n[d].down = net[d].down
      /\ \A d \in Clients : d # c => n[d] = net[d]
    BY <1>1, <1>3 DEF Connections
<1>5. net[c].down \o << >> = net[c].down
    <2>1. net[c].down \in Seq(DownUnits) BY DEF TypeInv, PeersOK, Connections
    <2> QED BY <2>1, ConcatEmptySeq
<1> QED BY <1>2, <1>4, <1>5 DEF Told, OnlyNet

\* The loop reads the command m of c.
ReadFacts(c, m) ==
    /\ c \in Clients /\ cur \in Fds /\ net[c].fd = cur /\ net[c].conn = "open" /\ net[c].up # << >>
    /\ step = "read" /\ ~ slot[cur].init
    /\ Head(net[c].up).kind = "cmd" /\ m = Head(net[c].up).val /\ m \in Messages
    /\ Told(c, Tail(net[c].up), << >>)
    /\ net'[c].down = net[c].down
    /\ OnlySlot(cur) /\ slot'[cur] = [slot[cur] EXCEPT !.msg = m]
    /\ cur' = cur /\ step' = "act" /\ state' = state
    /\ UNCHANGED <<clnt_sock, watched, batch, threads, disk, cl, found, misdel, misled, cut, rewritten,
        stored, astray>>
\* The client has gone: read returns nothing, and the slot's last command is carried out again.
IdleFacts ==
    /\ cur \in Fds /\ step = "read" /\ ~ slot[cur].init
    /\ \A c \in Clients : net[c].fd = cur => net[c].up = << >> /\ Departed(c)
    /\ slot[cur].msg = NoMessage => cur' = None /\ step' = "poll"
    /\ slot[cur].msg # NoMessage => cur' = cur /\ step' = "act"
    /\ UNCHANGED <<state, net, slot, clnt_sock, watched, batch, threads, disk, cl, found, misdel,
        misled, cut, rewritten, stored, astray>>
\* The loop reads what is no command.
AstrayRead(c) ==
    /\ c \in Clients /\ cur \in Fds /\ net[c].fd = cur /\ net[c].conn = "open" /\ net[c].up # << >>
    /\ step = "read" /\ ~ slot[cur].init /\ Head(net[c].up).kind # "cmd" /\ Astray(c)

LEMMA ReadIs ==
    ASSUME TypeInv, ReadCommand
    PROVE  IdleFacts \/ \E c : AstrayRead(c) \/ \E m : ReadFacts(c, m)
<1> DEFINE c == Conn(cur)
<1> DEFINE u == IF c = None THEN << >> ELSE net[c].up
<1>1. cur \in Fds BY DEF ReadCommand, TypeInv, LoopOK
<1>2. /\ c \in Clients \cup {None}
      /\ \A d \in Clients : c = d <=> net[d].fd = cur
      /\ \A d \in Clients : net[d].fd = cur => net[d].conn = "open"
    BY <1>1, ConnIs DEF TypeInv, FdsOK
<1>3. None \notin Clients OBVIOUS
<1>4. /\ step = "read" /\ ~ slot[cur].init
      /\ c # None => Available(c)
      /\ IF u # << >> /\ Head(u).kind # "cmd" THEN Astray(c)
           ELSE /\ IF u = << >> THEN UNCHANGED <<net, slot>>
                   ELSE /\ net' = [net EXCEPT ![c].up = Tail(@)]
                        /\ slot' = [slot EXCEPT ![cur].msg = Head(u).val]
                /\ LookAt(IF u = << >> THEN slot[cur].msg ELSE Head(u).val)
                /\ UNCHANGED <<state, clnt_sock, watched, batch, threads, disk, cl,
                               found, misdel, misled, cut, rewritten, stored, astray>>
    BY DEF ReadCommand, history
<1> HIDE DEF Clients, Fds, None, c
<1>5. CASE u = << >>
    <2>1. \A d \in Clients : net[d].fd = cur => net[d].up = << >> /\ Departed(d)
        BY <1>2, <1>3, <1>4, <1>5 DEF Available
    <2>2. UNCHANGED <<net, slot>> /\ LookAt(slot[cur].msg) /\
              UNCHANGED <<state, clnt_sock, watched, batch, threads, disk, cl,
                               found, misdel, misled, cut, rewritten, stored, astray>>
         BY <1>4, <1>5
    <2>3. IdleFacts BY <1>1, <1>4, <2>1, <2>2, LookIs DEF IdleFacts
    <2> QED BY <2>3
<1>6. CASE u # << >> /\ Head(u).kind # "cmd"
    <2>1. AstrayRead(c) BY <1>1, <1>2, <1>3, <1>4, <1>6 DEF AstrayRead
    <2> QED BY <2>1
<1>7. CASE u # << >> /\ Head(u).kind = "cmd"
    <2>0. c \in Clients /\ u = net[c].up /\ net[c].fd = cur /\ net[c].conn = "open" BY <1>2, <1>7
    <2>1. PICK m \in Messages : m = Head(net[c].up).val BY <1>7, <2>0, HeadUp DEF TypeInv
    <2>2. net' = [net EXCEPT ![c].up = Tail(@)] /\ slot' = [slot EXCEPT ![cur].msg = m] /\ LookAt(m)
          /\ UNCHANGED <<state, clnt_sock, watched, batch, threads, disk, cl, found, misdel, misled, cut,
              rewritten, stored, astray>>
        BY <1>4, <1>7, <2>0, <2>1
    <2>3. cur' = cur /\ step' = "act" BY <2>1, <2>2, NoMessageIs DEF LookAt
    <2>6. Told(c, Tail(net[c].up), << >>) /\ net'[c].down = net[c].down
        <3>1. PICK v \in Seq(UpUnits) : v = Tail(net[c].up) BY <1>7, <2>0, HeadUp DEF TypeInv
        <3>2. net' = [net EXCEPT ![c].up = v] BY <2>0, <2>2, <3>1 DEF TypeInv, PeersOK
        <3> QED BY <2>0, <2>2, <3>1, <3>2, TailTold
    <2>7. OnlySlot(cur) /\ slot'[cur] = [slot[cur] EXCEPT !.msg = m]
        BY <1>1, <2>1, <2>2 DEF OnlySlot, TypeInv, LoopOK, Slots
    <2>8. ReadFacts(c, m) BY <1>1, <1>4, <1>7, <2>0, <2>1, <2>2, <2>3, <2>6, <2>7 DEF ReadFacts
    <2> QED BY <2>8
<1> QED BY <1>5, <1>6, <1>7

LEMMA TypeIdle ==
    ASSUME TypeInv, IdleFacts
    PROVE  TypeInv'
<1>1. UNCHANGED <<state, net, slot, clnt_sock, watched, batch, threads, disk, cl, found, misdel,
          misled, cut, rewritten, stored, astray>>
    BY DEF IdleFacts
<1>2. cur' \in Fds \cup {None} /\ step' \in {"poll", "read", "act"} /\
          (step' = "poll" <=> cur' = None)
    BY DEF IdleFacts
<1> QED BY <1>1, <1>2 DEF TypeInv, LoopOK, DiskOK, PeersOK, HistoryOK, FdsOK, GotOK

LEMMA TypeRead ==
    ASSUME TypeInv, NEW c, NEW m, ReadFacts(c, m)
    PROVE  TypeInv'
<1>1. PeersOK' /\ FdsOK' /\ GotOK' /\ state' \in {"run", "gone", "astray"}
    BY ToldType DEF ReadFacts
<1>2. LoopOK' BY <1>1 DEF ReadFacts, OnlySlot, TypeInv, LoopOK
<1>3. DiskOK' /\ HistoryOK' BY DEF ReadFacts, TypeInv, DiskOK, HistoryOK
<1> QED BY <1>1, <1>2, <1>3 DEF TypeInv

------------------------------------------------------------------------------
(* B, D, E and F.                                                          *)

\* Client c is the one whose event is handled, if its connection is open.
TheConn(c) == c = Conn(cur) /\ c \in Clients \cup {None} /\ \A d \in Clients : d = c <=>
    net[d].fd = cur
\* The directory that B asks for, by the slot's table.
DirAsked == IF slot[cur].msg.dir_index = -1 THEN Root
            ELSE NameAt(slot[cur].dirs, slot[cur].msg.index)
\* Where its files are looked up: by the name in the table before or after it is overwritten.
PlacesAsked(d) == IF slot[cur].msg.dir_index = -1 THEN {Root}
                  ELSE {d, NameAt(Over(slot[cur].dirs, SubDirs[d]), slot[cur].msg.index)}
Missing(d, at) == \E n \in ToSet(FilesIn(d)) : <<at, n>> \notin DOMAIN disk
\* The loop carries out B: directory d is listed, its files looked up in directory at.
ListFacts(c, d, at) ==
    /\ cur \in Fds /\ Acting("B") /\ TheConn(c)
    /\ d = DirAsked /\ d \in DOMAIN SubDirs /\ at \in PlacesAsked(d) /\ ~ Missing(d, at)
    /\ Listing(d, at) \in Listings
    /\ Told(c, IF c = None THEN << >> ELSE net[c].up, <<Unit("list", Listing(d, at))>>)
    /\ OnlySlot(cur)
    /\ slot'[cur].init = slot[cur].init /\ slot'[cur].msg = slot[cur].msg /\ slot'[cur].path = d
    /\ slot'[cur].dirs = Over(slot[cur].dirs, SubDirs[d]) /\
        FilesKnown(slot'[cur].files, Listing(d, at))
    /\ cur' = None /\ step' = "poll"
    /\ UNCHANGED <<clnt_sock, watched, batch, threads, disk, cl, found, misdel, misled, cut, rewritten,
        stored, astray>>
\* A directory or a file is not there, and the server ends.
ListGone ==
    /\ cur \in Fds /\ Acting("B")
    /\ DirAsked \notin DOMAIN SubDirs \/ \E at \in PlacesAsked(DirAsked) : Missing(DirAsked, at)
    /\ state' = "gone"
    /\ UNCHANGED <<cur, step, slot, net, clnt_sock, watched, batch, threads, disk, cl, found,
        misdel, misled, cut, rewritten, stored, astray>>

\* A write that changes no stream up.
LEMMA ConnTold ==
    ASSUME TypeInv, NEW c \in Clients \cup {None}, NEW units \in Seq(DownUnits),
           Tell(c, net, units)
    PROVE  Told(c, IF c = None THEN << >> ELSE net[c].up, units)
<1>1. None \notin Clients OBVIOUS
<1> HIDE DEF Clients, None
<1> DEFINE u == IF c = None THEN << >> ELSE net[c].up
<1>2. u \in Seq(UpUnits) BY DEF TypeInv, PeersOK, Connections
<1>3. net \in [Clients -> Connections] /\ PeersOK BY DEF TypeInv, PeersOK
<1>4. c # None => net[c].up = u OBVIOUS
<1> HIDE DEF u
<1>5. Told(c, u, units) BY <1>2, <1>3, <1>4, TellIs
<1> QED BY <1>5 DEF u

LEMMA ListDirIs ==
    ASSUME TypeInv, ListDir
    PROVE  ListGone \/ \E c, d, at : ListFacts(c, d, at)
<1> DEFINE c == Conn(cur)
<1> DEFINE d == DirAsked
<1>1. cur \in Fds /\ Acting("B") BY DEF ListDir, Acting, TypeInv, LoopOK
<1>2. TheConn(c) BY <1>1, ConnIs DEF TypeInv, TheConn
<1>3. /\ \/ /\ d \notin DOMAIN SubDirs
            /\ state' = "gone" /\ UNCHANGED <<cur, step, slot, net>>
         \/ /\ d \in DOMAIN SubDirs
            /\ \E at \in PlacesAsked(d) :
                  \/ /\ Missing(d, at)
                     /\ state' = "gone"
                     /\ UNCHANGED <<cur, step, slot, net>>
                  \/ /\ ~ Missing(d, at)
                     /\ Tell(c, net, <<Unit("list", Listing(d, at))>>)
                     /\ slot' = [slot EXCEPT ![cur] =
                                    [ListedSlot(@, Listing(d, at)) EXCEPT !.path = d]]
                     /\ EventDone
      /\ UNCHANGED <<clnt_sock, watched, batch, threads, disk, cl, found, misdel, misled, cut, rewritten,
          stored, astray>>
    BY DEF ListDir, DirAsked, PlacesAsked, Missing, history
<1> HIDE DEF c, d
<1>4. CASE d \in DOMAIN SubDirs /\ \E at \in PlacesAsked(d) :
                     /\ ~ Missing(d, at)
                     /\ Tell(c, net, <<Unit("list", Listing(d, at))>>)
                     /\ slot' = [slot EXCEPT ![cur] =
                                    [ListedSlot(@, Listing(d, at)) EXCEPT !.path = d]]
                     /\ EventDone
    <2>1. PICK at \in PlacesAsked(d) :
                     /\ ~ Missing(d, at)
                     /\ Tell(c, net, <<Unit("list", Listing(d, at))>>)
                     /\ slot' = [slot EXCEPT ![cur] =
                                    [ListedSlot(@, Listing(d, at)) EXCEPT !.path = d]]
                     /\ EventDone
        BY <1>4
    <2>2. d \in DOMAIN SubDirs BY <1>4
    <2>3. PICK L : L = Listing(d, at) OBVIOUS
    <2>4. L \in Listings /\ L.dirs = SubDirs[d]
        <3>1. \A n \in ToSet(FilesIn(d)) : <<at, n>> \in DOMAIN disk BY <2>1 DEF Missing
        <3> QED BY <2>2, <2>3, <3>1, ListingIs DEF TypeInv
    <2>5. Told(c, IF c = None THEN << >> ELSE net[c].up, <<Unit("list", L)>>)
        BY <1>2, <2>1, <2>3, <2>4, ListUnit, ConnTold DEF TheConn
    <2>6. slot[cur] \in Slots BY <1>1 DEF TypeInv, LoopOK
    <2>7. PICK s \in Slots : s = ListedSlot(slot[cur], L) BY <2>4, <2>6, ListedIs
    <2>8. slot' = [slot EXCEPT ![cur] = [s EXCEPT !.path = d]]
        BY <1>1, <2>1, <2>3, <2>7 DEF TypeInv, LoopOK
    <2>9. OnlySlot(cur) /\ slot'[cur] = [s EXCEPT !.path = d]
        BY <1>1, <2>2, <2>7, <2>8 DEF OnlySlot, TypeInv, LoopOK, Slots
    <2>10. slot'[cur].init = slot[cur].init /\ slot'[cur].msg = slot[cur].msg /\ slot'[cur].path = d
           /\ slot'[cur].dirs = Over(slot[cur].dirs, SubDirs[d]) /\ slot'[cur].files = s.files
        BY <2>4, <2>6, <2>7, <2>9, ListedIs DEF Slots
    <2>11. FilesKnown(slot'[cur].files, L)
        <3>1. Len(L.files) \in Nat BY <2>4 DEF Listings
        <3> QED BY <2>4, <2>6, <2>7, <2>10, <3>1, ListedIs DEF FilesKnown
    <2>12. ListFacts(c, d, at)
        BY <1>1, <1>2, <1>3, <2>1, <2>2, <2>3, <2>4, <2>5, <2>9, <2>10, <2>11
        DEF ListFacts, d, EventDone
    <2> QED BY <2>12
<1>5. CASE d \notin DOMAIN SubDirs /\ state' = "gone" /\ UNCHANGED <<cur, step, slot, net>>
    BY <1>1, <1>3, <1>5 DEF ListGone, d
<1>6. CASE (\E at \in PlacesAsked(d) : Missing(d, at)) /\ state' = "gone" /\
          UNCHANGED <<cur, step, slot, net>>
    BY <1>1, <1>3, <1>6 DEF ListGone, d
<1> QED BY <1>3, <1>4, <1>5, <1>6

LEMMA TypeListGone ==
    ASSUME TypeInv, ListGone
    PROVE  TypeInv'
BY DEF ListGone, TypeInv, LoopOK, DiskOK, PeersOK, HistoryOK, FdsOK, GotOK

LEMMA TypeList ==
    ASSUME TypeInv, NEW c, NEW d, NEW at, ListFacts(c, d, at)
    PROVE  TypeInv'
<1>1. PeersOK' /\ FdsOK' /\ GotOK' /\ state' \in {"run", "gone", "astray"}
    BY ToldType DEF ListFacts, TheConn
<1>2. LoopOK' BY <1>1 DEF ListFacts, OnlySlot, TypeInv, LoopOK
<1>3. DiskOK' /\ HistoryOK' BY DEF ListFacts, TypeInv, DiskOK, HistoryOK
<1> QED BY <1>1, <1>2, <1>3 DEF TypeInv

\* The thread that D starts.
DownThread == [kind |-> "down", fd |-> cur, path |-> PathOf(slot[cur]), next |-> 1, size |-> 0]
\* The loop carries out D.
DownloadFacts ==
    /\ cur \in Fds /\ Acting("D")
    /\ threads' = threads \cup {DownThread}
    /\ cur' = None /\ step' = "poll"
    /\ UNCHANGED <<state, clnt_sock, watched, batch, slot, disk, net, cl, found, misdel, misled, cut,
        rewritten, stored, astray>>

LEMMA DownloadIs == TypeInv /\ StartDownload => DownloadFacts
BY DEF StartDownload, DownloadFacts, DownThread, EventDone, history, Acting, TypeInv, LoopOK

LEMMA TypeDownload ==
    ASSUME TypeInv, DownloadFacts
    PROVE  TypeInv'
<1>1. ThreadOK(DownThread) BY DEF DownloadFacts, DownThread, ThreadOK
<1>2. \A t \in threads' : ThreadOK(t) BY <1>1 DEF DownloadFacts, TypeInv, LoopOK
<1> QED BY <1>2 DEF DownloadFacts, TypeInv, LoopOK, DiskOK, PeersOK, HistoryOK, FdsOK, GotOK

\* The server closes the connection of c.
HungUp(c) ==
    /\ OnlyNet(c)
    /\ c \in Clients => /\ net[c].conn = "open" /\ net'[c].fd = None /\ net'[c].conn = "closed" /\
                           net'[c].up = << >>
                        /\ net'[c].down = net[c].down

LEMMA HungUpIs ==
    ASSUME TypeInv, NEW c \in Clients \cup {None}, c # None => net[c].fd # None,
           net' = IF c = None THEN net ELSE Closed(c)
    PROVE  HungUp(c)
<1>1. << >> \in Seq(UpUnits) OBVIOUS
<1>2. CASE c = None BY <1>2 DEF HungUp, OnlyNet, TypeInv, PeersOK
<1>3. CASE c # None
    <2>1. net[c].conn = "open" BY <1>3 DEF TypeInv, FdsOK
    <2> QED BY <1>1, <1>3, <2>1 DEF HungUp, OnlyNet, TypeInv, PeersOK, Connections, Closed
<1> QED BY <1>2, <1>3

\* The loop carries out E.
CloseFacts(c) ==
    /\ cur \in Fds /\ Acting("E") /\ TheConn(c) /\ HungUp(c)
    /\ watched' = watched \ {cur}
    /\ cur' = None /\ step' = "poll"
    /\ UNCHANGED <<state, clnt_sock, batch, slot, threads, disk, cl, found, misdel, misled, cut,
        rewritten, stored, astray>>

LEMMA CloseIs == TypeInv /\ CloseClient => CloseFacts(Conn(cur))
<1> SUFFICES ASSUME TypeInv, CloseClient PROVE CloseFacts(Conn(cur)) OBVIOUS
<1>1. cur \in Fds BY DEF CloseClient, Acting, TypeInv, LoopOK
<1>2. TheConn(Conn(cur)) BY <1>1, ConnIs DEF TypeInv, TheConn
<1>3. HungUp(Conn(cur)) BY <1>1, <1>2, HungUpIs DEF CloseClient, Ended, TheConn
<1> QED BY <1>1, <1>2, <1>3 DEF CloseClient, CloseFacts, EventDone, history

LEMMA HungUpType ==
    ASSUME TypeInv, NEW c, HungUp(c), cl' = cl,
           \A g \in watched' : g \in watched /\ (c \in Clients => g # net[c].fd)
    PROVE  PeersOK' /\ FdsOK' /\ GotOK'
<1>1. PeersOK' /\ GotOK'
    <2>1. ASSUME NEW d \in Clients, cl[d].phase = "off" PROVE net'[d].conn = "none"
        BY <2>1 DEF HungUp, OnlyNet, TypeInv, PeersOK, GotOK
    <2> QED BY <2>1 DEF HungUp, OnlyNet, TypeInv, PeersOK, GotOK
<1>2. FdsOK' BY DEF HungUp, OnlyNet, TypeInv, FdsOK
<1> QED BY <1>1, <1>2

LEMMA TypeClose ==
    ASSUME TypeInv, NEW c, CloseFacts(c)
    PROVE  TypeInv'
<1>1. PeersOK' /\ FdsOK' /\ GotOK' BY HungUpType DEF CloseFacts, TheConn
<1>2. LoopOK' BY DEF CloseFacts, TypeInv, LoopOK
<1>3. DiskOK' /\ HistoryOK' BY DEF CloseFacts, TypeInv, DiskOK, HistoryOK
<1> QED BY <1>1, <1>2, <1>3 DEF TypeInv

\* The thread that F starts.
UpThread(a) == [kind |-> "up", fd |-> cur, path |-> <<slot[cur].path, a.name>>, next |-> 0,
    size |-> a.size]
\* The loop carries out F: it reads the arguments a.
UploadFacts(c, a) ==
    /\ cur \in Fds /\ Acting("F") /\ c \in Clients /\ net[c].fd = cur /\ net[c].conn = "open"
    /\ net[c].up # << >> /\ Head(net[c].up).kind = "args" /\ a = Head(net[c].up).val
    /\ a \in [name : FileNames, size : {UpSize}]
    /\ Told(c, Tail(net[c].up), << >>) /\ net'[c].down = net[c].down /\ state' = state
    /\ threads' = threads \cup {UpThread(a)}
    /\ watched' = watched \ {clnt_sock}
    /\ misdel' = IF clnt_sock = cur THEN misdel ELSE misdel \cup {c}
    /\ cur' = None /\ step' = "poll"
    /\ UNCHANGED <<clnt_sock, batch, slot, disk, cl, found, misled, cut, rewritten, stored, astray>>
\* What follows F is no arguments.
AstrayArgs(c) ==
    /\ cur \in Fds /\ Acting("F") /\ TheConn(c) /\ Astray(c)
    /\ c # None => Available(c) /\ (net[c].up = << >> \/ Head(net[c].up).kind # "args")

LEMMA UploadArgsIs ==
    ASSUME TypeInv, StartUpload
    PROVE  \E c : AstrayArgs(c) \/ \E a : UploadFacts(c, a)
<1> DEFINE c == Conn(cur)
<1> DEFINE u == IF c = None THEN << >> ELSE net[c].up
<1>1. cur \in Fds /\ Acting("F") BY DEF StartUpload, Acting, TypeInv, LoopOK
<1>2. TheConn(c) BY <1>1, ConnIs DEF TypeInv, TheConn
<1>3. None \notin Clients OBVIOUS
<1>4. /\ c # None => Available(c)
      /\ IF u = << >> \/ Head(u).kind # "args" THEN Astray(c)
           ELSE /\ net' = [net EXCEPT ![c].up = Tail(@)]
                /\ threads' = threads \cup {UpThread(Head(u).val)}
                /\ watched' = watched \ {clnt_sock}
                /\ misdel' = IF clnt_sock = cur THEN misdel ELSE misdel \cup {c}
                /\ cur' = None /\ step' = "poll"
                /\ UNCHANGED <<state, clnt_sock, batch, slot, disk, cl,
                               found, misled, cut, rewritten, stored, astray>>
    BY DEF StartUpload, UpThread, Unwatched, EventDone
<1> HIDE DEF Clients, Fds, None, c
<1>5. CASE u = << >> \/ Head(u).kind # "args"
    <2>1. AstrayArgs(c) BY <1>1, <1>2, <1>3, <1>4, <1>5 DEF AstrayArgs
    <2> QED BY <2>1
<1>6. CASE ~ (u = << >> \/ Head(u).kind # "args")
    <2>1. c \in Clients /\ u = net[c].up /\ net[c].fd = cur BY <1>2, <1>6 DEF TheConn
    <2>2. net[c].conn = "open" BY <1>1, <2>1 DEF TypeInv, FdsOK, Fds, None
    <2>3. PICK a \in [name : FileNames, size : {UpSize}] : a = Head(net[c].up).val
        BY <1>6, <2>1, HeadUp DEF TypeInv
    <2>4. Told(c, Tail(net[c].up), << >>) /\ net'[c].down = net[c].down
        <3>1. PICK v \in Seq(UpUnits) : v = Tail(net[c].up) BY <1>6, <2>1, HeadUp DEF TypeInv
        <3>2. net' = [net EXCEPT ![c].up = v] BY <1>4, <1>6, <2>1, <3>1 DEF TypeInv, PeersOK
        <3> QED BY <1>4, <1>6, <2>1, <3>1, <3>2, TailTold
    <2>5. UploadFacts(c, a) BY <1>1, <1>4, <1>6, <2>1, <2>2, <2>3, <2>4 DEF UploadFacts
    <2> QED BY <2>5
<1> QED BY <1>5, <1>6

LEMMA TypeUpload ==
    ASSUME TypeInv, NEW c, NEW a, UploadFacts(c, a)
    PROVE  TypeInv'
<1>1. PeersOK' /\ FdsOK' /\ GotOK' /\ state' \in {"run", "gone", "astray"}
    BY ToldType DEF UploadFacts
<1>2. LoopOK'
    <2>1. slot[cur].path \in DOMAIN SubDirs BY DEF UploadFacts, TypeInv, LoopOK, Slots
    <2>2. ThreadOK(UpThread(a)) BY <2>1 DEF UpThread, ThreadOK, UploadFacts, Paths
    <2> QED BY <1>1, <2>2 DEF UploadFacts, TypeInv, LoopOK
<1>3. DiskOK' /\ HistoryOK' BY DEF UploadFacts, TypeInv, DiskOK, HistoryOK
<1> QED BY <1>1, <1>2, <1>3 DEF TypeInv

------------------------------------------------------------------------------
(* The threads.                                                            *)

HIDE DEF Clients, Fds, None, Server

\* No client and no descriptor is 0.
LEMMA Zero == None \notin Clients /\ None \notin Fds /\ Server \notin Fds /\ Server = None
BY DEF None, Clients, Fds, Server

\* Client c is the one whose connection the thread has, if it is open.
ConnOf(t, c) == c = Conn(t.fd) /\ c \in Clients \cup {None} /\ \A d \in Clients : d = c <=>
    net[d].fd = t.fd

LEMMA ConnOfIs ==
    ASSUME TypeInv, NEW t \in threads
    PROVE  t.fd \in Fds /\ ConnOf(t, Conn(t.fd))
<1>1. t.fd \in Fds BY DEF TypeInv, LoopOK, ThreadOK
<1> QED BY <1>1, ConnIs DEF TypeInv, ConnOf

\* The chunk that a download sends next.
ChunkOf(t) == [path |-> t.path, n |-> t.next, by |-> disk[t.path][t.next]]
\* A download sends a chunk to c.
SendFacts(t, c) ==
    /\ t \in threads /\ t.kind = "down" /\ t.fd \in Fds /\ ConnOf(t, c)
    /\ t.path \in DOMAIN disk /\ t.next \in 1 .. Len(disk[t.path])
    /\ Told(c, IF c = None THEN << >> ELSE net[c].up, <<Unit("chunk", ChunkOf(t))>>)
    /\ threads' = Advanced(t)
    /\ UNCHANGED <<clnt_sock, watched, batch, cur, step, slot, disk, cl, found, misdel, misled, cut,
        rewritten, stored, astray>>
\* The file of a download is not there, and the server ends.
SendGone(t) ==
    /\ t \in threads /\ t.kind = "down" /\ t.path \notin DOMAIN disk /\ ~ IsDirectory(t.path)
    /\ state' = "gone"
    /\ UNCHANGED <<threads, net, clnt_sock, watched, batch, cur, step, slot, disk, cl, found,
        misdel, misled, cut, rewritten, stored, astray>>
\* A download has sent the whole file, or it was a directory.
SendEnd(t) ==
    /\ t \in threads /\ t.kind = "down"
    /\ t.path \in DOMAIN disk => t.next > Len(disk[t.path])
    /\ t.path \in DOMAIN disk \/ IsDirectory(t.path)
    /\ threads' = threads \ {t}
    /\ UNCHANGED <<state, net, clnt_sock, watched, batch, cur, step, slot, disk, cl, found, misdel,
        misled, cut, rewritten, stored, astray>>

LEMMA SendIs ==
    ASSUME TypeInv, NEW t \in threads, SendChunk(t)
    PROVE  SendGone(t) \/ SendEnd(t) \/ \E c : SendFacts(t, c)
<1>1. t.fd \in Fds /\ ConnOf(t, Conn(t.fd)) BY ConnOfIs
<1>2. PICK c : c = Conn(t.fd) OBVIOUS
<1>3. UNCHANGED <<clnt_sock, watched, batch, cur, step, slot, disk, cl, found, misdel, misled, cut,
          rewritten, stored, astray>>
      /\ t.kind = "down"
    BY DEF SendChunk, loopVars, history
<1>4. CASE /\ t.path \notin DOMAIN disk /\ ~ IsDirectory(t.path)
           /\ state' = "gone" /\ UNCHANGED <<threads, net>>
    BY <1>3, <1>4 DEF SendGone
<1>5. CASE /\ t.path \in DOMAIN disk => t.next > Len(disk[t.path])
           /\ t.path \in DOMAIN disk \/ IsDirectory(t.path)
           /\ threads' = threads \ {t} /\ UNCHANGED <<state, net>>
    BY <1>3, <1>5 DEF SendEnd
<1>6. CASE /\ t.path \in DOMAIN disk /\ t.next <= Len(disk[t.path]) /\ threads' = Advanced(t)
           /\ Tell(c, net, <<Unit("chunk", ChunkOf(t))>>)
    <2>1. t.next \in Nat \ {0} BY <1>3 DEF TypeInv, LoopOK, ThreadOK
    <2>2. t.path \in Paths /\ disk[t.path] \in Seq(Authors) BY <1>6 DEF TypeInv, DiskOK
    <2>3. t.next \in 1 .. Len(disk[t.path]) BY <1>6, <2>1, <2>2
    <2>4. disk[t.path][t.next] \in Authors BY <2>2, <2>3, ElementOfSeq
    <2>5. ChunkOf(t) \in Chunks BY <2>1, <2>2, <2>4 DEF ChunkOf, Chunks
    <2>6. <<Unit("chunk", ChunkOf(t))>> \in Seq(DownUnits) BY <2>5 DEF Unit, DownUnits
    <2>7. Told(c, IF c = None THEN << >> ELSE net[c].up, <<Unit("chunk", ChunkOf(t))>>)
        BY <1>1, <1>2, <1>6, <2>6, ConnTold DEF ConnOf
    <2>8. SendFacts(t, c) BY <1>1, <1>2, <1>3, <1>6, <2>3, <2>7 DEF SendFacts
    <2> QED BY <2>8
<1> QED BY <1>2, <1>4, <1>5, <1>6 DEF SendChunk, ChunkOf

\* A thread that has gone on is a thread.
LEMMA AdvancedType ==
    ASSUME TypeInv, NEW t \in threads
    PROVE  \A u \in Advanced(t) : ThreadOK(u)
<1>1. ThreadOK(t) BY DEF TypeInv, LoopOK
<1>2. ThreadOK([t EXCEPT !.next = @ + 1]) BY <1>1 DEF ThreadOK
<1> QED BY <1>2 DEF Advanced, TypeInv, LoopOK

LEMMA TypeSend ==
    ASSUME TypeInv, NEW t, NEW c, SendFacts(t, c)
    PROVE  TypeInv'
<1>1. PeersOK' /\ FdsOK' /\ GotOK' /\ state' \in {"run", "gone", "astray"}
    BY ToldType DEF SendFacts, ConnOf
<1>2. LoopOK' BY <1>1, AdvancedType DEF SendFacts, TypeInv, LoopOK
<1>3. DiskOK' /\ HistoryOK' BY DEF SendFacts, TypeInv, DiskOK, HistoryOK
<1> QED BY <1>1, <1>2, <1>3 DEF TypeInv

LEMMA TypeSendGone ==
    ASSUME TypeInv, NEW t, SendGone(t)
    PROVE  TypeInv'
BY DEF SendGone, TypeInv, LoopOK, DiskOK, PeersOK, HistoryOK, FdsOK, GotOK

LEMMA TypeSendEnd ==
    ASSUME TypeInv, NEW t, SendEnd(t)
    PROVE  TypeInv'
BY DEF SendEnd, TypeInv, LoopOK, DiskOK, PeersOK, HistoryOK, FdsOK, GotOK

\* An upload opens its file.
OpenFacts(t, c) ==
    /\ t \in threads /\ t.kind = "up" /\ t.next = 0 /\ t.fd \in Fds /\ ConnOf(t, c) /\
        t.path \in Paths
    /\ DOMAIN disk' = DOMAIN disk \cup {t.path} /\ disk' \in [DOMAIN disk' -> Seq(Authors)]
    /\ disk'[t.path] = << >> /\ \A p \in DOMAIN disk : p # t.path => disk'[p] = disk[p]
    /\ rewritten' = rewritten \cup {<<t.path, c>>}
    /\ threads' = Advanced(t)
    /\ UNCHANGED <<state, net, clnt_sock, watched, batch, cur, step, slot, cl, found, misdel,
        misled, cut, stored, astray>>

LEMMA OpenIs ==
    ASSUME TypeInv, NEW t \in threads, OpenUpload(t)
    PROVE  OpenFacts(t, Conn(t.fd))
<1>1. t.fd \in Fds /\ ConnOf(t, Conn(t.fd)) BY ConnOfIs
<1>2. t.path \in Paths BY DEF OpenUpload, TypeInv, LoopOK, ThreadOK
<1>3. disk' = [p \in DOMAIN disk \cup {t.path} |-> IF p = t.path THEN << >> ELSE disk[p]]
    BY DEF OpenUpload
<1>4. << >> \in Seq(Authors) OBVIOUS
<1>5. DOMAIN disk' = DOMAIN disk \cup {t.path} /\ disk' \in [DOMAIN disk' -> Seq(Authors)]
    /\ disk'[t.path] = << >> /\ \A p \in DOMAIN disk : p # t.path => disk'[p] = disk[p]
    BY <1>3, <1>4 DEF TypeInv, DiskOK
<1> QED BY <1>1, <1>2, <1>5 DEF OpenUpload, OpenFacts, loopVars

LEMMA TypeOpen ==
    ASSUME TypeInv, NEW t, NEW c, OpenFacts(t, c)
    PROVE  TypeInv'
<1>1. DiskOK' BY DEF OpenFacts, TypeInv, DiskOK
<1>2. HistoryOK' BY DEF OpenFacts, ConnOf, TypeInv, HistoryOK
<1>3. LoopOK' BY AdvancedType DEF OpenFacts, TypeInv, LoopOK
<1>4. PeersOK' /\ FdsOK' /\ GotOK' BY DEF TypeInv, OpenFacts, TypeInv, PeersOK, FdsOK, GotOK
<1> QED BY <1>1, <1>2, <1>3, <1>4 DEF TypeInv

\* A file with a chunk written, and what followed it in a read, is a file.
LEMMA WrittenIs ==
    ASSUME NEW s \in Seq(Authors), NEW n \in Nat \ {0}, NEW b \in Authors, NEW k \in Nat
    PROVE  Written(s, n, b, k) \in Seq(Authors)
<1> DEFINE m == IF n + k > Len(s) THEN n + k ELSE Len(s)
<1> DEFINE e(j) == IF j = n THEN b ELSE IF j \in n + 1 .. n + k THEN Extra
                   ELSE IF j <= Len(s) THEN s[j] ELSE Hole
<1>1. m \in Nat OBVIOUS
<1>2. Hole \in Authors /\ Extra \in Authors BY DEF Authors
<1>3. \A j \in 1 .. m : e(j) \in Authors BY <1>2, ElementOfSeq
<1>4. [j \in 1 .. m |-> e(j)] \in [1 .. m -> Authors] BY <1>3
<1>5. PICK w : w = [j \in 1 .. m |-> e(j)] OBVIOUS
<1>6. Written(s, n, b, k) = w BY <1>5 DEF Written
<1>7. PICK p \in Nat : p = m BY <1>1
<1>8. w \in [1 .. p -> Authors] BY <1>4, <1>5, <1>7
<1> QED BY <1>6, <1>8

\* Dropping the first units of a stream leaves those after them.
LEMMA DropIs ==
    ASSUME NEW A, NEW s \in Seq(A), NEW k \in 0 .. Len(s)
    PROVE  /\ SubSeq(s, k + 1, Len(s)) \in Seq(A)
           /\ Len(SubSeq(s, k + 1, Len(s))) = Len(s) - k
           /\ \A j \in 1 .. Len(s) - k : SubSeq(s, k + 1, Len(s))[j] = s[k + j]
<1> DEFINE d == SubSeq(s, k + 1, Len(s))
<1>1. Len(s) \in Nat /\ k + 1 \in Int OBVIOUS
<1>2. \A i \in k + 1 .. Len(s) : s[i] \in A BY ElementOfSeq
<1>3. /\ d \in Seq(A)
      /\ Len(d) = IF k + 1 <= Len(s) THEN Len(s) - (k + 1) + 1 ELSE 0
      /\ \A i \in 1 .. Len(s) - (k + 1) + 1 : d[i] = s[(k + 1) + i - 1]
    BY <1>1, <1>2, SubSeqProperties
<1> HIDE DEF d
<1>4. PICK n \in Nat : n = Len(s) BY <1>1
<1>5. Len(d) = Len(s) - k
    <2>1. k \in 0 .. n /\ Len(d) = IF k + 1 <= n THEN n - (k + 1) + 1 ELSE 0 BY <1>3, <1>4
    <2>2. Len(d) = n - k BY <2>1
    <2> QED BY <1>4, <2>2
<1>6. \A j \in 1 .. Len(s) - k : d[j] = s[k + j]
    <2> SUFFICES ASSUME NEW j \in 1 .. n - k PROVE d[j] = s[k + j] BY <1>4
    <2>1. k \in 0 .. n /\ \A i \in 1 .. n - (k + 1) + 1 : d[i] = s[(k + 1) + i - 1]
        BY <1>3, <1>4
    <2>2. j \in 1 .. n - (k + 1) + 1 /\ (k + 1) + j - 1 = k + j BY <2>1
    <2> QED BY <2>1, <2>2
<1> QED BY <1>3, <1>5, <1>6 DEF d

\* An upload t takes a chunk by b and k units after it from c.
Piece(t, c, b, k) ==
    /\ t \in threads /\ t.kind = "up" /\ t.next \in 1 .. t.size /\ t.fd \in Fds
    /\ c \in Clients /\ net[c].fd = t.fd /\ net[c].conn = "open" /\ net[c].up # << >> /\
        Head(net[c].up).kind = "chunk"
    /\ b = Head(net[c].up).val.by /\ b \in Clients
    /\ DOMAIN disk' = DOMAIN disk /\ disk' \in [DOMAIN disk' -> Seq(Authors)]
    /\ t.path \in DOMAIN disk => disk'[t.path] = Written(disk[t.path], t.next, b, k)
    /\ \A p \in DOMAIN disk : p # t.path => disk'[p] = disk[p]
    /\ net'[c].down = net[c].down
    /\ threads' = Advanced(t)
    /\ UNCHANGED <<state, clnt_sock, watched, batch, cur, step, slot, cl, found, misdel, misled,
        rewritten, stored>>
\* An upload stores a chunk by b that it read from c.
StoreFacts(t, c, b) ==
    /\ Piece(t, c, b, 0)
    /\ Told(c, Tail(net[c].up), << >>)
    /\ UNCHANGED <<cut, astray>>
\* The last read of an upload takes k units more, which are stored as well.
OverFacts(t, c, b, k) ==
    /\ Piece(t, c, b, k)
    /\ t.next = t.size /\ k \in 1 .. Len(net[c].up) - 1
    /\ Told(c, SubSeq(net[c].up, k + 2, Len(net[c].up)), << >>)
    /\ cut' = cut \cup {c} /\ astray' = astray \cup {c}
\* An upload reads what is no chunk.
AstrayChunk(t, c) ==
    /\ t \in threads /\ t.kind = "up" /\ t.next \in 1 .. t.size /\ t.fd \in Fds
    /\ c \in Clients /\ net[c].fd = t.fd /\ net[c].conn = "open" /\ net[c].up # << >>
    /\ Head(net[c].up).kind # "chunk" /\ Astray(c)

LEMMA StoreIs ==
    ASSUME TypeInv, NEW t \in threads, StoreChunk(t)
    PROVE  \E c : AstrayChunk(t, c) \/ \E b : StoreFacts(t, c, b) \/ \E k : OverFacts(t, c, b, k)
<1>0. PICK c : c = Conn(t.fd) OBVIOUS
<1>1. t.fd \in Fds /\ ConnOf(t, c) BY <1>0, ConnOfIs
<1>2. /\ t.kind = "up" /\ t.next \in 1 .. t.size
      /\ c # None /\ net[c].up # << >>
      /\ IF Head(net[c].up).kind # "chunk" THEN Astray(c)
           ELSE \E k \in TakenToo(t, c) :
                /\ disk' = [disk EXCEPT ![t.path] = Written(@, t.next, Head(net[c].up).val.by, k)]
                /\ net' = [net EXCEPT ![c].up = SubSeq(@, k + 2, Len(@))]
                /\ cut' = (IF k = 0 THEN cut ELSE cut \cup {c})
                /\ astray' = (IF k = 0 THEN astray ELSE astray \cup {c})
                /\ threads' = Advanced(t)
                /\ UNCHANGED <<state, loopVars, cl, found, misdel, misled, rewritten, stored>>
    BY <1>0 DEF StoreChunk
<1>3. c \in Clients /\ net[c].fd = t.fd BY <1>1, <1>2 DEF ConnOf
<1>4. net[c].conn = "open" BY <1>1, <1>3, Zero DEF TypeInv, FdsOK
<1>5. CASE Head(net[c].up).kind # "chunk"
    <2>1. AstrayChunk(t, c) BY <1>1, <1>2, <1>3, <1>4, <1>5 DEF AstrayChunk
    <2> QED BY <2>1
<1>6. CASE Head(net[c].up).kind = "chunk"
    <2>1. PICK k \in TakenToo(t, c) :
            /\ disk' = [disk EXCEPT ![t.path] = Written(@, t.next, Head(net[c].up).val.by, k)]
            /\ net' = [net EXCEPT ![c].up = SubSeq(@, k + 2, Len(@))]
            /\ cut' = (IF k = 0 THEN cut ELSE cut \cup {c})
            /\ astray' = (IF k = 0 THEN astray ELSE astray \cup {c})
            /\ threads' = Advanced(t)
            /\ UNCHANGED <<state, loopVars, cl, found, misdel, misled, rewritten, stored>>
        BY <1>2, <1>6
    <2>2. net[c].up \in Seq(UpUnits) BY <1>3 DEF TypeInv, PeersOK, Connections
    <2>3. t.next \in Nat \ {0} /\ t.size \in Nat
        <3>1. ThreadOK(t) /\ UpSize \in Nat BY FileAssumption DEF TypeInv, LoopOK
        <3>2. t.size \in Nat BY <1>2, <3>1 DEF ThreadOK
        <3> QED BY <1>2, <3>2
    <2>4. k \in 0 .. Len(net[c].up) - 1 /\ (k # 0 => t.next = t.size)
        BY <1>2, <2>1, <2>2, <2>3 DEF TakenToo
    <2>5. PICK b \in Clients : b = Head(net[c].up).val.by BY <1>2, <1>3, <1>6, HeadUp DEF TypeInv
    <2>6. PICK w : w = Written(disk[t.path], t.next, b, k) OBVIOUS
    <2>7. disk' = [disk EXCEPT ![t.path] = w] BY <2>1, <2>5, <2>6 DEF TypeInv, DiskOK
    <2>8. t.path \in DOMAIN disk => w \in Seq(Authors)
        <3>1. b \in Authors /\ k \in Nat BY <2>4, <2>5 DEF Authors
        <3> QED BY <2>3, <2>6, <3>1, WrittenIs DEF TypeInv, DiskOK
    <2>9. DOMAIN disk' = DOMAIN disk /\ disk' \in [DOMAIN disk' -> Seq(Authors)]
        /\ (t.path \in DOMAIN disk => disk'[t.path] = Written(disk[t.path], t.next, b, k))
        /\ \A p \in DOMAIN disk : p # t.path => disk'[p] = disk[p]
        BY <2>6, <2>7, <2>8 DEF TypeInv, DiskOK
    <2>10. k + 2 = (k + 1) + 1 /\ k + 1 \in 0 .. Len(net[c].up) BY <2>2, <2>4
    <2>11. PICK v \in Seq(UpUnits) : v = SubSeq(net[c].up, k + 2, Len(net[c].up))
        <3>1. SubSeq(net[c].up, (k + 1) + 1, Len(net[c].up)) \in Seq(UpUnits)
            BY <2>2, <2>10, DropIs
        <3> QED BY <2>10, <3>1
    <2>12. net' = [net EXCEPT ![c].up = v] BY <1>3, <2>1, <2>11 DEF TypeInv, PeersOK
    <2>13. state' = state BY <2>1
    <2>14. Told(c, v, << >>) /\ net'[c].down = net[c].down BY <1>3, <2>11, <2>12, <2>13, TailTold
    <2>15. Piece(t, c, b, k)
        BY <1>1, <1>2, <1>3, <1>4, <1>6, <2>1, <2>5, <2>9, <2>14 DEF Piece, loopVars
    <2>16. CASE k = 0
        <3>1. v = Tail(net[c].up) BY <2>2, <2>11, <2>16, <1>2, TailIsSubSeq
        <3>2. StoreFacts(t, c, b) BY <2>1, <2>14, <2>15, <2>16, <3>1 DEF StoreFacts
        <3> QED BY <3>2
    <2>17. CASE k # 0
        <3>1. k \in 1 .. Len(net[c].up) - 1 BY <2>2, <2>4, <2>17
        <3>2. OverFacts(t, c, b, k)
            BY <2>1, <2>4, <2>11, <2>14, <2>15, <2>17, <3>1 DEF OverFacts
        <3> QED BY <3>2
    <2> QED BY <2>16, <2>17
<1> QED BY <1>5, <1>6

LEMMA TypePiece ==
    ASSUME TypeInv, NEW t, NEW c, NEW b, NEW k, Piece(t, c, b, k), NEW u, Told(c, u, << >>)
    PROVE  TypeInv'
<1>1. PeersOK' /\ FdsOK' /\ GotOK' /\ state' \in {"run", "gone", "astray"}
    BY ToldType DEF Piece
<1>2. LoopOK' BY <1>1, AdvancedType DEF Piece, TypeInv, LoopOK
<1>3. HistoryOK' BY DEF Piece, TypeInv, HistoryOK
<1>4. DiskOK' BY DEF Piece, TypeInv, DiskOK
<1> QED BY <1>1, <1>2, <1>3, <1>4 DEF TypeInv

LEMMA TypeStore ==
    ASSUME TypeInv, NEW t, NEW c, NEW b, StoreFacts(t, c, b)
    PROVE  TypeInv'
BY TypePiece DEF StoreFacts

LEMMA TypeOver ==
    ASSUME TypeInv, NEW t, NEW c, NEW b, NEW k, OverFacts(t, c, b, k)
    PROVE  TypeInv'
BY TypePiece DEF OverFacts

\* An upload ends and closes the connection of c.
EndFacts(t, c) ==
    /\ t \in threads /\ t.kind = "up" /\ t.next > t.size /\ t.fd \in Fds /\ t.path \in Paths /\
        ConnOf(t, c)
    /\ HungUp(c) /\ (c = None => net' = net)
    /\ threads' = threads \ {t}
    /\ stored' \in [Clients -> Paths \cup {NoPath}] /\ (c \in Clients => stored'[c] = t.path)
    /\ \A d \in Clients : d # c => stored'[d] = stored[d]
    /\ watched' = watched \ {t.fd}
    /\ UNCHANGED <<state, clnt_sock, batch, cur, step, slot, disk, cl, found, misdel, misled, cut,
        rewritten, astray>>

LEMMA EndIs ==
    ASSUME TypeInv, NEW t \in threads, EndUpload(t)
    PROVE  EndFacts(t, Conn(t.fd))
<1>0. PICK c : c = Conn(t.fd) OBVIOUS
<1>1. t.fd \in Fds /\ ConnOf(t, c) BY <1>0, ConnOfIs
<1>2. /\ t.kind = "up" /\ t.next > t.size /\ threads' = threads \ {t} /\ watched' = watched \ {t.fd}
      /\ IF c = None THEN UNCHANGED <<net, stored>>
           ELSE net' = Closed(c) /\ stored' = [stored EXCEPT ![c] = t.path]
      /\ UNCHANGED <<state, clnt_sock, batch, cur, step, slot, disk, cl, found, misdel, misled, cut,
          rewritten, astray>>
    BY <1>0 DEF EndUpload, StoredAll
<1>3. c # None => net[c].fd # None BY <1>1, Zero DEF ConnOf
<1>4. HungUp(c) BY <1>1, <1>2, <1>3, HungUpIs DEF ConnOf
<1>5. t.path \in Paths BY <1>2 DEF TypeInv, LoopOK, ThreadOK
<1>6. stored' \in [Clients -> Paths \cup {NoPath}] /\ (c \in Clients => stored'[c] = t.path)
      /\ \A d \in Clients : d # c => stored'[d] = stored[d]
    BY <1>1, <1>2, <1>5, Zero DEF TypeInv, HistoryOK, ConnOf
<1>7. EndFacts(t, c) BY <1>1, <1>2, <1>4, <1>5, <1>6 DEF EndFacts
<1> QED BY <1>0, <1>7

LEMMA TypeEnd ==
    ASSUME TypeInv, NEW t, NEW c, EndFacts(t, c)
    PROVE  TypeInv'
<1>1. PeersOK' /\ FdsOK' /\ GotOK' BY HungUpType DEF EndFacts, ConnOf
<1>2. LoopOK' BY DEF EndFacts, TypeInv, LoopOK
<1>3. DiskOK' /\ HistoryOK' BY DEF EndFacts, TypeInv, DiskOK, HistoryOK
<1> QED BY <1>1, <1>2, <1>3 DEF TypeInv

------------------------------------------------------------------------------
(* Client steps.                                                            *)
\* A step changes client c only.
OnlyCl(c) == cl' \in [Clients -> ClientStates] /\ \A d \in Clients : d # c => cl'[d] = cl[d]
\* What no client's step changes.
Unserved == UNCHANGED <<state, clnt_sock, watched, batch, cur, step, slot, threads, disk, found,
    misdel, rewritten, stored>>
\* Client c wrote u, which is lost when the connection is closed.
UpSent(c, u) ==
    /\ OnlyNet(c) /\ net'[c].fd = net[c].fd /\ net'[c].conn = net[c].conn /\
        net'[c].down = net[c].down
    /\ net'[c].up = IF net[c].conn = "closed" THEN net[c].up ELSE net[c].up \o u
\* Client c read k units.
DownTaken(c, k) ==
    /\ OnlyNet(c) /\ net'[c].fd = net[c].fd /\ net'[c].conn = net[c].conn /\ net'[c].up = net[c].up
    /\ k \in 0 .. Len(net[c].down)
    /\ net'[c].down = SubSeq(net[c].down, k + 1, Len(net[c].down))
\* Client c read a unit.
DownRead(c) ==
    /\ OnlyNet(c) /\ net'[c].fd = net[c].fd /\ net'[c].conn = net[c].conn /\ net'[c].up = net[c].up
    /\ net[c].down # << >> /\ net'[c].down = Tail(net[c].down)

LEMMA SentIs ==
    ASSUME TypeInv, NEW c \in Clients, NEW u \in Seq(UpUnits), net' = Sent(c, u)
    PROVE  UpSent(c, u)
<1>1. net[c].up \o u \in Seq(UpUnits)
    <2>1. net[c].up \in Seq(UpUnits) BY DEF TypeInv, PeersOK, Connections
    <2> QED BY <2>1, ConcatProperties
<1>2. PICK v \in Seq(UpUnits) : v = IF net[c].conn = "closed" THEN net[c].up ELSE net[c].up \o u
    BY <1>1 DEF TypeInv, PeersOK, Connections
<1>3. net' = [net EXCEPT ![c].up = v] BY <1>2 DEF Sent, TypeInv, PeersOK
<1>4. PICK n : n = [net EXCEPT ![c].up = v] OBVIOUS
<1>5. net \in [Clients -> Connections] BY DEF TypeInv, PeersOK
<1>6. /\ n \in [Clients -> Connections] /\ n[c].up = v /\ n[c].down = net[c].down
      /\ n[c].fd = net[c].fd /\ n[c].conn = net[c].conn
      /\ \A d \in Clients : d # c => n[d] = net[d]
    BY <1>4, <1>5 DEF Connections
<1> QED BY <1>2, <1>3, <1>4, <1>6 DEF UpSent, OnlyNet

LEMMA DownTakenIs ==
    ASSUME TypeInv, NEW c \in Clients, NEW k \in 0 .. Len(net[c].down),
           net' = [net EXCEPT ![c].down = SubSeq(@, k + 1, Len(@))]
    PROVE  DownTaken(c, k) /\ (k = 1 => DownRead(c))
<1>0. net[c].down \in Seq(DownUnits) BY DEF TypeInv, PeersOK, Connections
<1>1. PICK v \in Seq(DownUnits) : v = SubSeq(net[c].down, k + 1, Len(net[c].down))
    BY <1>0, DropIs
<1>2. net' = [net EXCEPT ![c].down = v] BY <1>1 DEF TypeInv, PeersOK
<1>4. PICK n : n = [net EXCEPT ![c].down = v] OBVIOUS
<1>5. net \in [Clients -> Connections] BY DEF TypeInv, PeersOK
<1>6. /\ n \in [Clients -> Connections] /\ n[c].up = net[c].up /\ n[c].down = v
      /\ n[c].fd = net[c].fd /\ n[c].conn = net[c].conn
      /\ \A d \in Clients : d # c => n[d] = net[d]
    BY <1>4, <1>5 DEF Connections
<1>7. DownTaken(c, k) BY <1>1, <1>2, <1>4, <1>6 DEF DownTaken, OnlyNet
<1>8. k = 1 => v = Tail(net[c].down) /\ net[c].down # << >>
    <2>1. k = 1 => net[c].down # << >> OBVIOUS
    <2> QED BY <1>0, <1>1, <2>1, TailIsSubSeq
<1> QED BY <1>1, <1>7, <1>8 DEF DownTaken, DownRead

LEMMA DownReadIs ==
    ASSUME TypeInv, NEW c \in Clients, net[c].down # << >>,
           net' = [net EXCEPT ![c].down = Tail(@)]
    PROVE  DownRead(c) /\ DownTaken(c, 1)
<1>1. net[c].down \in Seq(DownUnits) BY DEF TypeInv, PeersOK, Connections
<1>2. 1 \in 0 .. Len(net[c].down) BY <1>1
<1>3. Tail(net[c].down) = SubSeq(net[c].down, 1 + 1, Len(net[c].down)) BY <1>1, TailIsSubSeq
<1>4. net' = [net EXCEPT ![c].down = SubSeq(@, 1 + 1, Len(@))] BY <1>3 DEF TypeInv, PeersOK
<1> QED BY <1>2, <1>4, DownTakenIs

\* What a client does keeps the types of everything else.
LEMMA PeersType ==
    ASSUME TypeInv, NEW c \in Clients, OnlyCl(c), Unserved, OnlyNet(c), net'[c].fd = net[c].fd,
           net'[c].conn = net[c].conn \/ (net[c].conn = "none" /\ net'[c].conn = "queued"),
           net[c].conn = "closed" => net'[c].up = net[c].up,
           cl'[c].phase = "down" => Len(cl'[c].got) < cl'[c].total,
           cl'[c].phase = "up" => cl'[c].out # << >>, cl'[c].phase # "off"
    PROVE  TypeInv'
<1>1. LoopOK' /\ DiskOK' /\ HistoryOK' BY DEF Unserved, TypeInv, LoopOK, DiskOK, HistoryOK
<1>2. PeersOK' BY DEF OnlyCl, OnlyNet, PeersOK
<1>3. GotOK' BY DEF OnlyCl, OnlyNet, TypeInv, GotOK
<1>4. FdsOK'
    <2>1. \A d \in Clients : net'[d].fd = net[d].fd BY DEF OnlyNet
    <2>2. \A d \in Clients : net'[d].conn = "open" <=> net[d].conn = "open" BY DEF OnlyNet
    <2>3. \A d \in Clients : net'[d].conn = "closed" => net[d].conn = "closed" /\
              net'[d].up = net[d].up
        BY DEF OnlyNet
    <2>4. watched' = watched BY DEF Unserved
    <2> QED BY <2>1, <2>2, <2>3, <2>4 DEF TypeInv, FdsOK
<1> QED BY <1>1, <1>2, <1>3, <1>4 DEF TypeInv

\* Client c is r now, and the others are as they were.
LEMMA ClIs ==
    ASSUME TypeInv, NEW c \in Clients, NEW r \in ClientStates, cl' = [cl EXCEPT ![c] = r]
    PROVE  OnlyCl(c) /\ cl'[c] = r
BY DEF OnlyCl, TypeInv, PeersOK

LEMMA PhaseIs ==
    ASSUME TypeInv, NEW c \in Clients, NEW p \in Phases, cl' = [cl EXCEPT ![c].phase = p]
    PROVE  OnlyCl(c) /\ cl'[c] = [cl[c] EXCEPT !.phase = p]
<1>1. PICK r : r = [cl[c] EXCEPT !.phase = p] OBVIOUS
<1>2. cl[c] \in ClientStates BY DEF TypeInv, PeersOK
<1>3. r \in ClientStates BY <1>1, <1>2 DEF ClientStates
<1>4. cl' = [cl EXCEPT ![c] = r] BY <1>1, <1>2
<1> QED BY <1>1, <1>3, <1>4, ClIs

\* A message is the one before with some fields changed.
LEMMA Fields ==
    ASSUME NEW x \in Messages \cup {NoMessage}
    PROVE  \E a, i, b, d : a \in {"none","B", "D", "E", "F"} /\ i \in Int /\ b \in BOOLEAN /\
               d \in Int /\ x = [msg |-> a, index |-> i, is_dir |-> b, dir_index |-> d]
<1>1. CASE x \in Messages BY <1>1 DEF Messages
<1>2. CASE x = NoMessage
   <2>1. x = [msg |-> "none", index |-> 0, is_dir |-> FALSE, dir_index |-> 0] BY <1>2 DEF NoMessage
   <2>2. "none" \in {"none", "B", "D", "E", "F"} /\ 0 \in Int /\ FALSE \in BOOLEAN OBVIOUS
   <2> QED BY <2>1, <2>2, Zenon
<1> QED BY <1>1, <1>2

LEMMA MsgE ==
    ASSUME NEW x \in Messages \cup {NoMessage}, NEW m, m = [x EXCEPT !.msg = "E"]
    PROVE  m \in Messages /\ m.msg = "E"
<1>1. PICK a, i, f, d : a \in {"none","B", "D", "E", "F"} /\ i \in Int /\ f \in BOOLEAN /\ d \in Int
                      /\ x = [msg |-> a, index |-> i, is_dir |-> f, dir_index |-> d]
   BY Fields
<1>2. m = [msg |-> "E", index |-> i, is_dir |-> f, dir_index |-> d] BY <1>1
<1> QED BY <1>1, <1>2 DEF Messages

LEMMA MsgB ==
    ASSUME NEW x \in Messages \cup {NoMessage}, NEW k \in Int, NEW m,
           m = [x EXCEPT !.msg = "B", !.index = k, !.dir_index = k]
    PROVE  m \in Messages /\ m.msg = "B" /\ m.index = k /\ m.dir_index = k
<1>1. PICK a, i, f, d : a \in {"none","B", "D", "E", "F"} /\ i \in Int /\ f \in BOOLEAN /\ d \in Int
                      /\ x = [msg |-> a, index |-> i, is_dir |-> f, dir_index |-> d]
   BY Fields
<1>2. m = [msg |-> "B", index |-> k, is_dir |-> f, dir_index |-> k] BY <1>1
<1> QED BY <1>1, <1>2 DEF Messages

LEMMA MsgD ==
    ASSUME NEW x \in Messages \cup {NoMessage}, NEW k \in Int, NEW b \in BOOLEAN, NEW m,
           m = [x EXCEPT !.msg = "D", !.index = k, !.is_dir = b]
    PROVE  m \in Messages /\ m.msg = "D" /\ m.index = k /\ m.is_dir = b /\ m.dir_index = x.dir_index
<1>1. PICK a, i, f, d : a \in {"none","B", "D", "E", "F"} /\ i \in Int /\ f \in BOOLEAN /\ d \in Int
                      /\ x = [msg |-> a, index |-> i, is_dir |-> f, dir_index |-> d]
   BY Fields
<1>2. m = [msg |-> "D", index |-> k, is_dir |-> b, dir_index |-> d] BY <1>1
<1>3. x.dir_index = d BY <1>1
<1> QED BY <1>1, <1>2, <1>3 DEF Messages

LEMMA MsgF ==
    ASSUME NEW x \in Messages \cup {NoMessage}, NEW k \in Int, NEW m,
           m = [x EXCEPT !.msg = "F", !.index = k]
    PROVE  m \in Messages /\ m.msg = "F"
<1>1. PICK a, i, f, d : a \in {"none","B", "D", "E", "F"} /\ i \in Int /\ f \in BOOLEAN /\ d \in Int
                      /\ x = [msg |-> a, index |-> i, is_dir |-> f, dir_index |-> d]
   BY Fields
<1>2. m = [msg |-> "F", index |-> k, is_dir |-> f, dir_index |-> d] BY <1>1
<1> QED BY <1>1, <1>2 DEF Messages

\* What the steps of client c do: it connects,
ConnectFacts(c) ==
    /\ c \in Clients /\ cl[c].phase = "off" /\ Unserved /\ UNCHANGED <<misled, cut, astray>>
    /\ OnlyCl(c) /\ cl'[c] = [cl[c] EXCEPT !.phase = "new"]
    /\ OnlyNet(c) /\ net[c].conn = "none" /\ net'[c] = [net[c] EXCEPT !.conn = "queued"]
\* it sends the start,
StartFacts(c) ==
    /\ c \in Clients /\ cl[c].phase = "new" /\ Unserved /\ UNCHANGED <<misled, cut, astray>>
    /\ OnlyCl(c) /\ cl'[c] = [cl[c] EXCEPT !.phase = "list"]
    /\ UpSent(c, <<Unit("start", 1)>>)
\* it reads listing L,
ListRead(c, L) ==
    /\ c \in Clients /\ cl[c].phase = "list" /\ Unserved /\ UNCHANGED <<misled, cut, astray>>
    /\ DownRead(c) /\ Head(net[c].down).kind = "list" /\ L = Head(net[c].down).val /\ L \in Listings
    /\ OnlyCl(c) /\ cl'[c] = [cl[c] EXCEPT !.listing = L, !.phase = "menu"]
\* it reads a chunk,
ChunkRead(c, u) ==
    /\ c \in Clients /\ cl[c].phase = "down" /\ Unserved /\ UNCHANGED <<misled, cut, astray>>
    /\ DownRead(c) /\ Head(net[c].down).kind = "chunk" /\ u = Head(net[c].down).val /\ u \in Chunks
    /\ OnlyCl(c) /\ cl'[c] = [cl[c] EXCEPT !.got = Append(cl[c].got, u),
                                           !.phase = IF GotAll(c, 1) THEN "menu" ELSE "down"]
\* it reads k chunks, the last of the file and more,
MoreGot(c, k) == [j \in 1 .. k |-> net[c].down[j].val]
MoreRead(c, k) ==
    /\ c \in Clients /\ cl[c].phase = "down" /\ Unserved /\ UNCHANGED <<misled, cut, astray>>
    /\ GotAll(c, 1) /\ k > 1 /\ DownTaken(c, k)
    /\ \A j \in 1 .. k : net[c].down[j].kind = "chunk"
    /\ OnlyCl(c) /\ cl'[c] = [cl[c] EXCEPT !.got = cl[c].got \o MoreGot(c, k), !.phase = "menu"]
\* it reads what it does not expect, or a part of a unit, or one and the next,
StrayRead(c) ==
    /\ c \in Clients /\ cl[c].phase \in {"list", "down"} /\ Unserved /\ misled' = misled
    /\ \E k : DownTaken(c, k)
    /\ \/ /\ DownRead(c)
          /\ Head(net[c].down).kind # (IF cl[c].phase = "list" THEN "list" ELSE "chunk")
       \/ /\ c \in cut' /\ net[c].down # << >>
          /\ cl[c].phase = "down" => GotAll(c, 1) /\ Len(net[c].down) > 1
    /\ OnlyCl(c) /\ cl'[c] = [cl[c] EXCEPT !.phase = "astray"] /\ astray' = astray \cup {c}
\* it finds the connection closed,
LoseFacts(c) ==
    /\ c \in Clients /\ Unserved /\ UNCHANGED <<net, misled, cut, astray>>
    /\ net[c].conn = "closed"
    /\ \E p \in {"menu", "broken"} :
        /\ OnlyCl(c) /\ cl'[c] = [cl[c] EXCEPT !.phase = p]
        /\ IF p = "menu" THEN cl[c].phase = "list" /\ net[c].down = << >>
           ELSE cl[c].phase \in {"menu", "up", "down"}
DirMsg(c, k) == [cl[c].check_msg EXCEPT !.msg = "B", !.index = k, !.dir_index = k]
\* it chooses directory d, if there is one, by its number,
DirFacts(c, k, d) ==
    /\ c \in Clients /\ AtMenu(c) /\ Unserved /\ astray' = astray
    /\ k \in Int /\ d = IF k = -1 THEN Root ELSE NameAt(cl[c].listing.dirs, k)
    /\ DirMsg(c, k) \in Messages
    /\ OnlyCl(c) /\ cl'[c] = [cl[c] EXCEPT !.phase = "list", !.is_dir = TRUE,
        !.check_msg = DirMsg(c, k), !.left = cl[c].left - 1,
        !.where = IF d = "" THEN cl[c].where ELSE d]
    /\ UpSent(c, <<Unit("cmd", DirMsg(c, k))>>)
    /\ misled' = IF d # Root /\ (d \in DOMAIN SubDirs => SubDirs[d] # << >>)
                     THEN misled \cup {c} ELSE misled
FileMsg(c, i) == [cl[c].check_msg EXCEPT !.msg = "D", !.index = i, !.is_dir = cl[c].is_dir]
\* it chooses a file that was not listed,
NoFileFacts(c, i) ==
    /\ c \in Clients /\ AtMenu(c) /\ Unserved /\ UNCHANGED <<cut, astray>>
    /\ misled' = misled \cup {c}
    /\ FileMsg(c, i) \in Messages
    /\ \E p \in {"menu", "down", "dead"}, size \in Nat :
        /\ p = "down" => size # 0
        /\ OnlyCl(c)
        /\ cl'[c] = [cl[c] EXCEPT !.phase = p, !.check_msg = FileMsg(c, i), !.left = cl[c].left - 1,
                                  !.got = << >>, !.total = size]
    /\ UpSent(c, <<Unit("cmd", FileMsg(c, i))>>)
\* it chooses file p to download,
FileFacts(c, i, p) ==
    /\ c \in Clients /\ AtMenu(c) /\ Unserved /\ UNCHANGED <<misled, cut, astray>>
    /\ i \in 1 .. Len(cl[c].listing.files) /\ p = <<cl[c].where, cl[c].listing.files[i].name>> /\
        p \in UserPaths
    /\ cl[c].listing.files[i].size \in Nat
    /\ FileMsg(c, i) \in Messages
    /\ OnlyCl(c)
    /\ cl'[c] = [cl[c] EXCEPT !.phase = IF cl[c].listing.files[i].size = 0 THEN "menu" ELSE "down",
                              !.check_msg = FileMsg(c, i), !.left = cl[c].left - 1,
                              !.want = p, !.wants = cl[c].wants \cup {p},
                              !.got = << >>, !.total = cl[c].listing.files[i].size]
    /\ UpSent(c, <<Unit("cmd", FileMsg(c, i))>>)
PutMsg(c) == [cl[c].check_msg EXCEPT !.msg = "F", !.index = 1]
PutOut(c, n) == <<Unit("args", [name |-> n,
    size |-> UpSize])>> \o [j \in 1 .. UpSize |-> Unit("chunk", [by |-> c, n |-> j])]
\* it chooses a file to upload,
PutFacts(c, n) ==
    /\ c \in Clients /\ AtMenu(c) /\ Unserved /\ UNCHANGED <<misled, cut, astray>>
    /\ n \in FileNames /\ PutMsg(c) \in Messages /\ PutOut(c, n) \in Seq(UpUnits)
    /\ OnlyCl(c)
    /\ cl'[c] = [cl[c] EXCEPT !.phase = "up", !.check_msg = PutMsg(c), !.left = cl[c].left - 1,
                            !.put = IF cl[c].put = NoPath THEN <<cl[c].where, n>> ELSE cl[c].put,
                            !.out = PutOut(c, n)]
    /\ UpSent(c, <<Unit("cmd", PutMsg(c))>>)
\* it writes the next unit of its upload,
WriteFacts(c) ==
    /\ c \in Clients /\ cl[c].phase = "up" /\ cl[c].out # << >> /\ Unserved /\
        UNCHANGED <<misled, cut, astray>>
    /\ OnlyCl(c) /\ cl'[c] = [cl[c] EXCEPT !.out = Tail(cl[c].out),
                        !.phase = IF Len(cl[c].out) = 1 THEN "menu" ELSE "up"]
    /\ UpSent(c, <<Head(cl[c].out)>>)
QuitMsg(c) == [cl[c].check_msg EXCEPT !.msg = "E"]
\* it quits,
QuitFacts(c) ==
    /\ c \in Clients /\ cl[c].phase = "menu" /\ Unserved /\ UNCHANGED <<misled, cut, astray>>
    /\ OnlyCl(c) /\ cl'[c] = [cl[c] EXCEPT !.phase = "quit"] /\ QuitMsg(c) \in Messages
    /\ UpSent(c, <<Unit("cmd", QuitMsg(c))>>)
\* it dies.
DieFacts(c) ==
    /\ c \in Clients /\ cl[c].phase \in {"new", "list", "menu", "down", "up"} /\ Unserved
    /\ UNCHANGED <<net, misled, cut, astray>>
    /\ OnlyCl(c) /\ cl'[c] = [cl[c] EXCEPT !.phase = "dead"]

\* A client's step changes nothing of the server's.
LEMMA UnservedIs ==
    UNCHANGED serverVars /\ UNCHANGED <<found, misdel, rewritten, stored>> => Unserved
BY DEF serverVars, loopVars, Unserved

LEMMA ConnectIs ==
    ASSUME TypeInv, NEW c \in Clients, Connect(c)
    PROVE  ConnectFacts(c)
<1>1. cl[c].phase = "off" /\ net[c].conn = "none" BY DEF Connect, TypeInv, GotOK
<1>2. Unserved /\ UNCHANGED <<misled, cut, astray>> BY UnservedIs DEF Connect, history
<1>3. OnlyCl(c) /\ cl'[c] = [cl[c] EXCEPT !.phase = "new"]
    BY PhaseIs DEF Connect, Phases
<1>4. OnlyNet(c) /\ net'[c] = [net[c] EXCEPT !.conn = "queued"]
    BY DEF Connect, TypeInv, PeersOK, OnlyNet, Connections
<1> QED BY <1>1, <1>2, <1>3, <1>4 DEF ConnectFacts

LEMMA StartIs ==
    ASSUME TypeInv, NEW c \in Clients, Start(c)
    PROVE  StartFacts(c)
<1>2. Unserved /\ UNCHANGED <<misled, cut, astray>> BY UnservedIs DEF Start, history
<1>3. OnlyCl(c) /\ cl'[c] = [cl[c] EXCEPT !.phase = "list"]
    BY PhaseIs DEF Start, Phases
<1>4. UpSent(c, <<Unit("start", 1)>>)
    <2>1. <<Unit("start", 1)>> \in Seq(UpUnits) BY DEF Unit, UpUnits
    <2> QED BY <2>1, SentIs DEF Start
<1> QED BY <1>2, <1>3, <1>4 DEF StartFacts, Start

LEMMA ListReadIs ==
    ASSUME TypeInv, NEW c \in Clients, ReadList(c)
    PROVE  StrayRead(c) \/ \E L : ListRead(c, L)
<1>1. PICK u : u = Head(net[c].down) OBVIOUS
<1>2. cl[c].phase = "list" /\ net[c].down # << >>
      /\ (IF u.kind = "list"
           THEN /\ cl' = [cl EXCEPT ![c].listing = u.val, ![c].phase = "menu"]
                /\ astray' = astray
           ELSE /\ cl' = [cl EXCEPT ![c].phase = "astray"]
                /\ astray' = astray \cup {c})
    BY <1>1 DEF ReadList
<1>3. Unserved /\ UNCHANGED <<misled, cut>> BY UnservedIs DEF ReadList
<1>4. DownRead(c) /\ DownTaken(c, 1) BY DownReadIs DEF ReadList
<1>5. CASE u.kind = "list"
    <2>1. u.val \in Listings BY <1>1, <1>2, <1>5, HeadDown DEF TypeInv
    <2>2. OnlyCl(c) /\ cl'[c] = [cl[c] EXCEPT !.listing = u.val, !.phase = "menu"]
        <3>1. PICK r : r = [cl[c] EXCEPT !.listing = u.val, !.phase = "menu"] OBVIOUS
        <3>2. cl[c] \in ClientStates BY DEF TypeInv, PeersOK
        <3>3. r \in ClientStates BY <2>1, <3>1, <3>2 DEF ClientStates, Phases
        <3>4. cl' = [cl EXCEPT ![c] = r] BY <1>2, <1>5, <3>1 DEF TypeInv, PeersOK
        <3> QED BY <3>1, <3>3, <3>4, ClIs
    <2>3. ListRead(c, u.val) BY <1>1, <1>2, <1>3, <1>4, <1>5, <2>1, <2>2 DEF ListRead
    <2> QED BY <2>3
<1>6. CASE u.kind # "list"
    <2>2. OnlyCl(c) /\ cl'[c] = [cl[c] EXCEPT !.phase = "astray"]
        BY <1>2, <1>6, PhaseIs DEF Phases
    <2>3. StrayRead(c) BY <1>1, <1>2, <1>3, <1>4, <1>6, <2>2 DEF StrayRead
    <2> QED BY <2>3
<1> QED BY <1>5, <1>6

LEMMA ListShortIs ==
    ASSUME TypeInv, NEW c \in Clients, ReadListShort(c)
    PROVE  StrayRead(c)
<1>1. Unserved /\ UNCHANGED <<net, misled>> BY UnservedIs DEF ReadListShort
<1>2. OnlyCl(c) /\ cl'[c] = [cl[c] EXCEPT !.phase = "astray"]
    BY PhaseIs DEF ReadListShort, Phases
<1>3. DownTaken(c, 0)
    <2>1. net[c].down \in Seq(DownUnits) /\ net \in [Clients -> Connections]
        BY DEF TypeInv, PeersOK, Connections
    <2>2. SubSeq(net[c].down, 0 + 1, Len(net[c].down)) = net[c].down BY <2>1, SubSeqFull
    <2> QED BY <1>1, <2>1, <2>2 DEF DownTaken, OnlyNet
<1> QED BY <1>1, <1>2, <1>3 DEF ReadListShort, StrayRead

LEMMA ChunkReadIs ==
    ASSUME TypeInv, NEW c \in Clients, ReadChunk(c)
    PROVE  StrayRead(c) \/ (\E u : ChunkRead(c, u)) \/ \E k : MoreRead(c, k)
<1>0. net[c].down \in Seq(DownUnits) /\ cl[c] \in ClientStates
      /\ cl[c].got \in Seq(Chunks) /\ cl[c].total \in Nat
    BY DEF TypeInv, PeersOK, Connections, ClientStates
<1>1. cl[c].phase = "down" /\ net[c].down # << >> BY DEF ReadChunk
<1>2. PICK k \in 1 .. (IF GotAll(c, 1) THEN Len(net[c].down) ELSE 1) :
        /\ IF \A j \in 1 .. k : net[c].down[j].kind = "chunk"
           THEN /\ cl' = [cl EXCEPT ![c].got = @ \o [j \in 1 .. k |-> net[c].down[j].val],
                                    ![c].phase = IF GotAll(c, k) THEN "menu" ELSE "down"]
                /\ UNCHANGED <<cut, astray>>
           ELSE /\ cl' = [cl EXCEPT ![c].phase = "astray"]
                /\ astray' = astray \cup {c}
                /\ cut' = IF k > 1 THEN cut \cup {c} ELSE cut
        /\ net' = [net EXCEPT ![c].down = SubSeq(@, k + 1, Len(@))]
    BY DEF ReadChunk
<1>3. Unserved /\ misled' = misled BY UnservedIs DEF ReadChunk
<1>4. k \in 1 .. Len(net[c].down) /\ (k # 1 => GotAll(c, 1))
    <2>1. PICK n \in Nat : n = Len(net[c].down) BY <1>0
    <2>2. n # 0 BY <1>0, <1>1, <2>1, EmptySeq
    <2>3. Len(net[c].down) \in Nat /\ 1 <= Len(net[c].down) BY <2>1, <2>2
    <2>4. CASE GotAll(c, 1)
        <3>1. k \in 1 .. Len(net[c].down) BY <1>2, <2>4
        <3> QED BY <2>4, <3>1
    <2>5. CASE ~ GotAll(c, 1)
        <3>1. k \in 1 .. 1 BY <1>2, <2>5
        <3>2. k = 1 BY <3>1
        <3> QED BY <2>3, <3>2
    <2> QED BY <2>4, <2>5
<1>5. DownTaken(c, k) /\ (k = 1 => DownRead(c))
    <2>1. net' = [net EXCEPT ![c].down = SubSeq(@, k + 1, Len(@))] BY <1>2
    <2>2. k \in 0 .. Len(net[c].down) BY <1>4
    <2> HIDE <1>2
    <2> QED BY <2>1, <2>2, DownTakenIs
<1>6. Head(net[c].down) = net[c].down[1] BY <1>0, <1>1
<1>7. CASE ~ \A j \in 1 .. k : net[c].down[j].kind = "chunk"
    <2>1. OnlyCl(c) /\ cl'[c] = [cl[c] EXCEPT !.phase = "astray"] /\ astray' = astray \cup {c}
        BY <1>2, <1>7, PhaseIs DEF Phases
    <2>2. k = 1 => Head(net[c].down).kind # "chunk" BY <1>6, <1>7
    <2>3. k # 1 => c \in cut' /\ GotAll(c, 1) /\ Len(net[c].down) > 1 BY <1>0, <1>2, <1>4, <1>7
    <2>4. StrayRead(c) BY <1>1, <1>3, <1>5, <2>1, <2>2, <2>3 DEF StrayRead
    <2> QED BY <2>4
<1>8. CASE \A j \in 1 .. k : net[c].down[j].kind = "chunk"
    <2>1. MoreGot(c, k) \in Seq(Chunks)
        <3>1. \A j \in 1 .. k : net[c].down[j] \in DownUnits BY <1>0, <1>4, ElementOfSeq
        <3>2. \A j \in 1 .. k : net[c].down[j].val \in Chunks BY <1>8, <3>1 DEF DownUnits
        <3>3. k \in Nat BY <1>4
        <3> QED BY <3>2, <3>3 DEF MoreGot
    <2>2. PICK g \in Seq(Chunks) : g = cl[c].got \o MoreGot(c, k)
        BY <1>0, <2>1, ConcatProperties
    <2>3. PICK ph \in Phases : ph = IF GotAll(c, k) THEN "menu" ELSE "down" BY DEF Phases
    <2>4. cl' = [cl EXCEPT ![c].got = g, ![c].phase = ph] /\ UNCHANGED <<cut, astray>>
        BY <1>2, <1>8, <2>2, <2>3 DEF MoreGot, TypeInv, PeersOK
    <2>5. OnlyCl(c) /\ cl'[c] = [cl[c] EXCEPT !.got = g, !.phase = ph]
        <3>1. PICK r : r = [cl[c] EXCEPT !.got = g, !.phase = ph] OBVIOUS
        <3>2. r \in ClientStates BY <1>0, <3>1 DEF ClientStates
        <3>3. cl' = [cl EXCEPT ![c] = r] BY <2>4, <3>1 DEF TypeInv, PeersOK
        <3> QED BY <3>1, <3>2, <3>3, ClIs
    <2>6. CASE k = 1
        <3>1. PICK u : u = Head(net[c].down).val OBVIOUS
        <3>2. u \in Chunks /\ Head(net[c].down).kind = "chunk"
            BY <1>1, <1>6, <1>8, <2>6, <3>1, HeadDown DEF TypeInv
        <3>3. MoreGot(c, k) = <<u>> BY <1>6, <2>6, <3>1 DEF MoreGot
        <3>4. g = Append(cl[c].got, u) BY <1>0, <2>2, <3>2, <3>3, AppendIsConcat
        <3>5. ChunkRead(c, u)
            BY <1>1, <1>3, <1>5, <2>3, <2>4, <2>5, <2>6, <3>1, <3>2, <3>4 DEF ChunkRead
        <3> QED BY <3>5
    <2>7. CASE k # 1
        <3>1. GotAll(c, 1) /\ k > 1 BY <1>4, <2>7
        <3>2. Len(cl[c].got) \in Nat BY <1>0
        <3>3. ph = "menu" BY <1>0, <2>3, <3>1, <3>2 DEF GotAll
        <3>4. MoreRead(c, k)
            BY <1>1, <1>3, <1>5, <1>8, <2>2, <2>4, <2>5, <3>1, <3>3 DEF MoreRead
        <3> QED BY <3>4
    <2> QED BY <2>6, <2>7
<1> QED BY <1>7, <1>8

LEMMA LoseIs ==
    ASSUME TypeInv, NEW c \in Clients, Resume(c) \/ Broken(c)
    PROVE  LoseFacts(c)
<1>2. Unserved /\ UNCHANGED <<net, misled, cut, astray>> BY UnservedIs DEF Resume, Broken, history
<1>3. CASE Resume(c)
    <2>1. OnlyCl(c) /\ cl'[c] = [cl[c] EXCEPT !.phase = "menu"]
        BY <1>3, PhaseIs DEF Resume, Phases
    <2> QED BY <1>2, <1>3, <2>1 DEF LoseFacts, Resume
<1>4. CASE Broken(c)
    <2>1. OnlyCl(c) /\ cl'[c] = [cl[c] EXCEPT !.phase = "broken"]
        BY <1>4, PhaseIs DEF Broken, Phases
    <2> QED BY <1>2, <1>4, <2>1 DEF LoseFacts, Broken
<1> QED BY <1>3, <1>4

LEMMA DieIs ==
    ASSUME TypeInv, NEW c \in Clients, Die(c)
    PROVE  DieFacts(c)
<1>2. Unserved /\ UNCHANGED <<net, misled, cut, astray>> BY UnservedIs DEF Die, history
<1>3. OnlyCl(c) /\ cl'[c] = [cl[c] EXCEPT !.phase = "dead"]
    BY PhaseIs DEF Die, Phases
<1> QED BY <1>2, <1>3 DEF DieFacts, Die

LEMMA CmdUnit ==
    ASSUME NEW m \in Messages
    PROVE  <<Unit("cmd", m)>> \in Seq(UpUnits)
BY DEF Unit, UpUnits

LEMMA QuitIs ==
    ASSUME TypeInv, NEW c \in Clients, Quit(c)
    PROVE  QuitFacts(c)
<1>1. QuitMsg(c) \in Messages
    <2>1. cl[c].check_msg \in Messages \cup {NoMessage} BY DEF TypeInv, PeersOK, ClientStates
    <2> QED BY <2>1, MsgE DEF QuitMsg
<1>2. Unserved /\ UNCHANGED <<misled, cut, astray>> BY UnservedIs DEF Quit, history
<1>3. OnlyCl(c) /\ cl'[c] = [cl[c] EXCEPT !.phase = "quit"]
    BY PhaseIs DEF Quit, Phases
<1>4. UpSent(c, <<Unit("cmd", QuitMsg(c))>>) BY <1>1, CmdUnit, SentIs DEF Quit, QuitMsg
<1> QED BY <1>1, <1>2, <1>3, <1>4 DEF QuitFacts, Quit

LEMMA WriteIs ==
    ASSUME TypeInv, NEW c \in Clients, WriteUp(c)
    PROVE  WriteFacts(c)
<1>1. cl[c].phase = "up" /\ cl[c].out # << >> BY DEF WriteUp, TypeInv, GotOK
<1>2. Unserved /\ UNCHANGED <<misled, cut, astray>> BY UnservedIs DEF WriteUp, history
<1>3. cl[c].out \in Seq(UpUnits) BY DEF TypeInv, PeersOK, ClientStates
<1>4. PICK o \in Seq(UpUnits) : o = Tail(cl[c].out) BY <1>1, <1>3, HeadTailProperties
<1>5. PICK ph \in Phases : ph = IF Len(cl[c].out) = 1 THEN "menu" ELSE "up" BY DEF Phases
<1>6. cl' = [cl EXCEPT ![c].out = o, ![c].phase = ph] BY <1>4, <1>5 DEF WriteUp, TypeInv, PeersOK
<1>7. OnlyCl(c) /\ cl'[c] = [cl[c] EXCEPT !.out = o, !.phase = ph]
    <2>1. PICK r : r = [cl[c] EXCEPT !.out = o, !.phase = ph] OBVIOUS
    <2>2. cl[c] \in ClientStates BY DEF TypeInv, PeersOK
    <2>3. r \in ClientStates BY <2>1, <2>2 DEF ClientStates
    <2>4. cl' = [cl EXCEPT ![c] = r] BY <1>6, <2>1 DEF TypeInv, PeersOK
    <2> QED BY <2>1, <2>3, <2>4, ClIs
<1>8. <<Head(cl[c].out)>> \in Seq(UpUnits)
    <2>1. Head(cl[c].out) \in UpUnits BY <1>1, <1>3, HeadTailProperties
    <2> QED BY <2>1
<1>9. UpSent(c, <<Head(cl[c].out)>>) BY <1>8, SentIs DEF WriteUp
<1> QED BY <1>1, <1>2, <1>4, <1>5, <1>7, <1>9 DEF WriteFacts

LEMMA DirIs ==
    ASSUME TypeInv, NEW c \in Clients, NEW k \in Typed, ChooseDir(c, k)
    PROVE  \E d : DirFacts(c, k, d)
<1>1. PICK d : d = IF k = -1 THEN Root ELSE NameAt(cl[c].listing.dirs, k) OBVIOUS
<1>2. PICK m : m = DirMsg(c, k) OBVIOUS
<1>3. cl[c] \in ClientStates BY DEF TypeInv, PeersOK
<1>4. cl[c].listing.dirs \in Seq(Dirs) BY <1>3 DEF ClientStates, Listings
<1>5. k \in Int BY FileAssumption
<1>6. PICK w \in Dirs : w = IF d = "" THEN cl[c].where ELSE d
    <2>1. DOMAIN cl[c].listing.dirs = 1 .. Len(cl[c].listing.dirs) BY <1>4
    <2>2. d # "" => d \in Dirs BY <1>1, <1>4, <2>1, Roots, ElementOfSeq DEF NameAt
    <2>3. cl[c].where \in Dirs BY <1>3 DEF ClientStates
    <2> QED BY <2>2, <2>3
<1>7. m \in Messages
    <2>1. cl[c].check_msg \in Messages \cup {NoMessage} BY <1>3 DEF ClientStates
    <2> QED BY <1>2, <1>5, <2>1, MsgB DEF DirMsg
<1>8. /\ AtMenu(c)
      /\ cl' = [cl EXCEPT ![c].phase = "list", ![c].is_dir = TRUE, ![c].check_msg = m,
                            ![c].left = cl[c].left - 1, ![c].where = w]
      /\ net' = Sent(c, <<Unit("cmd", m)>>)
      /\ misled' = IF d # Root /\ (d \in DOMAIN SubDirs => SubDirs[d] # << >>)
                     THEN misled \cup {c} ELSE misled
    BY <1>1, <1>2, <1>3, <1>6 DEF ChooseDir, DirMsg, TypeInv, PeersOK
<1>9. Unserved /\ astray' = astray BY UnservedIs DEF ChooseDir
<1>10. OnlyCl(c) /\ cl'[c] = [cl[c] EXCEPT !.phase = "list", !.is_dir = TRUE, !.check_msg = m,
                            !.left = cl[c].left - 1, !.where = w]
    <2>1. PICK r : r = [cl[c] EXCEPT !.phase = "list", !.is_dir = TRUE, !.check_msg = m,
                            !.left = cl[c].left - 1, !.where = w] OBVIOUS
    <2>2. cl[c].left - 1 \in Nat BY <1>3, <1>8 DEF AtMenu, ClientStates
    <2>3. r \in ClientStates BY <1>3, <1>6, <1>7, <2>1, <2>2 DEF ClientStates, Phases
    <2>4. cl' = [cl EXCEPT ![c] = r] BY <1>8, <2>1 DEF TypeInv, PeersOK
    <2> QED BY <2>1, <2>3, <2>4, ClIs
<1>11. UpSent(c, <<Unit("cmd", m)>>) BY <1>7, <1>8, CmdUnit, SentIs
<1>12. DirFacts(c, k, d) BY <1>1, <1>2, <1>5, <1>6, <1>7, <1>8, <1>9, <1>10, <1>11 DEF DirFacts
<1> QED BY <1>12

LEMMA FileIs ==
    ASSUME TypeInv, NEW c \in Clients, NEW i \in Typed, ChooseFile(c, i)
    PROVE  \E p : FileFacts(c, i, p)
<1>1. PICK f : f = cl[c].listing.files[i] OBVIOUS
<1>2. PICK m : m = FileMsg(c, i) OBVIOUS
<1>3. cl[c] \in ClientStates BY DEF TypeInv, PeersOK
<1>4. cl[c].listing.files \in Seq([name : FileNames, size : Nat]) BY <1>3 DEF ClientStates, Listings
<1>5. i \in 1 .. Len(cl[c].listing.files) /\ i \in Int
    <2>1. DOMAIN cl[c].listing.files = 1 .. Len(cl[c].listing.files) BY <1>4
    <2>2. i \in DOMAIN cl[c].listing.files BY DEF ChooseFile
    <2> QED BY <2>1, <2>2, FileAssumption
<1>6. f.name \in FileNames /\ f.size \in Nat
    <2>1. f \in [name : FileNames, size : Nat] BY <1>1, <1>4, <1>5, ElementOfSeq
    <2> QED BY <2>1
<1>7. m \in Messages
    <2>1. cl[c].check_msg \in Messages \cup {NoMessage} /\ cl[c].is_dir \in BOOLEAN
        BY <1>3 DEF ClientStates
    <2>2. PICK x \in Messages \cup {NoMessage} : x = cl[c].check_msg BY <2>1
    <2>3. PICK b \in BOOLEAN : b = cl[c].is_dir BY <2>1
    <2>4. m = [x EXCEPT !.msg = "D", !.index = i, !.is_dir = b] BY <1>2, <2>2, <2>3 DEF FileMsg
    <2> QED BY <1>5, <2>4, MsgD
<1>8. PICK p \in UserPaths : p = <<cl[c].where, f.name>>
    <2>1. cl[c].where \in Dirs BY <1>3 DEF ClientStates
    <2> QED BY <1>6, <2>1 DEF UserPaths
<1>9. PICK ph \in Phases : ph = IF f.size = 0 THEN "menu" ELSE "down" BY DEF Phases
<1>10. /\ AtMenu(c)
       /\ cl' = [cl EXCEPT ![c].phase = ph, ![c].check_msg = m, ![c].left = cl[c].left - 1,
                            ![c].want = p, ![c].wants = cl[c].wants \cup {p},
                            ![c].got = << >>, ![c].total = f.size]
       /\ net' = Sent(c, <<Unit("cmd", m)>>)
    BY <1>1, <1>2, <1>3, <1>8, <1>9 DEF ChooseFile, Chosen, FileMsg, TypeInv, PeersOK
<1>11. Unserved /\ UNCHANGED <<misled, cut, astray>> BY UnservedIs DEF ChooseFile, history
<1>12. OnlyCl(c) /\ cl'[c] = [cl[c] EXCEPT !.phase = ph, !.check_msg = m, !.left = cl[c].left - 1,
                            !.want = p, !.wants = cl[c].wants \cup {p}, !.got = << >>,
                                !.total = f.size]
    <2>1. PICK r : r = [cl[c] EXCEPT !.phase = ph, !.check_msg = m, !.left = cl[c].left - 1,
                            !.want = p, !.wants = cl[c].wants \cup {p}, !.got = << >>,
                                !.total = f.size]
                                OBVIOUS
    <2>2. cl[c].left - 1 \in Nat BY <1>3, <1>10 DEF AtMenu, ClientStates
    <2>3. cl[c].wants \cup {p} \in SUBSET UserPaths BY <1>3 DEF ClientStates
    <2>4. << >> \in Seq(Chunks) OBVIOUS
    <2>5. r \in ClientStates BY <1>3, <1>6, <1>7, <2>1, <2>2, <2>3, <2>4 DEF ClientStates
    <2>6. cl' = [cl EXCEPT ![c] = r] BY <1>10, <2>1 DEF TypeInv, PeersOK
    <2> QED BY <2>1, <2>5, <2>6, ClIs
<1>13. UpSent(c, <<Unit("cmd", m)>>) BY <1>7, <1>10, CmdUnit, SentIs
<1>14. FileFacts(c, i, p)
    BY <1>1, <1>2, <1>5, <1>6, <1>7, <1>8, <1>9, <1>10, <1>11, <1>12, <1>13 DEF FileFacts
<1> QED BY <1>14

LEMMA NoFileIs ==
    ASSUME TypeInv, NEW c \in Clients, NEW i \in Typed, NEW size \in Junk, ChooseNoFile(c, i, size)
    PROVE  NoFileFacts(c, i)
<1>1. PICK m : m = FileMsg(c, i) OBVIOUS
<1>2. cl[c] \in ClientStates BY DEF TypeInv, PeersOK
<1>3. size \in Nat /\ i \in Int BY FileAssumption
<1>4. m \in Messages
    <2>1. cl[c].check_msg \in Messages \cup {NoMessage} /\ cl[c].is_dir \in BOOLEAN
        BY <1>2 DEF ClientStates
    <2>2. PICK x \in Messages \cup {NoMessage} : x = cl[c].check_msg BY <2>1
    <2>3. PICK b \in BOOLEAN : b = cl[c].is_dir BY <2>1
    <2>4. m = [x EXCEPT !.msg = "D", !.index = i, !.is_dir = b] BY <1>1, <2>2, <2>3 DEF FileMsg
    <2> QED BY <1>3, <2>4, MsgD
<1>5. PICK p \in {IF size = 0 THEN "menu" ELSE "down", "dead"} :
         cl' = [cl EXCEPT ![c].phase = p, ![c].check_msg = m, ![c].left = cl[c].left - 1,
                          ![c].got = << >>, ![c].total = size]
    BY <1>1, <1>2 DEF ChooseNoFile, Chosen, FileMsg, TypeInv, PeersOK
<1>6. AtMenu(c) /\ net' = Sent(c, <<Unit("cmd", m)>>) /\ misled' = misled \cup {c}
    BY <1>1 DEF ChooseNoFile, Chosen, FileMsg
<1>7. Unserved /\ UNCHANGED <<cut, astray>> BY UnservedIs DEF ChooseNoFile
<1>8. p \in {"menu", "down", "dead"} /\ (p = "down" => size # 0) BY <1>5
<1>9. OnlyCl(c) /\ cl'[c] = [cl[c] EXCEPT !.phase = p, !.check_msg = m, !.left = cl[c].left - 1,
                                          !.got = << >>, !.total = size]
    <2>1. PICK r : r = [cl[c] EXCEPT !.phase = p, !.check_msg = m, !.left = cl[c].left - 1,
                                     !.got = << >>, !.total = size] OBVIOUS
    <2>2. cl[c].left - 1 \in Nat BY <1>2, <1>6 DEF AtMenu, ClientStates
    <2>3. << >> \in Seq(Chunks) OBVIOUS
    <2>4. r \in ClientStates BY <1>2, <1>3, <1>4, <1>8, <2>1, <2>2, <2>3 DEF ClientStates, Phases
    <2>5. cl' = [cl EXCEPT ![c] = r] BY <1>5, <2>1 DEF TypeInv, PeersOK
    <2> QED BY <2>1, <2>4, <2>5, ClIs
<1>10. UpSent(c, <<Unit("cmd", m)>>) BY <1>4, <1>6, CmdUnit, SentIs
<1> QED BY <1>1, <1>3, <1>4, <1>6, <1>7, <1>8, <1>9, <1>10 DEF NoFileFacts

LEMMA PutIs ==
    ASSUME TypeInv, NEW c \in Clients, NEW n \in FileNames, ChooseUpload(c, n)
    PROVE  PutFacts(c, n)
<1>2. PICK m : m = PutMsg(c) OBVIOUS
<1>3. cl[c] \in ClientStates BY DEF TypeInv, PeersOK
<1>4. m \in Messages
    <2>1. cl[c].check_msg \in Messages \cup {NoMessage} BY <1>3 DEF ClientStates
    <2>2. PICK x \in Messages \cup {NoMessage} : x = cl[c].check_msg BY <2>1
    <2>3. m = [x EXCEPT !.msg = "F", !.index = 1] /\ 1 \in Int BY <1>2, <2>2 DEF PutMsg
    <2> QED BY <2>3, MsgF
<1>5. PICK o : o = PutOut(c, n) OBVIOUS
<1>6. o \in Seq(UpUnits)
    <2>1. UpSize \in Nat BY FileAssumption
    <2>2. Unit("args", [name |-> n, size |-> UpSize]) \in UpUnits BY DEF Unit, UpUnits
    <2>3. \A j \in 1 .. UpSize : Unit("chunk", [by |-> c, n |-> j]) \in UpUnits BY DEF Unit, UpUnits
    <2>4. [j \in 1 .. UpSize |-> Unit("chunk", [by |-> c, n |-> j])] \in [1 .. UpSize -> UpUnits]
        BY <2>3
    <2>5. [j \in 1 .. UpSize |-> Unit("chunk", [by |-> c, n |-> j])] \in Seq(UpUnits) BY <2>1, <2>4
    <2>6. <<Unit("args", [name |-> n, size |-> UpSize])>> \in Seq(UpUnits) BY <2>2
    <2> QED BY <1>5, <2>5, <2>6, ConcatProperties DEF PutOut
<1>7. PICK p \in UserPaths \cup {NoPath} : p = IF cl[c].put = NoPath THEN <<cl[c].where, n>>
          ELSE cl[c].put
    BY <1>3 DEF ClientStates, UserPaths
<1>10. /\ AtMenu(c)
       /\ cl' = [cl EXCEPT ![c].phase = "up", ![c].check_msg = m, ![c].left = cl[c].left - 1,
                            ![c].put = p, ![c].out = o]
       /\ net' = Sent(c, <<Unit("cmd", m)>>)
    BY <1>2, <1>3, <1>5, <1>7 DEF ChooseUpload, PutMsg, PutOut, TypeInv, PeersOK
<1>11. Unserved /\ UNCHANGED <<misled, cut, astray>> BY UnservedIs DEF ChooseUpload, history
<1>12. OnlyCl(c) /\ cl'[c] = [cl[c] EXCEPT !.phase = "up", !.check_msg = m, !.left = cl[c].left - 1,
                            !.put = p, !.out = o]
    <2>1. PICK r : r = [cl[c] EXCEPT !.phase = "up", !.check_msg = m, !.left = cl[c].left - 1,
                            !.put = p, !.out = o] OBVIOUS
    <2>2. cl[c].left - 1 \in Nat BY <1>3, <1>10 DEF AtMenu, ClientStates
    <2>3. r \in ClientStates BY <1>3, <1>4, <1>6, <2>1, <2>2 DEF ClientStates, Phases
    <2>4. cl' = [cl EXCEPT ![c] = r] BY <1>10, <2>1 DEF TypeInv, PeersOK
    <2> QED BY <2>1, <2>3, <2>4, ClIs
<1>13. UpSent(c, <<Unit("cmd", m)>>) BY <1>4, <1>10, CmdUnit, SentIs
<1> QED BY <1>2, <1>4, <1>5, <1>6, <1>7, <1>10, <1>11, <1>12, <1>13 DEF PutFacts

\* Every step of a client keeps the types.
LEMMA ClientType ==
    ASSUME TypeInv, NEW c,
           \/ ConnectFacts(c) \/ StartFacts(c) \/ StrayRead(c) \/ LoseFacts(c) \/ WriteFacts(c) \/
               QuitFacts(c) \/ DieFacts(c)
           \/ (\E L : ListRead(c, L)) \/ (\E u : ChunkRead(c, u)) \/ (\E k, d : DirFacts(c, k, d))
           \/ (\E i, p : FileFacts(c, i, p)) \/ (\E n : PutFacts(c, n))
           \/ (\E k : MoreRead(c, k)) \/ (\E i : NoFileFacts(c, i))
    PROVE  TypeInv'
<1>0. c \in Clients
    BY DEF ConnectFacts, StartFacts, StrayRead, LoseFacts, WriteFacts, QuitFacts, DieFacts,
           ListRead,
        ChunkRead, DirFacts, FileFacts, PutFacts, MoreRead, NoFileFacts
<1>1. cl[c] \in ClientStates /\
          (cl[c].phase = "down" => Len(cl[c].got) < cl[c].total)
      /\ (cl[c].phase = "up" => cl[c].out # << >>) /\ cl[c].got \in Seq(Chunks) /\
          cl[c].total \in Nat
      /\ cl[c].out \in Seq(UpUnits)
    BY <1>0 DEF TypeInv, PeersOK, GotOK, ClientStates
<1>s. \A u : UpSent(c, u) => OnlyNet(c) /\ net'[c].fd = net[c].fd /\ net'[c].conn = net[c].conn
                  /\ (net[c].conn = "closed" => net'[c].up = net[c].up)
    BY DEF UpSent
<1>r. DownRead(c) \/ (\E k : DownTaken(c, k)) => OnlyNet(c) /\ net'[c].fd = net[c].fd /\ net'[c].conn = net[c].conn
                  /\ (net[c].conn = "closed" => net'[c].up = net[c].up)
    BY DEF DownRead, DownTaken
<1>n. UNCHANGED net => OnlyNet(c) /\ net'[c].fd = net[c].fd /\ net'[c].conn = net[c].conn
                  /\ (net[c].conn = "closed" => net'[c].up = net[c].up)
    BY DEF OnlyNet, TypeInv, PeersOK
<1>2. CASE ConnectFacts(c)
    <2>1. cl'[c].phase = "new" /\ cl'[c].got = cl[c].got /\ cl'[c].total = cl[c].total
        BY <1>1, <1>2 DEF ConnectFacts, ClientStates
    <2>2. net'[c].fd = net[c].fd /\ net'[c].conn = "queued" /\ net'[c].up = net[c].up
        BY <1>0, <1>2 DEF ConnectFacts, TypeInv, PeersOK, Connections
    <2>3. OnlyCl(c) /\ Unserved /\ OnlyNet(c) /\ net[c].conn = "none" BY <1>2 DEF ConnectFacts
    <2> QED BY <1>0, <1>1, <2>1, <2>2, <2>3, PeersType
<1>3. CASE StartFacts(c)
    <2>1. cl'[c].phase = "list" /\ cl'[c].got = cl[c].got /\ cl'[c].total = cl[c].total
        BY <1>1, <1>3 DEF StartFacts, ClientStates
    <2> QED BY <1>0, <1>1, <1>3, <1>s, <2>1, PeersType DEF StartFacts
<1>4. CASE StrayRead(c)
    <2>1. cl'[c].phase = "astray" /\ cl'[c].got = cl[c].got /\ cl'[c].total = cl[c].total
        BY <1>1, <1>4 DEF StrayRead, ClientStates
    <2> QED BY <1>0, <1>1, <1>4, <1>r, <2>1, PeersType DEF StrayRead
<1>5. CASE LoseFacts(c)
    <2>1. cl'[c].phase \in {"menu", "broken"}
        BY <1>1, <1>5 DEF LoseFacts, ClientStates
    <2>2. OnlyCl(c) /\ Unserved /\ UNCHANGED net BY <1>5 DEF LoseFacts
    <2> QED BY <1>0, <1>n, <2>1, <2>2, PeersType
<1>6. CASE WriteFacts(c)
    <2>1. cl'[c].phase = (IF Len(cl[c].out) = 1 THEN "menu" ELSE "up") /\ cl'[c].got = cl[c].got /\
              cl'[c].total = cl[c].total
          /\ cl'[c].out = Tail(cl[c].out) BY <1>1, <1>6 DEF WriteFacts, ClientStates
    <2>2. Len(cl[c].out) # 1 => Tail(cl[c].out) # << >>
        <3>1. Len(Tail(cl[c].out)) = Len(cl[c].out) - 1 /\ Len(cl[c].out) \in Nat
            BY <1>1, <1>6, HeadTailProperties DEF WriteFacts
        <3>2. PICK o : o = Tail(cl[c].out) OBVIOUS
        <3>3. o = << >> => Len(o) = 0 OBVIOUS
        <3> QED BY <3>1, <3>2, <3>3
    <2> QED BY <1>0, <1>1, <1>6, <1>s, <2>1, <2>2, PeersType DEF WriteFacts
<1>7. CASE QuitFacts(c)
    <2>1. cl'[c].phase = "quit" /\ cl'[c].got = cl[c].got /\ cl'[c].total = cl[c].total
        BY <1>1, <1>7 DEF QuitFacts, ClientStates
    <2> QED BY <1>0, <1>1, <1>7, <1>s, <2>1, PeersType DEF QuitFacts
<1>8. CASE DieFacts(c)
    <2>1. cl'[c].phase = "dead" /\ cl'[c].got = cl[c].got /\ cl'[c].total = cl[c].total
        BY <1>1, <1>8 DEF DieFacts, ClientStates
    <2> QED BY <1>0, <1>1, <1>8, <1>n, <2>1, PeersType DEF DieFacts
<1>9. CASE \E L : ListRead(c, L)
    <2>0. PICK L : ListRead(c, L) BY <1>9
    <2>1. cl'[c].phase = "menu" /\ cl'[c].got = cl[c].got /\ cl'[c].total = cl[c].total
        BY <1>1, <2>0 DEF ListRead, ClientStates
    <2> QED BY <1>0, <1>1, <1>r, <2>0, <2>1, PeersType DEF ListRead
<1>10. CASE \E u : ChunkRead(c, u)
    <2>0. PICK u : ChunkRead(c, u) BY <1>10
    <2>1. cl'[c].phase = (IF GotAll(c, 1) THEN "menu" ELSE "down") /\
              cl'[c].got = Append(cl[c].got, u) /\ cl'[c].total = cl[c].total
        BY <1>1, <2>0 DEF ChunkRead, ClientStates
    <2>2. Len(Append(cl[c].got, u)) = Len(cl[c].got) + 1 /\ Len(cl[c].got) \in Nat
        <3>1. u \in Chunks /\ cl[c].got \in Seq(Chunks) BY <1>1, <2>0 DEF ChunkRead
        <3> QED BY <3>1, AppendProperties
    <2>3. cl'[c].phase = "down" => Len(cl'[c].got) < cl'[c].total
        <3>1. Len(cl[c].got) < cl[c].total BY <1>1, <2>0 DEF ChunkRead
        <3> QED BY <1>1, <2>1, <2>2, <3>1 DEF GotAll
    <2> QED BY <1>0, <1>1, <1>r, <2>0, <2>1, <2>3, PeersType DEF ChunkRead
<1>11. CASE \E k, d : DirFacts(c, k, d)
    <2>0. PICK k, d : DirFacts(c, k, d) BY <1>11
    <2>1. cl'[c].phase = "list" /\ cl'[c].got = cl[c].got /\ cl'[c].total = cl[c].total
        BY <1>1, <2>0 DEF DirFacts, ClientStates
    <2> QED BY <1>0, <1>1, <1>s, <2>0, <2>1, PeersType DEF DirFacts
<1>12. CASE \E i, p : FileFacts(c, i, p)
    <2>0. PICK i, p : FileFacts(c, i, p) BY <1>12
    <2>1. cl'[c].phase = (IF cl[c].listing.files[i].size = 0 THEN "menu" ELSE "down")
          /\ cl'[c].got = << >> /\ cl'[c].total = cl[c].listing.files[i].size
        BY <1>1, <2>0 DEF FileFacts, ClientStates
    <2>2. cl[c].listing.files[i].size \in Nat /\ Len(<< >>) = 0 BY <2>0 DEF FileFacts
    <2>3. cl'[c].phase = "down" => Len(cl'[c].got) < cl'[c].total
        BY <2>1, <2>2
    <2>4. cl'[c].phase # "up" /\ cl'[c].phase # "off" BY <2>1
    <2> QED BY <1>0, <1>s, <2>0, <2>3, <2>4, PeersType DEF FileFacts
<1>13. CASE \E n : PutFacts(c, n)
    <2>0. PICK n : PutFacts(c, n) BY <1>13
    <2>1. cl'[c].phase = "up" /\ cl'[c].got = cl[c].got /\ cl'[c].total = cl[c].total /\
              cl'[c].out = PutOut(c, n)
        BY <1>1, <2>0 DEF PutFacts, ClientStates
    <2>2. PutOut(c, n) # << >>
        <3>1. UpSize \in Nat BY FileAssumption
        <3>2. PICK s : s = [j \in 1 .. UpSize |-> Unit("chunk", [by |-> c, n |-> j])] OBVIOUS
        <3>4. PutOut(c, n) = <<Unit("args", [name |-> n, size |-> UpSize])>> \o s BY <3>2 DEF PutOut
        <3>5. PICK a : a = Unit("args", [name |-> n, size |-> UpSize]) OBVIOUS
        <3>6. PICK S : S = {Unit("chunk", [by |-> c, n |-> j]) : j \in 1 .. UpSize} \cup {a} OBVIOUS
        <3>7. s \in Seq(S) /\ <<a>> \in Seq(S) BY <3>1, <3>2, <3>6
        <3> QED BY <3>4, <3>5, <3>7, ConcatProperties
    <2> QED BY <1>0, <1>1, <1>s, <2>0, <2>1, <2>2, PeersType DEF PutFacts
<1>14. CASE \E k : MoreRead(c, k)
    <2>0. PICK k : MoreRead(c, k) BY <1>14
    <2>1. cl'[c].phase = "menu" BY <1>1, <2>0 DEF MoreRead, ClientStates
    <2> QED BY <1>0, <1>r, <2>0, <2>1, PeersType DEF MoreRead
<1>15. CASE \E i : NoFileFacts(c, i)
    <2>0. PICK i : NoFileFacts(c, i) BY <1>15
    <2>1. PICK p \in {"menu", "down", "dead"}, size \in Nat :
            /\ p = "down" => size # 0
            /\ OnlyCl(c)
            /\ cl'[c] = [cl[c] EXCEPT !.phase = p, !.check_msg = FileMsg(c, i),
                                      !.left = cl[c].left - 1, !.got = << >>, !.total = size]
        BY <2>0 DEF NoFileFacts
    <2>2. cl'[c].phase = p /\ cl'[c].got = << >> /\ cl'[c].total = size
        BY <1>1, <2>1 DEF ClientStates
    <2>3. cl'[c].phase = "down" => Len(cl'[c].got) < cl'[c].total BY <2>1, <2>2
    <2>4. cl'[c].phase # "up" /\ cl'[c].phase # "off" BY <2>1, <2>2
    <2>5. Unserved /\ UpSent(c, <<Unit("cmd", FileMsg(c, i))>>) BY <2>0 DEF NoFileFacts
    <2> QED BY <1>0, <1>s, <2>1, <2>3, <2>4, <2>5, PeersType
<1> QED BY <1>2, <1>3, <1>4, <1>5, <1>6, <1>7, <1>8, <1>9, <1>10, <1>11, <1>12, <1>13, <1>14, <1>15

------------------------------------------------------------------------------
(* Every step keeps the types.                                             *)

\* The remaining steps of the loop: it waits,
WaitFacts ==
    /\ step = "poll" /\ batch = {} /\ batch' = Ready
    /\ UNCHANGED <<state, clnt_sock, watched, cur, step, slot, threads, disk, net, cl, found,
        misdel, misled, cut, rewritten, stored, astray>>
\* it takes an event,
TakeFacts(f) ==
    /\ f \in Fds /\ step = "poll" /\ f \in batch /\ cur' = f /\ step' = "read" /\
        batch' = batch \ {f}
    /\ UNCHANGED <<state, clnt_sock, watched, slot, threads, disk, net, cl, found, misdel, misled, cut,
        rewritten, stored, astray>>
\* it accepts client c and notes what the slot of its descriptor holds.
AcceptFacts(c, f) ==
    /\ c \in Clients /\ f \in Fds /\ step = "poll"
    /\ net[c].conn = "queued" /\ net[c].fd = None /\ \A d \in Clients : net[d].fd # f
    /\ OnlyNet(c) /\ net'[c] = [net[c] EXCEPT !.fd = f, !.conn = "open"]
    /\ watched' = watched \cup {f} /\ clnt_sock' = f /\ batch' = batch \ {Server}
    /\ OnlySlot(f) /\ slot'[f] = [slot[f] EXCEPT !.init = TRUE]
    /\ found' \in [Clients -> [msg : {"none", "B", "D", "E", "F"}, path : DOMAIN SubDirs]]
    /\ found'[c] = [msg |-> slot[f].msg.msg, path |-> slot[f].path] /\ \A d \in Clients : d # c =>
        found'[d] = found[d]
    /\ UNCHANGED <<state, cur, step, threads, disk, cl, misdel, misled, cut, rewritten, stored, astray>>

LEMMA AcceptIs == TypeInv /\ AcceptClient => \E c, f : AcceptFacts(c, f)
<1> SUFFICES ASSUME TypeInv, AcceptClient PROVE \E c, f : AcceptFacts(c, f) OBVIOUS
<1>0. PICK c \in Pending, f \in Fds :
        /\ LowestFree(f)
        /\ net' = [net EXCEPT ![c].fd = f, ![c].conn = "open"]
        /\ clnt_sock' = f
        /\ watched' = watched \cup {f}
        /\ slot' = [slot EXCEPT ![f] = AcceptedSlot(@)]
        /\ found' = [found EXCEPT ![c] = [msg |-> slot'[f].msg.msg, path |-> slot[f].path]]
    BY DEF AcceptClient
<1>1. UNCHANGED <<state, cur, step, threads, disk, cl, misdel, misled, cut, rewritten, stored, astray>>
      /\ batch' = batch \ {Server} /\ step = "poll"
    BY DEF AcceptClient
<1>2. c \in Clients /\ net[c].conn = "queued" BY DEF Pending
<1>3. net[c].fd = None /\ \A d \in Clients : net[d].fd # f
    BY <1>0, <1>2, ConnIs, Zero DEF LowestFree, TypeInv, FdsOK
<1>4. OnlySlot(f) /\ slot'[f] = [slot[f] EXCEPT !.init = TRUE] /\ slot'[f].msg = slot[f].msg /\
          slot[f] \in Slots
    <2>1. PICK s : s = [slot[f] EXCEPT !.init = TRUE] OBVIOUS
    <2>2. slot[f] \in Slots /\ slot \in [Fds -> Slots] BY DEF TypeInv, LoopOK
    <2>3. s \in Slots /\ s.msg = slot[f].msg BY <2>1, <2>2 DEF Slots
    <2>4. slot' = [slot EXCEPT ![f] = s] BY <1>0, <2>1, <2>2 DEF AcceptedSlot
    <2> QED BY <2>1, <2>2, <2>3, <2>4 DEF OnlySlot
<1>5. OnlyNet(c) /\ net'[c] = [net[c] EXCEPT !.fd = f, !.conn = "open"]
    <2>1. PICK r : r = [net[c] EXCEPT !.fd = f, !.conn = "open"] OBVIOUS
    <2>2. net[c] \in Connections /\ net \in [Clients -> Connections] BY <1>2 DEF TypeInv, PeersOK
    <2>3. r \in Connections BY <2>1, <2>2 DEF Connections
    <2>4. net' = [net EXCEPT ![c] = r] BY <1>0, <1>2, <2>1, <2>2
    <2> QED BY <1>2, <2>1, <2>2, <2>3, <2>4 DEF OnlyNet
<1>6. slot[f].msg.msg \in {"none", "B", "D", "E", "F"} /\ slot[f].path \in DOMAIN SubDirs
    BY <1>4, NoMessageIs DEF Slots
<1>7. /\ found' \in [Clients -> [msg : {"none", "B", "D", "E", "F"}, path : DOMAIN SubDirs]]
      /\ found'[c] = [msg |-> slot[f].msg.msg, path |-> slot[f].path] /\ \A d \in Clients : d # c =>
          found'[d] = found[d]
    BY <1>0, <1>2, <1>4, <1>6 DEF TypeInv, HistoryOK
<1> QED BY <1>0, <1>1, <1>2, <1>3, <1>4, <1>5, <1>7 DEF AcceptFacts

\* A step is one of these.
LoopFacts ==
    \/ WaitFacts \/ (\E c, f : AcceptFacts(c, f)) \/ (\E f : TakeFacts(f))
    \/ (\E c, L : GreetFacts(c, L)) \/ IdleFacts \/ (\E c : AstrayRead(c)) \/
        (\E c, m : ReadFacts(c, m))
    \/ ListGone \/ (\E c, d, at : ListFacts(c, d, at)) \/ DownloadFacts \/ (\E c : CloseFacts(c))
    \/ (\E c : AstrayArgs(c)) \/ (\E c, a : UploadFacts(c, a)) \/ (\E c : ShortFacts(c))
ThreadFacts ==
    \E t : \/ SendGone(t) \/ SendEnd(t) \/ (\E c : SendFacts(t, c)) \/ (\E c : OpenFacts(t, c))
           \/ (\E c : AstrayChunk(t, c)) \/ (\E c, b : StoreFacts(t, c, b))
           \/ (\E c, b, k : OverFacts(t, c, b, k)) \/ (\E c : EndFacts(t, c))
ClientFacts(c) ==
    \/ ConnectFacts(c) \/ StartFacts(c) \/ StrayRead(c) \/ LoseFacts(c) \/ WriteFacts(c) \/
        QuitFacts(c) \/ DieFacts(c)
    \/ (\E L : ListRead(c, L)) \/ (\E u : ChunkRead(c, u)) \/ (\E k, d : DirFacts(c, k, d))
    \/ (\E i, p : FileFacts(c, i, p)) \/ (\E n : PutFacts(c, n))
    \/ (\E k : MoreRead(c, k)) \/ (\E i : NoFileFacts(c, i))

LEMMA LoopIs == TypeInv /\ LoopStep => LoopFacts
<1> SUFFICES ASSUME TypeInv, LoopStep PROVE LoopFacts OBVIOUS
<1>1. CASE Wait BY <1>1 DEF Wait, WaitFacts, LoopFacts, history
<1>2. CASE AcceptClient BY <1>2, AcceptIs DEF LoopFacts
<1>3. CASE \E f \in Fds : Take(f)
    <2>1. PICK f \in Fds : Take(f) BY <1>3
    <2>2. TakeFacts(f) BY <2>1 DEF Take, TakeFacts, history
    <2> QED BY <2>2 DEF LoopFacts
<1>4. CASE Greet BY <1>4, GreetIs DEF LoopFacts
<1>5. CASE ReadCommand BY <1>5, ReadIs DEF LoopFacts
<1>50. CASE ReadShort BY <1>50, ShortIs DEF LoopFacts
<1>6. CASE ListDir BY <1>6, ListDirIs DEF LoopFacts
<1>7. CASE StartDownload BY <1>7, DownloadIs DEF LoopFacts
<1>8. CASE CloseClient BY <1>8, CloseIs DEF LoopFacts
<1>9. CASE StartUpload BY <1>9, UploadArgsIs DEF LoopFacts
<1> QED BY <1>1, <1>2, <1>3, <1>4, <1>5, <1>50, <1>6, <1>7, <1>8, <1>9 DEF LoopStep

LEMMA ThreadIs ==
    ASSUME TypeInv, NEW t \in threads, ThreadStep(t)
    PROVE  ThreadFacts
<1>1. CASE SendChunk(t) BY <1>1, SendIs DEF ThreadFacts
<1>2. CASE OpenUpload(t) BY <1>2, OpenIs DEF ThreadFacts
<1>3. CASE StoreChunk(t) BY <1>3, StoreIs DEF ThreadFacts
<1>4. CASE EndUpload(t) BY <1>4, EndIs DEF ThreadFacts
<1> QED BY <1>1, <1>2, <1>3, <1>4 DEF ThreadStep

LEMMA ClientIs ==
    ASSUME TypeInv, NEW c \in Clients, ClientStep(c)
    PROVE  ClientFacts(c)
<1>1. CASE Connect(c) BY <1>1, ConnectIs DEF ClientFacts
<1>2. CASE Start(c) BY <1>2, StartIs DEF ClientFacts
<1>3. CASE ReadList(c) BY <1>3, ListReadIs DEF ClientFacts
<1>4. CASE Resume(c) \/ Broken(c) BY <1>4, LoseIs DEF ClientFacts
<1>40. CASE ReadListShort(c) BY <1>40, ListShortIs DEF ClientFacts
<1>5. CASE ReadChunk(c) BY <1>5, ChunkReadIs DEF ClientFacts
<1>6. CASE WriteUp(c) BY <1>6, WriteIs DEF ClientFacts
<1>7. CASE \E k \in Typed : ChooseDir(c, k) BY <1>7, DirIs DEF ClientFacts
<1>8. CASE \E i \in Typed : ChooseFile(c, i) BY <1>8, FileIs DEF ClientFacts
<1>80. CASE \E i \in Typed : \E size \in Junk : ChooseNoFile(c, i, size)
    BY <1>80, NoFileIs DEF ClientFacts
<1>9. CASE \E n \in FileNames : ChooseUpload(c, n) BY <1>9, PutIs DEF ClientFacts
<1>10. CASE Quit(c) BY <1>10, QuitIs DEF ClientFacts
<1>11. CASE Die(c) BY <1>11, DieIs DEF ClientFacts
<1> QED BY <1>1, <1>2, <1>3, <1>4, <1>40, <1>5, <1>6, <1>7, <1>8, <1>80, <1>9, <1>10, <1>11
        DEF ClientStep

\* Every step has the facts of one of the actions.
LEMMA NextIs ==
    TypeInv /\ Next => state = "run" /\ (LoopFacts \/ ThreadFacts \/ \E c : ClientFacts(c))
BY LoopIs, ThreadIs, ClientIs DEF Next

\* Every step keeps the types.
LEMMA NextType == TypeInv /\ [Next]_vars => TypeInv'
<1> SUFFICES ASSUME TypeInv, [Next]_vars PROVE TypeInv' OBVIOUS
<1>1. CASE UNCHANGED vars
    BY <1>1 DEF vars, loopVars, history, TypeInv, LoopOK, DiskOK, PeersOK, HistoryOK, FdsOK, GotOK
<1>2. CASE LoopStep
    <2>1. CASE Wait BY <2>1, TypeWait
    <2>2. CASE AcceptClient BY <2>2, TypeAccept
    <2>3. CASE \E f \in Fds : Take(f) BY <2>3, TypeTake
    <2>4. CASE Greet BY <2>4, GreetIs, TypeGreet
    <2>5. CASE ReadCommand BY <2>5, ReadIs, TypeIdle, TypeAstray, TypeRead DEF AstrayRead
    <2>50. CASE ReadShort BY <2>50, ShortIs, TypeShort
    <2>6. CASE ListDir BY <2>6, ListDirIs, TypeListGone, TypeList
    <2>7. CASE StartDownload BY <2>7, DownloadIs, TypeDownload
    <2>8. CASE CloseClient BY <2>8, CloseIs, TypeClose
    <2>9. CASE StartUpload BY <2>9, UploadArgsIs, TypeAstray, TypeUpload DEF AstrayArgs
    <2> QED BY <1>2, <2>1, <2>2, <2>3, <2>4, <2>5, <2>50, <2>6, <2>7, <2>8, <2>9 DEF LoopStep
<1>3. CASE \E t \in threads : ThreadStep(t)
    BY <1>3, ThreadIs, TypeSend, TypeSendGone, TypeSendEnd, TypeOpen, TypeStore, TypeOver,
        TypeAstray, TypeEnd
    DEF ThreadFacts, AstrayChunk
<1>4. CASE \E c \in Clients : ClientStep(c) BY <1>4, ClientIs, ClientType DEF ClientFacts
<1> QED BY <1>1, <1>2, <1>3, <1>4 DEF Next

\* The types hold what the run checks.
LEMMA TypeOKIs == TypeInv => TypeOK
<1> SUFFICES ASSUME TypeInv PROVE TypeOK OBVIOUS
<1>1. LoopTypeOK
    <2>1. \A f \in Fds : slot[f] \in Slots BY DEF TypeInv, LoopOK
    <2>2. ASSUME NEW f \in Fds PROVE /\ slot[f].init \in BOOLEAN /\
                                        slot[f].msg.msg \in {"none", "B", "D", "E", "F"}
              /\ ToSet(slot[f].dirs) \subseteq Dirs /\ slot[f].path \in DOMAIN SubDirs
        <3>1. slot[f].dirs \in Seq(Dirs) /\ slot[f].msg \in Messages \cup {NoMessage}
            BY <2>1 DEF Slots
        <3>2. ToSet(slot[f].dirs) \subseteq Dirs BY <3>1 DEF ToSet
        <3> QED BY <2>1, <3>1, <3>2, NoMessageIs DEF Slots
    <2>3. \A t \in threads : t.kind \in {"up", "down"} /\ t.fd \in Fds
        BY DEF TypeInv, LoopOK, ThreadOK
    <2> QED BY <2>2, <2>3 DEF LoopTypeOK, TypeInv, LoopOK
<1>2. \A f \in watched : Conn(f) # None
    <2> TAKE f \in watched
    <2>1. f \in Fds /\ \E c \in Clients : net[c].fd = f BY DEF TypeInv, LoopOK, FdsOK
    <2> QED BY <2>1, ConnIs, Zero DEF TypeInv
<1>3. \A p \in DOMAIN disk : ToSet(disk[p]) \subseteq {Original, Hole, Extra} \cup Clients
    <2> TAKE p \in DOMAIN disk
    <2>1. disk[p] \in Seq(Authors) BY DEF TypeInv, DiskOK
    <2> QED BY <2>1 DEF ToSet, Authors
<1>4. \A c \in Clients :
        /\ net[c].fd \in Fds \cup {None}
        /\ net[c].conn \in {"none", "queued", "open", "closed"}
        /\ cl[c].phase \in {"off", "new", "list", "menu", "down", "up", "quit", "dead", "broken",
            "astray"}
    BY DEF TypeInv, PeersOK, GotOK, Connections, ClientStates, Phases
<1> QED BY <1>1, <1>2, <1>3, <1>4 DEF TypeOK, TypeInv, DiskOK

(* FileServer.TypeOK, for any number of clients, directories and files:    *)
(* every variable holds what the code's declarations allow, and the epoll  *)
(* set holds open descriptors.                                             *)
THEOREM TypeCorrect == Spec => []TypeOK
<1>1. Init => TypeInv BY InitType
<1>2. TypeInv /\ [Next]_vars => TypeInv' BY NextType
<1> QED BY <1>1, <1>2, TypeOKIs, PTL DEF Spec
==============================================================================
