-------------------------- MODULE FpmStdio_proofs --------------------------
(***************************************************************************)
(* Proofs about FpmStdio, for every number of workers, descriptors, pipes, *)
(* deaths and descendants.                                                 *)
(***************************************************************************)
EXTENDS FpmStdio, FiniteSetTheorems, TLAPS

IO == [table : [Fd -> Pipe \cup {0}], epoll : SUBSET Reg, queue : SUBSET Ev,
       fd : [Ev -> Fd \cup {NoFd}], evfd : [Ev -> Fd \cup {NoFd}],
       index : [Ev -> BOOLEAN], full : [Pipe -> BOOLEAN]]

(***************************************************************************)
(* The inductive invariant.  Its parts are predicates of a value m of io,  *)
(* so that they can be said of the values between two calls of a step.     *)
(***************************************************************************)

\* A number stands for one pipe, and some record names it.
TableOK(m) ==
  /\ \A n, k \in Fd : m.table[n] = m.table[k] /\ m.table[n] # 0 => n = k
  /\ \A n \in Fd : m.table[n] # 0 => \E x \in Ev : rec[x[1]] # "none" /\ m.fd[x] = n

\* A record has two numbers, which it forgets one by one; its events are in
\* the queue at most as long.
RecordsOK(m) ==
  \A x \in Ev :
    /\ m.fd[x] \in {NoFd, m.evfd[x]}
    /\ x \in m.queue => m.index[x] /\ m.fd[x] # NoFd
    /\ rec[x[1]] = "none" <=> m.evfd[x] = NoFd
    /\ \A y \in Ev : rec[x[1]] # "none" /\ y[1] = x[1] /\ m.evfd[y] = m.evfd[x] => y = x

\* A registration belongs to a record.  It is found under the number of the
\* record as long as the pipe is open; after that it lasts as long as some
\* worker holds a copy of the read end.
EpollOK(m) ==
  \A e \in m.epoll :
    /\ rec[e.ev[1]] # "none" /\ e.pipe = mine[e.ev]
    /\ IF Open(m, e.pipe) THEN m.table[e.fd] = e.pipe /\ m.fd[e.ev] = e.fd
                          ELSE copies[e.pipe] # {}

Tidy(m) == TableOK(m) /\ RecordsOK(m) /\ EpollOK(m)

\* While no record was closed too early, the numbers, pipes, events and
\* registrations of the records correspond one to one.
Watched(m, x) == [fd |-> m.fd[x], pipe |-> mine[x], ev |-> x]

OneToOne(m) ==
  /\ \A x \in Ev : m.fd[x] # NoFd =>
       /\ m.table[m.fd[x]] = mine[x] /\ mine[x] # 0
       /\ x \in m.queue /\ Watched(m, x) \in m.epoll
       /\ \A y \in Ev : m.fd[y] = m.fd[x] => y = x
  /\ \A e \in m.epoll : m.fd[e.ev] = e.fd
  /\ \A p \in Pipe : m.full[p] \/ writers[p] # {} => Open(m, p)

\* Loop and workers.
LoopOK ==
  /\ bunch # {} => phase = "fire"
  /\ \A x \in bunch : rec[x[1]] # "none"
  /\ \A c \in Child : proc[c] # "none" => rec[c] = "listed"

WorkersOK ==
  /\ \A x \in bunch : io.fd[x] # NoFd
  /\ \A x \in Ev : /\ proc[x[1]] = "run" => io.fd[x] # NoFd /\ "worker" \in writers[mine[x]]
                   /\ rec[x[1]] = "closed" => io.fd[x] = NoFd

IInv == /\ TypeOK /\ Tidy(io) /\ LoopOK
        /\ ~leftopen => OneToOne(io) /\ WorkersOK

-----------------------------------------------------------------------------
(* Constants, and the least member of a set of numbers.                    *)

LEMMA Bounds ==
  /\ IsFiniteSet(Child) /\ NFd \in Nat /\ NPipes \in Nat
  /\ MaxDeaths \in Nat /\ MaxDescendants \in Nat
  /\ Fd \subseteq Nat /\ Pipe \subseteq Nat /\ 0 \notin Fd /\ 0 \notin Pipe /\ NoFd \notin Fd
  /\ IsFiniteSet(Fd) /\ IsFiniteSet(Pipe)
<1>1. NFd \in Nat /\ NPipes \in Nat BY StdioAssumption
<1>2. IsFiniteSet(Fd) /\ IsFiniteSet(Pipe) BY <1>1, FS_Interval DEF Fd, Pipe
<1> QED BY <1>1, <1>2, StdioAssumption DEF Fd, Pipe, NoFd

LEMMA Events ==
  /\ \A c \in Child : <<c, "stdout">> \in Ev /\ <<c, "stderr">> \in Ev
  /\ \A x \in Ev : /\ x[1] \in Child /\ x[2] \in {"stdout", "stderr"}
                   /\ x = <<x[1], x[2]>>
BY DEF Ev, Stream

LEMMA MinMember ==
  ASSUME NEW S \in SUBSET Nat, S # {}
  PROVE  Min(S) \in S
<1> DEFINE LessThan == {ij \in Nat \X Nat : ij[1] < ij[2]}
<1>1. IsWellFoundedOn(LessThan, Nat) BY NatLessThanWellFounded DEF OpToRel
<1>2. PICK i \in S : \A j \in S : ~(<<j, i>> \in LessThan)
  <2> HIDE DEF LessThan
  <2> QED BY <1>1, WFMin
<1>3. \A j \in S : i <= j
  <2> SUFFICES ASSUME NEW j \in S PROVE ~(j < i) OBVIOUS
  <2>1. <<j, i>> \in Nat \X Nat OBVIOUS
  <2> QED BY <1>2, <2>1
<1> QED BY <1>3 DEF Min

-----------------------------------------------------------------------------
(* What the functions do to the fields of io.                              *)

LEMMA CloseFields ==
  ASSUME NEW m \in IO, NEW n \in Fd \cup {NoFd}
  PROVE  LET k == Close(m, n) IN
         /\ k \in IO
         /\ k.queue = m.queue /\ k.fd = m.fd /\ k.evfd = m.evfd /\ k.index = m.index /\ k.full = m.full
         /\ \A j \in Fd : k.table[j] = IF j = n THEN 0 ELSE m.table[j]
         /\ k.epoll \subseteq m.epoll
         /\ \A e \in m.epoll : e \notin k.epoll <=>
              n \in Fd /\ m.table[n] # 0 /\ e.pipe = m.table[n] /\ copies[e.pipe] = {}
<1>0. m.table \in [Fd -> Pipe \cup {0}] /\ m.epoll \subseteq Reg /\ 0 \notin Fd /\ NoFd \notin Fd
  BY Bounds DEF IO
<1>1. CASE n \notin Fd \/ m.table[n] = 0 BY <1>0, <1>1 DEF Close
<1>2. CASE ~(n \notin Fd \/ m.table[n] = 0)
  <2> DEFINE E == IF copies[m.table[n]] = {} THEN {e \in m.epoll : e.pipe # m.table[n]} ELSE m.epoll
  <2>1. Close(m, n) = [m EXCEPT !.table = [m.table EXCEPT ![n] = 0], !.epoll = E]
    BY <1>2 DEF Close
  <2>2. E \subseteq m.epoll OBVIOUS
  <2>3. \A e \in m.epoll : e \notin E <=> e.pipe = m.table[n] /\ copies[e.pipe] = {} OBVIOUS
  <2>4. [m.table EXCEPT ![n] = 0] \in [Fd -> Pipe \cup {0}] BY <1>0
  <2> HIDE DEF E
  <2>5. Close(m, n) \in IO BY <2>1, <2>2, <2>4 DEF IO
  <2>6. Close(m, n).epoll = E /\ Close(m, n).table = [m.table EXCEPT ![n] = 0] BY <2>1 DEF IO
  <2>7. LET k == Close(m, n) IN
        k.queue = m.queue /\ k.fd = m.fd /\ k.evfd = m.evfd /\ k.index = m.index /\ k.full = m.full
    BY <2>1 DEF IO
  <2> QED BY <1>0, <1>2, <2>2, <2>3, <2>5, <2>6, <2>7
<1> QED BY <1>1, <1>2

LEMMA DelFields ==
  ASSUME NEW m \in IO, NEW x \in Ev
  PROVE  LET k == fpm_event_del(m, x) IN
         /\ k \in IO
         /\ k.table = m.table /\ k.fd = m.fd /\ k.evfd = m.evfd /\ k.full = m.full
         /\ \A y \in Ev \ {x} : k.index[y] = m.index[y]
         /\ m.index[x] /\ x \in m.queue =>
              /\ k.queue = m.queue \ {x}
              /\ k.epoll = {e \in m.epoll : ~(e.fd = m.evfd[x] /\ e.pipe = m.table[e.fd])}
         /\ ~(m.index[x] /\ x \in m.queue) => k = m
<1> DEFINE n   == m.evfd[x]
           hit == {e \in m.epoll : e.fd = n /\ e.pipe = m.table[n]}
<1>1. CASE m.index[x] /\ x \in m.queue
  <2>1. fpm_event_del(m, x) = [m EXCEPT !.queue = m.queue \ {x}, !.epoll = m.epoll \ hit,
                                        !.index = [m.index EXCEPT ![x] = (hit = {})]]
    BY <1>1 DEF fpm_event_del
  <2>2. m.epoll \ hit = {e \in m.epoll : ~(e.fd = m.evfd[x] /\ e.pipe = m.table[e.fd])} OBVIOUS
  <2>3. (hit = {}) \in BOOLEAN OBVIOUS
  <2> HIDE DEF hit
  <2>a. [m.index EXCEPT ![x] = (hit = {})] \in [Ev -> BOOLEAN] BY <2>3 DEF IO
  <2>b. m.queue \ {x} \in SUBSET Ev /\ m.epoll \ hit \in SUBSET Reg BY DEF IO
  <2>4. fpm_event_del(m, x) \in IO BY <2>1, <2>a, <2>b DEF IO
  <2>5. LET k == fpm_event_del(m, x) IN
        /\ k.table = m.table /\ k.fd = m.fd /\ k.evfd = m.evfd /\ k.full = m.full
        /\ k.queue = m.queue \ {x} /\ k.epoll = m.epoll \ hit
        /\ k.index = [m.index EXCEPT ![x] = (hit = {})]
    BY <2>1 DEF IO
  <2> QED BY <1>1, <2>2, <2>4, <2>5 DEF IO
<1>2. CASE ~(m.index[x] /\ x \in m.queue) BY <1>2 DEF fpm_event_del
<1> QED BY <1>1, <1>2

LEMMA EndedFields ==
  ASSUME NEW m \in IO, NEW x \in Ev
  PROVE  LET k == Ended(m, x)
             d == fpm_event_del(m, x) IN
         /\ k \in IO
         /\ k.queue = d.queue /\ k.evfd = m.evfd /\ k.index = d.index /\ k.full = m.full
         /\ k.fd = [m.fd EXCEPT ![x] = NoFd]
         /\ \A j \in Fd : k.table[j] = IF j = m.fd[x] THEN 0 ELSE m.table[j]
         /\ k.epoll \subseteq d.epoll
         /\ \A e \in d.epoll : e \notin k.epoll <=>
              /\ m.fd[x] \in Fd /\ m.table[m.fd[x]] # 0 /\ e.pipe = m.table[m.fd[x]]
              /\ copies[e.pipe] = {}
<1> DEFINE d == fpm_event_del(m, x)
           l == Close(d, m.fd[x])
<1>1. /\ d \in IO
      /\ d.table = m.table /\ d.fd = m.fd /\ d.evfd = m.evfd /\ d.full = m.full
  BY DelFields
<1>2. m.fd[x] \in Fd \cup {NoFd} BY DEF IO
<1>3. /\ l \in IO
      /\ l.queue = d.queue /\ l.fd = m.fd /\ l.evfd = m.evfd /\ l.index = d.index /\ l.full = m.full
      /\ \A j \in Fd : l.table[j] = IF j = m.fd[x] THEN 0 ELSE m.table[j]
      /\ l.epoll \subseteq d.epoll
      /\ \A e \in d.epoll : e \notin l.epoll <=>
           /\ m.fd[x] \in Fd /\ m.table[m.fd[x]] # 0 /\ e.pipe = m.table[m.fd[x]]
           /\ copies[e.pipe] = {}
  <2> HIDE DEF d
  <2>1. /\ l \in IO
        /\ l.queue = d.queue /\ l.fd = d.fd /\ l.evfd = d.evfd /\ l.index = d.index /\ l.full = d.full
        /\ \A j \in Fd : l.table[j] = IF j = m.fd[x] THEN 0 ELSE d.table[j]
        /\ l.epoll \subseteq d.epoll
        /\ \A e \in d.epoll : e \notin l.epoll <=>
             /\ m.fd[x] \in Fd /\ d.table[m.fd[x]] # 0 /\ e.pipe = d.table[m.fd[x]]
             /\ copies[e.pipe] = {}
    BY <1>1, <1>2, CloseFields
  <2> QED BY <1>1, <2>1
<1>4. Ended(m, x) = [l EXCEPT !.fd = [l.fd EXCEPT ![x] = NoFd]] BY DEF Ended
<1> HIDE DEF d, l
<1>5. LET k == Ended(m, x) IN
      /\ k \in IO
      /\ k.queue = l.queue /\ k.evfd = l.evfd /\ k.index = l.index /\ k.full = l.full
      /\ k.table = l.table /\ k.epoll = l.epoll /\ k.fd = [l.fd EXCEPT ![x] = NoFd]
  BY <1>3, <1>4 DEF IO
<1> QED BY <1>3, <1>5 DEF d

-----------------------------------------------------------------------------
(* The functions keep io tidy.                                             *)

LEMMA RegFields ==
  \A e \in Reg : e.fd \in Fd /\ e.pipe \in Pipe /\ e.ev \in Ev /\ e.pipe # 0
BY Bounds DEF Reg

LEMMA DelTidy ==
  ASSUME NEW m \in IO, NEW x \in Ev, Tidy(m)
  PROVE  Tidy(fpm_event_del(m, x))
<1> DEFINE k == fpm_event_del(m, x)
<1>1. /\ k.table = m.table /\ k.fd = m.fd /\ k.evfd = m.evfd
      /\ k.epoll \subseteq m.epoll /\ k.queue \subseteq m.queue
      /\ \A y \in k.queue : k.index[y] = m.index[y]
  <2>1. CASE m.index[x] /\ x \in m.queue
    <3> HIDE DEF k
    <3>1. k.table = m.table /\ k.fd = m.fd /\ k.evfd = m.evfd BY DelFields DEF k
    <3>2. k.queue = m.queue \ {x} /\ k.epoll \subseteq m.epoll BY <2>1, DelFields DEF k
    <3>3. \A y \in Ev \ {x} : k.index[y] = m.index[y] BY DelFields DEF k
    <3>4. m.queue \subseteq Ev BY DEF IO
    <3> QED BY <3>1, <3>2, <3>3, <3>4
  <2>2. CASE ~(m.index[x] /\ x \in m.queue) BY <2>2, DelFields
  <2> QED BY <2>1, <2>2
<1> HIDE DEF k
<1>2. TableOK(k) BY <1>1 DEF Tidy, TableOK
<1>3. RecordsOK(k) BY <1>1 DEF Tidy, RecordsOK
<1>4. EpollOK(k) BY <1>1 DEF Tidy, EpollOK, Open
<1> QED BY <1>2, <1>3, <1>4 DEF Tidy, k

LEMMA CloseTidy ==
  ASSUME NEW m \in IO, NEW n \in Fd \cup {NoFd}, Tidy(m)
  PROVE  Tidy(Close(m, n))
<1> DEFINE k == Close(m, n)
<1>1. /\ k.queue = m.queue /\ k.fd = m.fd /\ k.evfd = m.evfd /\ k.index = m.index
      /\ \A j \in Fd : k.table[j] = IF j = n THEN 0 ELSE m.table[j]
      /\ k.epoll \subseteq m.epoll
      /\ \A e \in m.epoll : e \notin k.epoll <=>
           n \in Fd /\ m.table[n] # 0 /\ e.pipe = m.table[n] /\ copies[e.pipe] = {}
  <2> HIDE DEF Tidy
  <2>1. /\ k.queue = m.queue /\ k.fd = m.fd /\ k.evfd = m.evfd /\ k.index = m.index
        /\ k.epoll \subseteq m.epoll
    BY CloseFields
  <2>2. \A j \in Fd : k.table[j] = IF j = n THEN 0 ELSE m.table[j] BY CloseFields
  <2>3. \A e \in m.epoll : e \notin k.epoll <=>
          n \in Fd /\ m.table[n] # 0 /\ e.pipe = m.table[n] /\ copies[e.pipe] = {}
    BY CloseFields
  <2> QED BY <2>1, <2>2, <2>3
<1> HIDE DEF k
<1>2. TableOK(k) BY <1>1 DEF Tidy, TableOK
<1>3. RecordsOK(k) BY <1>1 DEF Tidy, RecordsOK
<1>4. EpollOK(k)
  <2> SUFFICES ASSUME NEW e \in k.epoll
               PROVE  /\ rec[e.ev[1]] # "none" /\ e.pipe = mine[e.ev]
                      /\ IF Open(k, e.pipe) THEN k.table[e.fd] = e.pipe /\ k.fd[e.ev] = e.fd
                                            ELSE copies[e.pipe] # {}
    BY DEF EpollOK
  <2>1. e \in m.epoll /\ e.fd \in Fd /\ e.pipe \in Pipe /\ e.ev \in Ev /\ e.pipe # 0
    BY <1>1, RegFields DEF IO
  <2>2. /\ rec[e.ev[1]] # "none" /\ e.pipe = mine[e.ev]
        /\ IF Open(m, e.pipe) THEN m.table[e.fd] = e.pipe /\ m.fd[e.ev] = e.fd
                              ELSE copies[e.pipe] # {}
    BY <2>1 DEF Tidy, EpollOK
  <2>3. CASE ~Open(m, e.pipe)
    <3>1. ~Open(k, e.pipe) BY <1>1, <2>1, <2>3 DEF Open
    <3> QED BY <2>2, <2>3, <3>1
  <2>4. CASE Open(m, e.pipe) /\ e.fd # n BY <1>1, <2>1, <2>2, <2>4 DEF Open
  <2>5. CASE Open(m, e.pipe) /\ e.fd = n
    <3>1. m.table[n] = e.pipe /\ n \in Fd BY <2>1, <2>2, <2>5
    <3>2. copies[e.pipe] # {} BY <1>1, <2>1, <3>1
    <3>3. ~Open(k, e.pipe) BY <1>1, <2>1, <3>1 DEF Open, Tidy, TableOK
    <3> QED BY <2>2, <3>2, <3>3
  <2> QED BY <2>3, <2>4, <2>5
<1> QED BY <1>2, <1>3, <1>4 DEF Tidy, k

LEMMA EndedTidy ==
  ASSUME NEW m \in IO, NEW x \in Ev, Tidy(m)
  PROVE  Tidy(Ended(m, x))
<1> DEFINE d == fpm_event_del(m, x)
           l == Close(d, m.fd[x])
           k == Ended(m, x)
<1>1. d \in IO /\ Tidy(d) /\ d.fd = m.fd /\ d.table = m.table /\ x \notin d.queue
  <2>1. d \in IO /\ Tidy(d) /\ d.fd = m.fd /\ d.table = m.table BY DelFields, DelTidy
  <2>2. x \notin d.queue
    <3>1. x \in m.queue => m.index[x] BY DEF Tidy, RecordsOK
    <3>2. CASE x \in m.queue BY <3>1, <3>2, DelFields
    <3>3. CASE x \notin m.queue BY <3>3, DelFields
    <3> QED BY <3>2, <3>3
  <2> QED BY <2>1, <2>2
<1>2. m.fd[x] \in Fd \cup {NoFd} BY DEF IO
<1>3. /\ l \in IO /\ Tidy(l) /\ l.fd = m.fd /\ l.queue = d.queue
      /\ \A j \in Fd : l.table[j] = IF j = m.fd[x] THEN 0 ELSE d.table[j]
  <2> HIDE DEF d
  <2> QED BY <1>1, <1>2, CloseFields, CloseTidy
<1>4. k = [l EXCEPT !.fd = [l.fd EXCEPT ![x] = NoFd]] BY DEF Ended
<1> HIDE DEF d, l, k
<1>5. /\ k.table = l.table /\ k.epoll = l.epoll /\ k.queue = l.queue /\ k.evfd = l.evfd
      /\ k.index = l.index /\ k.fd[x] = NoFd /\ \A y \in Ev \ {x} : k.fd[y] = l.fd[y]
  BY <1>3, <1>4 DEF IO
<1>6. \A j \in Fd : l.table[j] # 0 => j # l.fd[x] BY <1>1, <1>3
<1>7. TableOK(k)
  <2>1. \A n, j \in Fd : k.table[n] = k.table[j] /\ k.table[n] # 0 => n = j
    BY <1>3, <1>5 DEF Tidy, TableOK
  <2>2. ASSUME NEW n \in Fd, k.table[n] # 0
        PROVE  \E y \in Ev : rec[y[1]] # "none" /\ k.fd[y] = n
    <3>1. PICK y \in Ev : rec[y[1]] # "none" /\ l.fd[y] = n
      BY <1>3, <1>5, <2>2 DEF Tidy, TableOK
    <3>2. y # x BY <1>5, <1>6, <2>2, <3>1
    <3> QED BY <1>5, <3>1, <3>2
  <2> QED BY <2>1, <2>2 DEF TableOK
<1>8. RecordsOK(k)
  <2> SUFFICES ASSUME NEW y \in Ev
               PROVE  /\ k.fd[y] \in {NoFd, k.evfd[y]}
                      /\ y \in k.queue => k.index[y] /\ k.fd[y] # NoFd
                      /\ rec[y[1]] = "none" <=> k.evfd[y] = NoFd
                      /\ \A z \in Ev : rec[y[1]] # "none" /\ z[1] = y[1] /\ k.evfd[z] = k.evfd[y] => z = y
    BY DEF RecordsOK
  <2>1. RecordsOK(l) BY <1>3 DEF Tidy
  <2>2. /\ l.fd[y] \in {NoFd, l.evfd[y]}
        /\ y \in l.queue => l.index[y] /\ l.fd[y] # NoFd
        /\ rec[y[1]] = "none" <=> l.evfd[y] = NoFd
        /\ \A z \in Ev : rec[y[1]] # "none" /\ z[1] = y[1] /\ l.evfd[z] = l.evfd[y] => z = y
    BY <2>1 DEF RecordsOK
  <2>3. CASE y = x BY <1>1, <1>3, <1>5, <2>2, <2>3
  <2>4. CASE y # x BY <1>5, <2>2, <2>4
  <2> QED BY <2>3, <2>4
<1>9. EpollOK(k)
  <2> SUFFICES ASSUME NEW e \in k.epoll
               PROVE  /\ rec[e.ev[1]] # "none" /\ e.pipe = mine[e.ev]
                      /\ IF Open(k, e.pipe) THEN k.table[e.fd] = e.pipe /\ k.fd[e.ev] = e.fd
                                            ELSE copies[e.pipe] # {}
    BY DEF EpollOK
  <2>1. e.fd \in Fd /\ e.pipe \in Pipe /\ e.ev \in Ev /\ e.pipe # 0
    BY <1>3, <1>5, RegFields DEF IO
  <2>2. /\ rec[e.ev[1]] # "none" /\ e.pipe = mine[e.ev]
        /\ IF Open(l, e.pipe) THEN l.table[e.fd] = e.pipe /\ l.fd[e.ev] = e.fd
                              ELSE copies[e.pipe] # {}
    BY <1>3, <1>5 DEF Tidy, EpollOK
  <2>3. Open(k, e.pipe) <=> Open(l, e.pipe) BY <1>5 DEF Open
  <2>4. ASSUME Open(l, e.pipe) PROVE e.ev # x BY <1>6, <2>1, <2>2, <2>4
  <2> QED BY <1>5, <2>1, <2>2, <2>3, <2>4
<1> QED BY <1>7, <1>8, <1>9 DEF Tidy, k

\* A pipe is read until nothing is left.
ReadAll(m, p) == [m EXCEPT !.full[p] = FALSE]

LEMMA ReadAllFields ==
  ASSUME NEW m \in IO, NEW p \in Pipe
  PROVE  LET k == ReadAll(m, p) IN
         /\ k \in IO /\ k.table = m.table /\ k.epoll = m.epoll /\ k.queue = m.queue
         /\ k.fd = m.fd /\ k.evfd = m.evfd /\ k.index = m.index
         /\ \A q \in Pipe : k.full[q] <=> q # p /\ m.full[q]
<1>1. [m.full EXCEPT ![p] = FALSE] \in [Pipe -> BOOLEAN] BY DEF IO
<1>2. ReadAll(m, p) = [m EXCEPT !.full = [m.full EXCEPT ![p] = FALSE]] BY DEF ReadAll
<1>3. \A q \in Pipe : [m.full EXCEPT ![p] = FALSE][q] <=> q # p /\ m.full[q] BY DEF IO
<1> QED BY <1>1, <1>2, <1>3 DEF IO

LEMMA ReadAllTidy ==
  ASSUME NEW m \in IO, NEW p \in Pipe, Tidy(m)
  PROVE  Tidy(ReadAll(m, p))
<1> DEFINE k == ReadAll(m, p)
<1>1. /\ k.table = m.table /\ k.epoll = m.epoll /\ k.queue = m.queue
      /\ k.fd = m.fd /\ k.evfd = m.evfd /\ k.index = m.index
  BY ReadAllFields
<1> HIDE DEF k
<1>2. TableOK(k) BY <1>1 DEF Tidy, TableOK
<1>3. RecordsOK(k) BY <1>1 DEF Tidy, RecordsOK
<1>4. EpollOK(k) BY <1>1 DEF Tidy, EpollOK, Open
<1> QED BY <1>2, <1>3, <1>4 DEF Tidy, k

LEMMA EndedType ==
  ASSUME NEW m \in IO, NEW x \in Ev
  PROVE  Ended(m, x) \in IO /\ Ended(m, x).evfd = m.evfd
<1> DEFINE k == Ended(m, x)
<1>1. k \in IO /\ k.evfd = m.evfd BY EndedFields
<1> QED BY <1>1

\* The three outcomes of fpm_stdio_child_said.
LEMMA SaidCases ==
  ASSUME NEW m \in IO, NEW x \in Ev, Tidy(m), rec[x[1]] # "none"
  PROVE  LET p == m.table[m.evfd[x]]
             k == fpm_stdio_child_said(m, x) IN
         /\ SaidStream(m, x) \in Ev /\ SaidStream(m, x)[1] = x[1]
         /\ p \in Pipe \cup {0} /\ m.evfd[x] \in Fd
         /\ p = 0 => k = Ended(m, SaidStream(m, x))
         /\ p # 0 /\ writers[p] = {} => k = Ended(ReadAll(m, p), SaidStream(m, x))
         /\ p # 0 /\ writers[p] # {} => k = ReadAll(m, p)
<1>1. SaidStream(m, x) \in Ev /\ SaidStream(m, x)[1] = x[1] BY Events DEF SaidStream
<1>2. m.evfd[x] \in Fd BY DEF IO, Tidy, RecordsOK
<1>3. m.table[m.evfd[x]] \in Pipe \cup {0} BY <1>2 DEF IO
<1> QED BY <1>1, <1>2, <1>3 DEF fpm_stdio_child_said, ReadAll

LEMMA SaidTidy ==
  ASSUME NEW m \in IO, NEW x \in Ev, Tidy(m), rec[x[1]] # "none"
  PROVE  /\ fpm_stdio_child_said(m, x) \in IO /\ Tidy(fpm_stdio_child_said(m, x))
         /\ fpm_stdio_child_said(m, x).evfd = m.evfd
<1> DEFINE p == m.table[m.evfd[x]]
           y == SaidStream(m, x)
           k == fpm_stdio_child_said(m, x)
<1>1. /\ y \in Ev /\ p \in Pipe \cup {0}
      /\ p = 0 => k = Ended(m, y)
      /\ p # 0 /\ writers[p] = {} => k = Ended(ReadAll(m, p), y)
      /\ p # 0 /\ writers[p] # {} => k = ReadAll(m, p)
  BY SaidCases
<1> HIDE DEF p, y, k
<1>2. CASE p = 0 BY <1>1, <1>2, EndedType, EndedTidy DEF k
<1>3. CASE p # 0
  <2>1. ReadAll(m, p) \in IO /\ Tidy(ReadAll(m, p)) /\ ReadAll(m, p).evfd = m.evfd
    BY <1>1, <1>3, ReadAllFields, ReadAllTidy
  <2>2. /\ Ended(ReadAll(m, p), y) \in IO /\ Tidy(Ended(ReadAll(m, p), y))
        /\ Ended(ReadAll(m, p), y).evfd = m.evfd
    BY <1>1, <2>1, EndedType, EndedTidy
  <2> QED BY <1>1, <1>3, <2>1, <2>2 DEF k
<1> QED BY <1>2, <1>3

\* The half of fpm_child_close that is about one stream.
ClosePart(k, x) ==
  IF k.fd[x] = NoFd THEN k
  ELSE Close(fpm_stdio_child_said(k, x), fpm_stdio_child_said(k, x).fd[x])

LEMMA ChildCloseParts ==
  ASSUME NEW m, NEW c
  PROVE  fpm_child_close(m, c) = ClosePart(ClosePart(m, <<c, "stdout">>), <<c, "stderr">>)
BY DEF fpm_child_close, ClosePart

LEMMA ClosePartTidy ==
  ASSUME NEW m \in IO, NEW x \in Ev, Tidy(m), rec[x[1]] # "none"
  PROVE  ClosePart(m, x) \in IO /\ Tidy(ClosePart(m, x))
<1> DEFINE r == fpm_stdio_child_said(m, x)
<1>1. r \in IO /\ Tidy(r) BY SaidTidy
<1>2. r.fd[x] \in Fd \cup {NoFd} BY <1>1 DEF IO
<1> HIDE DEF r
<1>3. Close(r, r.fd[x]) \in IO /\ Tidy(Close(r, r.fd[x])) BY <1>1, <1>2, CloseFields, CloseTidy
<1> QED BY <1>3 DEF ClosePart, r

LEMMA ChildCloseTidy ==
  ASSUME NEW m \in IO, NEW c \in Child, Tidy(m), rec[c] # "none"
  PROVE  fpm_child_close(m, c) \in IO /\ Tidy(fpm_child_close(m, c))
<1> DEFINE x == <<c, "stdout">>
           y == <<c, "stderr">>
<1>1. x \in Ev /\ y \in Ev /\ x[1] = c /\ y[1] = c BY Events
<1> HIDE DEF x, y
<1>2. ClosePart(m, x) \in IO /\ Tidy(ClosePart(m, x)) BY <1>1, ClosePartTidy
<1>3. LET k == ClosePart(m, x) IN ClosePart(k, y) \in IO /\ Tidy(ClosePart(k, y))
  BY <1>1, <1>2, ClosePartTidy
<1>4. fpm_child_close(m, c) = ClosePart(ClosePart(m, x), y) BY ChildCloseParts DEF x, y
<1> QED BY <1>3, <1>4

\* The half of fpm_postponed_child_free that is about one stream: its event
\* leaves the queue, its number is closed.
FreePart(k, x) ==
  IF k.fd[x] = NoFd THEN k ELSE Close(fpm_event_del(k, x), k.fd[x])

Given(k, x) == x \notin k.queue /\ (k.fd[x] # NoFd => k.table[k.fd[x]] = 0)

LEMMA FreePartTidy ==
  ASSUME NEW m \in IO, NEW x \in Ev, Tidy(m)
  PROVE  LET k == FreePart(m, x) IN
         /\ k \in IO /\ Tidy(k) /\ Given(k, x)
         /\ k.fd = m.fd /\ k.evfd = m.evfd
         /\ \A y \in Ev : Given(m, y) => Given(k, y)
         /\ \A y \in Ev \ {x} : k.index[y] = m.index[y]
         /\ \A y \in Ev \ {x} : y \in m.queue => y \in k.queue
<1> DEFINE d == fpm_event_del(m, x)
           k == Close(d, m.fd[x])
<1>0. \A y \in Ev : m.fd[y] \in Fd \cup {NoFd} BY DEF IO
<1>1. x \in m.queue => m.index[x] /\ m.fd[x] # NoFd BY DEF Tidy, RecordsOK
<1>2. CASE m.fd[x] = NoFd BY <1>1, <1>2 DEF FreePart, Given
<1>3. CASE m.fd[x] # NoFd
  <2>1. /\ d \in IO /\ Tidy(d) /\ d.fd = m.fd /\ d.evfd = m.evfd /\ d.table = m.table
        /\ \A y \in Ev \ {x} : d.index[y] = m.index[y]
    BY DelFields, DelTidy
  <2>2. d.queue = m.queue \ {x}
    <3>1. CASE x \in m.queue BY <1>1, <3>1, DelFields
    <3>2. CASE x \notin m.queue BY <3>2, DelFields
    <3> QED BY <3>1, <3>2
  <2>3. /\ k \in IO /\ Tidy(k) /\ k.fd = m.fd /\ k.evfd = m.evfd /\ k.queue = m.queue \ {x}
        /\ k.index = d.index
        /\ \A j \in Fd : k.table[j] = IF j = m.fd[x] THEN 0 ELSE m.table[j]
    <3> HIDE DEF d
    <3> QED BY SMTT(30), <1>0, <2>1, <2>2, CloseFields, CloseTidy
  <2>4. FreePart(m, x) = k BY <1>3 DEF FreePart
  <2> HIDE DEF k, d
  <2>5. Given(k, x) BY <1>0, <1>3, <2>3 DEF Given
  <2>6. \A y \in Ev : Given(m, y) => Given(k, y) BY <1>0, <2>3 DEF Given
  <2> QED BY <2>1, <2>3, <2>4, <2>5, <2>6
<1> QED BY <1>2, <1>3

-----------------------------------------------------------------------------
(* The functions keep records, pipes, events and registrations one to one. *)

LEMMA ReadAllOneToOne ==
  ASSUME NEW m \in IO, NEW p \in Pipe, OneToOne(m)
  PROVE  OneToOne(ReadAll(m, p))
<1> DEFINE k == ReadAll(m, p)
<1>1. /\ k.table = m.table /\ k.epoll = m.epoll /\ k.queue = m.queue /\ k.fd = m.fd
      /\ \A q \in Pipe : k.full[q] => m.full[q]
  BY ReadAllFields
<1> HIDE DEF k
<1> QED BY <1>1 DEF OneToOne, Watched, Open, k

\* A stream nobody can write to any more is given up: nothing else changes.
LEMMA EndedOneToOne ==
  ASSUME NEW m \in IO, NEW x \in Ev, Tidy(m), OneToOne(m), m.fd[x] # NoFd,
         writers[mine[x]] = {}, ~m.full[mine[x]]
  PROVE  OneToOne(Ended(m, x)) /\ Ended(m, x).fd = [m.fd EXCEPT ![x] = NoFd]
<1> DEFINE d == fpm_event_del(m, x)
           k == Ended(m, x)
           n == m.fd[x]
<1>1. /\ n \in Fd /\ n = m.evfd[x] /\ m.table[n] = mine[x] /\ mine[x] # 0 /\ mine[x] \in Pipe
      /\ x \in m.queue /\ m.index[x]
      /\ \A y \in Ev : m.fd[y] = n => y = x
  <2>1. n \in Fd /\ n = m.evfd[x] /\ m.index[x]
    <3>1. x \in m.queue BY DEF OneToOne
    <3> QED BY <3>1 DEF IO, Tidy, RecordsOK
  <2>2. m.table[n] = mine[x] /\ mine[x] # 0 /\ x \in m.queue /\ \A y \in Ev : m.fd[y] = n => y = x
    BY DEF OneToOne
  <2> QED BY <2>1, <2>2 DEF IO
<1>2. /\ k.fd = [m.fd EXCEPT ![x] = NoFd]
      /\ \A j \in Fd : k.table[j] = IF j = n THEN 0 ELSE m.table[j]
      /\ k.full = m.full
  <2>1. k.fd = [m.fd EXCEPT ![x] = NoFd] /\ k.full = m.full BY EndedFields
  <2>2. \A j \in Fd : k.table[j] = IF j = n THEN 0 ELSE m.table[j] BY EndedFields
  <2> QED BY <2>1, <2>2
<1>3. d.queue = m.queue \ {x} /\ d.epoll = {e \in m.epoll : ~(e.fd = n /\ e.pipe = m.table[e.fd])}
  BY <1>1, DelFields
<1>4. /\ k.queue = d.queue /\ k.epoll \subseteq d.epoll
      /\ \A e \in d.epoll : e \notin k.epoll => e.pipe = m.table[n]
  <2>1. k.queue = d.queue /\ k.epoll \subseteq d.epoll BY EndedFields
  <2>2. \A e \in d.epoll : e \notin k.epoll <=>
          /\ n \in Fd /\ m.table[n] # 0 /\ e.pipe = m.table[n] /\ copies[e.pipe] = {}
    BY EndedFields
  <2> QED BY <2>1, <2>2
<1>5. \A y \in Ev : y # x => k.fd[y] = m.fd[y] BY <1>2 DEF IO
<1>6. k.fd[x] = NoFd BY <1>2 DEF IO
<1> HIDE DEF d, k, n
<1>7. ASSUME NEW y \in Ev, k.fd[y] # NoFd
      PROVE  /\ k.table[k.fd[y]] = mine[y] /\ mine[y] # 0
             /\ y \in k.queue /\ Watched(k, y) \in k.epoll
             /\ \A z \in Ev : k.fd[z] = k.fd[y] => z = y
  <2>1. y # x /\ k.fd[y] = m.fd[y] /\ m.fd[y] \in Fd /\ m.fd[y] # n
    BY <1>1, <1>5, <1>6, <1>7 DEF IO
  <2>2. /\ m.table[m.fd[y]] = mine[y] /\ mine[y] # 0 /\ y \in m.queue
        /\ Watched(m, y) \in m.epoll /\ \A z \in Ev : m.fd[z] = m.fd[y] => z = y
    BY <1>7, <2>1 DEF OneToOne
  <2>3. k.table[k.fd[y]] = mine[y] BY <1>2, <2>1, <2>2
  <2>4. Watched(k, y) = Watched(m, y) BY <2>1 DEF Watched
  <2>5. Watched(m, y) \in d.epoll BY <1>3, <2>1, <2>2 DEF Watched
  <2>6. Watched(m, y).pipe # m.table[n]
    <3>1. m.table[n] # m.table[m.fd[y]] BY <1>1, <2>1 DEF Tidy, TableOK
    <3> QED BY <2>2, <3>1 DEF Watched
  <2>7. Watched(k, y) \in k.epoll BY <1>4, <2>4, <2>5, <2>6
  <2>8. \A z \in Ev : k.fd[z] = k.fd[y] => z = y BY <1>5, <1>6, <1>7, <2>1, <2>2
  <2> QED BY <1>3, <1>4, <2>1, <2>2, <2>3, <2>7, <2>8
<1>8. ASSUME NEW e \in k.epoll PROVE k.fd[e.ev] = e.fd
  <2>1. e \in m.epoll /\ ~(e.fd = n /\ e.pipe = m.table[e.fd]) BY <1>3, <1>4
  <2>2. e.ev \in Ev /\ m.fd[e.ev] = e.fd /\ e.pipe = mine[e.ev]
    BY <2>1, RegFields DEF OneToOne, Tidy, EpollOK, IO
  <2>3. e.ev # x BY <1>1, <2>1, <2>2 DEF n
  <2> QED BY <1>5, <2>2, <2>3
<1>9. ASSUME NEW p \in Pipe, k.full[p] \/ writers[p] # {} PROVE Open(k, p)
  <2>1. p # mine[x] BY <1>2, <1>9
  <2>2. Open(m, p) BY <1>2, <1>9 DEF OneToOne
  <2>3. PICK j \in Fd : m.table[j] = p BY <2>2 DEF Open
  <2>4. j # n BY <1>1, <2>1, <2>3
  <2> QED BY <1>2, <2>3, <2>4 DEF Open
<1>10. OneToOne(k) BY <1>7, <1>8, <1>9 DEF OneToOne
<1> QED BY <1>2, <1>10 DEF k

\* The event of a record is taken for the right stream.
LEMMA SaidStreamRight ==
  ASSUME NEW m \in IO, NEW x \in Ev, Tidy(m), m.fd[x] # NoFd
  PROVE  SaidStream(m, x) = x
<1>1. m.fd[x] = m.evfd[x] /\ rec[x[1]] # "none" BY DEF Tidy, RecordsOK
<1>2. CASE x[2] = "stdout" BY <1>1, <1>2, Events DEF SaidStream
<1>3. CASE x[2] = "stderr"
  <2> DEFINE y == <<x[1], "stdout">>
  <2>1. y \in Ev /\ y[1] = x[1] /\ y # x BY <1>3, Events
  <2>2. m.evfd[y] # m.evfd[x] BY <1>1, <2>1 DEF Tidy, RecordsOK
  <2>3. m.fd[y] # m.evfd[x]
    <3>1. m.fd[y] \in {NoFd, m.evfd[y]} BY <2>1 DEF Tidy, RecordsOK
    <3> QED BY <1>1, <2>2, <3>1
  <2> QED BY <1>3, <2>3, Events DEF SaidStream
<1> QED BY <1>2, <1>3, Events

LEMMA SaidOneToOne ==
  ASSUME NEW m \in IO, NEW x \in Ev, Tidy(m), OneToOne(m), m.fd[x] # NoFd
  PROVE  LET k == fpm_stdio_child_said(m, x) IN
         /\ OneToOne(k)
         /\ writers[mine[x]] = {} => k.fd = [m.fd EXCEPT ![x] = NoFd]
         /\ writers[mine[x]] # {} => k.fd = m.fd
<1> DEFINE k == fpm_stdio_child_said(m, x)
           p == mine[x]
           r == ReadAll(m, p)
<1>1. m.fd[x] = m.evfd[x] /\ rec[x[1]] # "none" BY DEF Tidy, RecordsOK
<1>2. m.table[m.evfd[x]] = p /\ p # 0 BY <1>1 DEF OneToOne
<1>3. SaidStream(m, x) = x BY SaidStreamRight
<1>4. /\ p \in Pipe
      /\ writers[p] = {} => k = Ended(r, x)
      /\ writers[p] # {} => k = r
  <2> HIDE DEF k, r, p
  <2> QED BY <1>1, <1>2, <1>3, SaidCases DEF k, r
<1> HIDE DEF k, p
<1>5. r \in IO /\ Tidy(r) /\ OneToOne(r) /\ r.fd = m.fd /\ ~r.full[p]
  BY <1>4, ReadAllFields, ReadAllTidy, ReadAllOneToOne
<1> HIDE DEF r
<1>6. CASE writers[p] = {}
  <2>1. OneToOne(Ended(r, x)) /\ Ended(r, x).fd = [r.fd EXCEPT ![x] = NoFd]
    BY <1>5, <1>6, EndedOneToOne DEF p
  <2> QED BY <1>4, <1>5, <1>6, <2>1 DEF k, p
<1>7. CASE writers[p] # {} BY <1>4, <1>5, <1>7 DEF k, p
<1> QED BY <1>6, <1>7

LEMMA ClosePartOneToOne ==
  ASSUME NEW m \in IO, NEW x \in Ev, Tidy(m), OneToOne(m), rec[x[1]] # "none",
         m.fd[x] # NoFd => writers[mine[x]] = {}
  PROVE  OneToOne(ClosePart(m, x)) /\ ClosePart(m, x).fd = [m.fd EXCEPT ![x] = NoFd]
<1>1. CASE m.fd[x] = NoFd
  <2>1. m.fd = [m.fd EXCEPT ![x] = NoFd] BY <1>1 DEF IO
  <2> QED BY <1>1, <2>1 DEF ClosePart
<1>2. CASE m.fd[x] # NoFd
  <2> DEFINE r == fpm_stdio_child_said(m, x)
  <2>1. OneToOne(r) /\ r.fd = [m.fd EXCEPT ![x] = NoFd] BY <1>2, SaidOneToOne
  <2>2. r.fd[x] = NoFd BY <2>1 DEF IO
  <2>3. ClosePart(m, x) = Close(r, NoFd) BY <1>2, <2>2 DEF ClosePart
  <2>4. Close(r, NoFd) = r BY Bounds DEF Close
  <2> QED BY <2>1, <2>3, <2>4
<1> QED BY <1>1, <1>2

LEMMA ChildCloseOneToOne ==
  ASSUME NEW m \in IO, NEW c \in Child, Tidy(m), OneToOne(m), rec[c] # "none",
         \A s \in Stream : m.fd[c, s] # NoFd => writers[mine[c, s]] = {}
  PROVE  /\ OneToOne(fpm_child_close(m, c))
         /\ \A z \in Ev : fpm_child_close(m, c).fd[z] = IF z[1] = c THEN NoFd ELSE m.fd[z]
<1> DEFINE x == <<c, "stdout">>
           y == <<c, "stderr">>
           k == ClosePart(m, x)
           l == ClosePart(k, y)
<1>1. /\ x \in Ev /\ y \in Ev /\ x[1] = c /\ y[1] = c /\ x # y
      /\ \A z \in Ev : z[1] = c => z \in {x, y}
  BY Events
<1>2. /\ m.fd[x] # NoFd => writers[mine[x]] = {}
      /\ m.fd[y] # NoFd => writers[mine[y]] = {}
  BY DEF Stream
<1> HIDE DEF x, y
<1>3. k \in IO /\ Tidy(k) /\ OneToOne(k) /\ k.fd = [m.fd EXCEPT ![x] = NoFd]
  BY <1>1, <1>2, ClosePartTidy, ClosePartOneToOne
<1> HIDE DEF k
<1>4. k.fd[y] = m.fd[y] BY <1>1, <1>3 DEF IO
<1>5. OneToOne(l) /\ l.fd = [k.fd EXCEPT ![y] = NoFd]
  BY ZenonT(60), <1>1, <1>2, <1>3, <1>4, ClosePartOneToOne
<1>6. \A z \in Ev : l.fd[z] = IF z[1] = c THEN NoFd ELSE m.fd[z]
  <2> HIDE DEF l
  <2> QED BY <1>1, <1>3, <1>5 DEF IO
<1>7. fpm_child_close(m, c) = l BY ChildCloseParts DEF x, y, k
<1> QED BY <1>5, <1>6, <1>7

\* fpm_postponed_child_free: queue, table and record of c are empty then.
LEMMA FreeFields ==
  ASSUME NEW m \in IO, NEW c \in Child, Tidy(m)
  PROVE  \E b \in IO :
         LET k == fpm_postponed_child_free(m, c) IN
         /\ Tidy(b) /\ b.fd = m.fd /\ b.evfd = m.evfd
         /\ \A z \in Ev : z[1] = c => Given(b, z)
         /\ (\A z \in Ev : z[1] = c => m.fd[z] = NoFd) => b = m
         /\ k \in IO
         /\ k.table = b.table /\ k.epoll = b.epoll /\ k.queue = b.queue /\ k.full = b.full
         /\ \A z \in Ev : /\ k.fd[z] = IF z[1] = c THEN NoFd ELSE m.fd[z]
                          /\ k.evfd[z] = IF z[1] = c THEN NoFd ELSE m.evfd[z]
                          /\ z[1] # c => k.index[z] = b.index[z]
<1> DEFINE x == <<c, "stdout">>
           y == <<c, "stderr">>
           a == FreePart(m, x)
           b == FreePart(a, y)
           Fresh(f, v) == [z \in Ev |-> IF z[1] = c THEN v ELSE f[z]]
           k == fpm_postponed_child_free(m, c)
<1>1. /\ x \in Ev /\ y \in Ev /\ x[1] = c /\ y[1] = c
      /\ \A z \in Ev : z[1] = c => z \in {x, y}
  BY Events
<1>2. k = [b EXCEPT !.fd = Fresh(b.fd, NoFd), !.evfd = Fresh(b.evfd, NoFd),
                    !.index = Fresh(b.index, FALSE)]
  BY DEF fpm_postponed_child_free, FreePart
<1>3. (\A z \in Ev : z[1] = c => m.fd[z] = NoFd) => b = m
  <2>1. ASSUME \A z \in Ev : z[1] = c => m.fd[z] = NoFd PROVE b = m
    <3>1. m.fd[x] = NoFd /\ m.fd[y] = NoFd BY <1>1, <2>1
    <3>2. a = m BY <3>1 DEF FreePart
    <3> QED BY <3>1, <3>2 DEF FreePart
  <2> QED BY <2>1
<1> HIDE DEF x, y, k
<1>4. a \in IO /\ Tidy(a) /\ Given(a, x) /\ a.fd = m.fd /\ a.evfd = m.evfd
  BY <1>1, FreePartTidy
<1> HIDE DEF a
<1>5. /\ b \in IO /\ Tidy(b) /\ Given(b, y) /\ b.fd = m.fd /\ b.evfd = m.evfd
      /\ Given(a, x) => Given(b, x)
  BY <1>1, <1>4, FreePartTidy
<1> HIDE DEF b
<1>6. \A z \in Ev : z[1] = c => Given(b, z) BY <1>1, <1>4, <1>5
<1>7. /\ Fresh(b.fd, NoFd) \in [Ev -> Fd \cup {NoFd}]
      /\ Fresh(b.evfd, NoFd) \in [Ev -> Fd \cup {NoFd}]
      /\ Fresh(b.index, FALSE) \in [Ev -> BOOLEAN]
  BY <1>5 DEF IO
<1>8. \A z \in Ev : /\ Fresh(b.fd, NoFd)[z] = IF z[1] = c THEN NoFd ELSE m.fd[z]
                    /\ Fresh(b.evfd, NoFd)[z] = IF z[1] = c THEN NoFd ELSE m.evfd[z]
                    /\ z[1] # c => Fresh(b.index, FALSE)[z] = b.index[z]
  BY <1>5
<1> HIDE DEF Fresh
<1>9. /\ k \in IO
      /\ k.table = b.table /\ k.epoll = b.epoll /\ k.queue = b.queue /\ k.full = b.full
      /\ k.fd = Fresh(b.fd, NoFd) /\ k.evfd = Fresh(b.evfd, NoFd) /\ k.index = Fresh(b.index, FALSE)
  BY <1>2, <1>5, <1>7 DEF IO
<1> HIDE DEF k
<1>10. \A z \in Ev : /\ k.fd[z] = IF z[1] = c THEN NoFd ELSE m.fd[z]
                     /\ k.evfd[z] = IF z[1] = c THEN NoFd ELSE m.evfd[z]
                     /\ z[1] # c => k.index[z] = b.index[z]
  BY <1>8, <1>9
<1>11. LET w == b IN
       /\ Tidy(w) /\ w.fd = m.fd /\ w.evfd = m.evfd
       /\ \A z \in Ev : z[1] = c => Given(w, z)
       /\ (\A z \in Ev : z[1] = c => m.fd[z] = NoFd) => w = m
       /\ k.table = w.table /\ k.epoll = w.epoll /\ k.queue = w.queue /\ k.full = w.full
  BY <1>3, <1>5, <1>6, <1>9
<1>12. b \in IO BY <1>5
<1>13. WITNESS b \in IO
<1> QED BY <1>9, <1>10, <1>11 DEF k

\* fpm_event_add of an event that is not in the queue.
LEMMA AddFields ==
  ASSUME NEW m \in IO, NEW x \in Ev, x \notin m.queue, NEW n \in Fd, m.table[n] \in Pipe
  PROVE  LET k == fpm_event_add(m, x, n) IN
         /\ k \in IO /\ k.table = m.table /\ k.full = m.full
         /\ k.queue = m.queue \cup {x}
         /\ k.fd = [m.fd EXCEPT ![x] = n] /\ k.evfd = [m.evfd EXCEPT ![x] = n]
         /\ k.index = [m.index EXCEPT ![x] = TRUE]
         /\ k.epoll = m.epoll \cup {[fd |-> n, pipe |-> m.table[n], ev |-> x]}
<1> DEFINE F == [m.fd EXCEPT ![x] = n]
           G == [m.evfd EXCEPT ![x] = n]
           I == [m.index EXCEPT ![x] = TRUE]
           E == m.epoll \cup {[fd |-> n, pipe |-> m.table[n], ev |-> x]}
           Q == m.queue \cup {x}
<1>1. fpm_event_add(m, x, n) =
        [m EXCEPT !.fd = F, !.evfd = G, !.index = I, !.queue = Q, !.epoll = E]
  BY DEF fpm_event_add, IO
<1>2. /\ F \in [Ev -> Fd \cup {NoFd}] /\ G \in [Ev -> Fd \cup {NoFd}] /\ I \in [Ev -> BOOLEAN]
      /\ Q \in SUBSET Ev
  BY DEF IO
<1>3. E \in SUBSET Reg BY DEF IO, Reg
<1> HIDE DEF F, G, I, E, Q
<1>4. /\ fpm_event_add(m, x, n) \in IO
      /\ LET k == fpm_event_add(m, x, n) IN
         /\ k.table = m.table /\ k.full = m.full /\ k.queue = Q
         /\ k.fd = F /\ k.evfd = G /\ k.index = I /\ k.epoll = E
  BY <1>1, <1>2, <1>3 DEF IO
<1> QED BY <1>4 DEF F, G, I, E, Q

\* pipe() and pipe(): two numbers and two pipes of which nothing is left.
LEMMA LeastOf ==
  ASSUME NEW S \in SUBSET Nat, IsFiniteSet(S), Cardinality(S) >= 1
  PROVE  Min(S) \in S
<1>1. S # {} BY FS_EmptySet
<1> QED BY <1>1, MinMember

LEMMA OneLess ==
  ASSUME NEW S \in SUBSET Nat, IsFiniteSet(S), NEW s \in S, NEW k \in Nat, Cardinality(S) >= k + 1
  PROVE  S \ {s} \in SUBSET Nat /\ IsFiniteSet(S \ {s}) /\ Cardinality(S \ {s}) >= k
<1>1. IsFiniteSet(S \ {s}) /\ Cardinality(S \ {s}) = Cardinality(S) - 1 BY FS_RemoveElement
<1>2. Cardinality(S) \in Nat BY FS_CardinalityType
<1> QED BY <1>1, <1>2

LEMMA FreeNumbers ==
  ASSUME Cardinality(FreeFds) >= 4
  PROVE  LET out == Min(FreeFds)
             err == Min(FreeFds \ {out, Min(FreeFds \ {out})}) IN
         out \in FreeFds /\ err \in FreeFds /\ out # err
<1> DEFINE out == Min(FreeFds)
           A   == FreeFds \ {out}
           mid == Min(A)
           B   == A \ {mid}
<1>1. FreeFds \in SUBSET Nat /\ IsFiniteSet(FreeFds) /\ Cardinality(FreeFds) \in Nat
  <2>1. FreeFds \subseteq Fd BY DEF FreeFds
  <2> QED BY <2>1, Bounds, FS_Subset, FS_CardinalityType
<1>2. out \in FreeFds BY <1>1, LeastOf
<1> HIDE DEF out
<1>3. A \in SUBSET Nat /\ IsFiniteSet(A) /\ Cardinality(A) >= 3 BY <1>1, <1>2, OneLess
<1>4. Cardinality(A) \in Nat BY <1>3, FS_CardinalityType
<1> HIDE DEF A
<1>5. mid \in A BY <1>3, <1>4, LeastOf
<1> HIDE DEF mid
<1>6. B \in SUBSET Nat /\ IsFiniteSet(B) /\ Cardinality(B) >= 2 BY <1>3, <1>4, <1>5, OneLess
<1>7. Cardinality(B) \in Nat BY <1>6, FS_CardinalityType
<1> HIDE DEF B
<1>8. Min(B) \in B BY <1>6, <1>7, LeastOf
<1>9. B = FreeFds \ {out, mid} BY DEF A, B
<1> QED BY <1>2, <1>8, <1>9 DEF A, out, mid

LEMMA FreeEnds ==
  ASSUME Cardinality(FreePipes) >= 2
  PROVE  LET p == Min(FreePipes)
             q == Min(FreePipes \ {p}) IN
         p \in FreePipes /\ q \in FreePipes /\ p # q
<1> DEFINE p == Min(FreePipes)
           A == FreePipes \ {p}
<1>1. FreePipes \in SUBSET Nat /\ IsFiniteSet(FreePipes) /\ Cardinality(FreePipes) \in Nat
  <2>1. FreePipes \subseteq Pipe BY DEF FreePipes
  <2> QED BY <2>1, Bounds, FS_Subset, FS_CardinalityType
<1>2. p \in FreePipes BY <1>1, LeastOf
<1> HIDE DEF p
<1>3. A \in SUBSET Nat /\ IsFiniteSet(A) /\ Cardinality(A) >= 1 BY <1>1, <1>2, OneLess
<1> HIDE DEF A
<1>4. Min(A) \in A BY <1>3, LeastOf
<1> QED BY <1>2, <1>4 DEF A, p

-----------------------------------------------------------------------------
(* Every step keeps the invariant.                                         *)

LEMMA TypeFacts ==
  ASSUME TypeOK
  PROVE  io \in IO
BY DEF TypeOK, IO

\* What a record does not lose when its state changes.
LEMMA TidyKept ==
  ASSUME NEW k, Tidy(k), io' = k, mine' = mine, copies' = copies,
         \A x \in Ev : rec'[x[1]] = "none" <=> rec[x[1]] = "none", k \in IO
  PROVE  Tidy(io)'
<1>1. TableOK(io)' BY DEF Tidy, TableOK
<1>2. RecordsOK(io)' BY DEF Tidy, RecordsOK
<1>3. EpollOK(io)'
  <2>1. \A e \in k.epoll : e.ev \in Ev BY RegFields DEF IO
  <2> QED BY <2>1 DEF Tidy, EpollOK, Open
<1> QED BY <1>1, <1>2, <1>3 DEF Tidy

\* Workers give up their copies of read ends: what the master has closed
\* meanwhile leaves the epoll set, and nothing else.
LEMMA DropFields ==
  ASSUME TypeOK, NEW c \in Child, DropCopies(c)
  PROVE  /\ io' \in IO /\ copies' \in [Pipe -> SUBSET Child]
         /\ io'.table = io.table /\ io'.queue = io.queue /\ io'.fd = io.fd /\ io'.evfd = io.evfd
         /\ io'.index = io.index /\ io'.full = io.full
         /\ io'.epoll \subseteq io.epoll
         /\ \A e \in io'.epoll : Open(io, e.pipe) \/ copies'[e.pipe] # {}
         /\ \A e \in io.epoll : Open(io, e.pipe) => e \in io'.epoll
<1> DEFINE E == {e \in io.epoll : Open(io, e.pipe) \/ copies'[e.pipe] # {}}
<1>1. io \in IO BY TypeFacts
<1>2. io' = [io EXCEPT !.epoll = E] /\ copies' = [p \in Pipe |-> copies[p] \ {c}] BY DEF DropCopies
<1>3. copies' \in [Pipe -> SUBSET Child] BY <1>2 DEF TypeOK
<1>4. E \in SUBSET Reg BY <1>1 DEF IO
<1>5. /\ E \subseteq io.epoll
      /\ \A e \in E : Open(io, e.pipe) \/ copies'[e.pipe] # {}
      /\ \A e \in io.epoll : Open(io, e.pipe) => e \in E
  OBVIOUS
<1> HIDE DEF E
<1> QED BY <1>1, <1>2, <1>3, <1>4, <1>5 DEF IO

LEMMA DropTidy ==
  ASSUME TypeOK, Tidy(io), NEW c \in Child, DropCopies(c), rec' = rec, mine' = mine
  PROVE  Tidy(io)'
<1>1. /\ io'.table = io.table /\ io'.queue = io.queue /\ io'.fd = io.fd /\ io'.evfd = io.evfd
      /\ io'.index = io.index /\ io'.epoll \subseteq io.epoll
      /\ \A e \in io'.epoll : Open(io, e.pipe) \/ copies'[e.pipe] # {}
  BY DropFields
<1>2. TableOK(io)' BY <1>1 DEF Tidy, TableOK
<1>3. RecordsOK(io)' BY <1>1 DEF Tidy, RecordsOK
<1>4. EpollOK(io)' BY <1>1 DEF Tidy, EpollOK, Open
<1> QED BY <1>2, <1>3, <1>4 DEF Tidy

LEMMA DropOneToOne ==
  ASSUME TypeOK, Tidy(io), OneToOne(io), NEW c \in Child, DropCopies(c), mine' = mine,
         \A p \in Pipe : writers'[p] # {} => writers[p] # {}
  PROVE  OneToOne(io)'
<1>1. /\ io'.table = io.table /\ io'.queue = io.queue /\ io'.fd = io.fd /\ io'.full = io.full
      /\ io'.epoll \subseteq io.epoll
      /\ \A e \in io.epoll : Open(io, e.pipe) => e \in io'.epoll
  BY DropFields
<1>2. ASSUME NEW x \in Ev, io.fd[x] # NoFd
      PROVE  Watched(io, x) \in io'.epoll
  <2>1. io.table[io.fd[x]] = mine[x] /\ Watched(io, x) \in io.epoll BY <1>2 DEF OneToOne
  <2>2. io.fd[x] \in Fd BY <1>2, TypeFacts DEF IO
  <2>3. Open(io, Watched(io, x).pipe) BY <2>1, <2>2 DEF Open, Watched
  <2> QED BY <1>1, <2>1, <2>3
<1> QED BY <1>1, <1>2 DEF OneToOne, Watched, Open

LEMMA InitInv == Init => IInv
<1> SUFFICES ASSUME Init PROVE IInv OBVIOUS
<1>1. TypeOK
  <2>1. \A n \in Fd : 0 \in Pipe \cup {0} OBVIOUS
  <2>2. io \in [table : [Fd -> Pipe \cup {0}], epoll : SUBSET Reg, queue : SUBSET Ev,
                fd : [Ev -> Fd \cup {NoFd}], evfd : [Ev -> Fd \cup {NoFd}],
                index : [Ev -> BOOLEAN], full : [Pipe -> BOOLEAN]]
    BY DEF Init
  <2>3. 0 \in 0 .. MaxDeaths /\ 0 \in 0 .. MaxDescendants BY Bounds
  <2> QED BY <2>2, <2>3 DEF Init, TypeOK
<1>2. Tidy(io)
  <2>1. TableOK(io) BY DEF Init, TableOK
  <2>2. RecordsOK(io) BY Events DEF Init, RecordsOK
  <2>3. EpollOK(io) BY DEF Init, EpollOK
  <2> QED BY <2>1, <2>2, <2>3 DEF Tidy
<1>3. LoopOK BY DEF Init, LoopOK
<1>4. OneToOne(io) BY DEF Init, OneToOne
<1>5. WorkersOK BY Events DEF Init, WorkersOK
<1> QED BY <1>1, <1>2, <1>3, <1>4, <1>5 DEF IInv

\* What fpm_children_make does, with names for what it takes.
Made(c, x, y, out, err, p, q) ==
  /\ x[1] = c /\ y[1] = c /\ x # y /\ \A z \in Ev : z[1] = c => z \in {x, y}
  /\ out # err /\ io.table[out] = 0 /\ io.table[err] = 0
  /\ p # q /\ ~Open(io, p) /\ ~Open(io, q)
  /\ \A e \in io.epoll : e.pipe # p /\ e.pipe # q
  /\ io' \in IO
  /\ io'.table = [[io.table EXCEPT ![out] = p] EXCEPT ![err] = q]
  /\ \A k \in Pipe : io'.full[k] => io.full[k] /\ k # p /\ k # q
  /\ io'.queue = io.queue \cup {x, y}
  /\ io'.fd = [[io.fd EXCEPT ![x] = out] EXCEPT ![y] = err]
  /\ io'.evfd = [[io.evfd EXCEPT ![x] = out] EXCEPT ![y] = err]
  /\ io'.index = [[io.index EXCEPT ![x] = TRUE] EXCEPT ![y] = TRUE]
  /\ io'.epoll = io.epoll \cup {[fd |-> out, pipe |-> p, ev |-> x],
                                [fd |-> err, pipe |-> q, ev |-> y]}
  /\ mine' = [[mine EXCEPT ![x] = p] EXCEPT ![y] = q]
  /\ writers' = [[writers EXCEPT ![p] = {"worker"}] EXCEPT ![q] = {"worker"}]

LEMMA MakeFields ==
  ASSUME TypeOK, Tidy(io), NEW c \in Child, fpm_children_make(c)
  PROVE  \E x \in Ev, y \in Ev, out \in Fd, err \in Fd, p \in Pipe, q \in Pipe :
         Made(c, x, y, out, err, p, q)
<1> DEFINE x == <<c, "stdout">>
           y == <<c, "stderr">>
           out == Min(FreeFds)
           err == Min(FreeFds \ {out, Min(FreeFds \ {out})})
           p   == Min(FreePipes)
           q   == Min(FreePipes \ {p})
           T == [[io.table EXCEPT ![out] = p] EXCEPT ![err] = q]
           F == [[io.full EXCEPT ![p] = FALSE] EXCEPT ![q] = FALSE]
           m == [io EXCEPT !.table = T, !.full = F]
           k == fpm_event_add(m, x, out)
           l == fpm_event_add(k, y, err)
<1>1. /\ x \in Ev /\ y \in Ev /\ x[1] = c /\ y[1] = c /\ x # y
      /\ \A z \in Ev : z[1] = c => z \in {x, y}
  BY Events
<1>2. io \in IO BY TypeFacts
<1>3. rec[c] = "none" /\ Cardinality(FreeFds) >= 4 /\ Cardinality(FreePipes) >= 2
  BY DEF fpm_children_make
<1>4. out \in FreeFds /\ err \in FreeFds /\ out # err BY <1>3, FreeNumbers
<1>5. p \in FreePipes /\ q \in FreePipes /\ p # q BY <1>3, FreeEnds
<1>6. /\ io' = l
      /\ mine' = [[mine EXCEPT ![x] = p] EXCEPT ![y] = q]
      /\ writers' = [[writers EXCEPT ![p] = {"worker"}] EXCEPT ![q] = {"worker"}]
  <2>1. m = [io EXCEPT !.table[out] = p, !.table[err] = q, !.full[p] = FALSE, !.full[q] = FALSE]
    BY <1>2 DEF IO
  <2>2. /\ io' = l
        /\ mine' = [mine EXCEPT ![x] = p, ![y] = q]
        /\ writers' = [writers EXCEPT ![p] = {"worker"}, ![q] = {"worker"}]
    <3> HIDE DEF m, T, F
    <3> QED BY <2>1 DEF fpm_children_make
  <2> QED BY <2>2
<1> HIDE DEF x, y, out, err, p, q, k, l
<1>7. /\ out \in Fd /\ err \in Fd /\ io.table[out] = 0 /\ io.table[err] = 0
      /\ p \in Pipe /\ q \in Pipe /\ ~Open(io, p) /\ ~Open(io, q)
      /\ \A e \in io.epoll : e.pipe # p /\ e.pipe # q
  BY <1>4, <1>5 DEF FreeFds, FreePipes
<1>8. x \notin io.queue /\ y \notin io.queue
  <2>1. \A z \in Ev : z[1] = c => io.fd[z] = NoFd /\ z \notin io.queue
    BY <1>3 DEF Tidy, RecordsOK
  <2> QED BY <1>1, <2>1
<1>9. T \in [Fd -> Pipe \cup {0}] /\ F \in [Pipe -> BOOLEAN] BY <1>2, <1>7 DEF IO
<1>10. T[out] = p /\ T[err] = q BY <1>2, <1>4, <1>7 DEF IO
<1>11. \A j \in Pipe : F[j] => io.full[j] /\ j # p /\ j # q BY <1>2, <1>7 DEF IO
<1>12. /\ m \in IO /\ m.table = T /\ m.full = F /\ m.queue = io.queue /\ m.epoll = io.epoll
       /\ m.fd = io.fd /\ m.evfd = io.evfd /\ m.index = io.index
  <2> HIDE DEF T, F
  <2> QED BY <1>2, <1>9 DEF IO
<1> HIDE DEF m
<1>13. /\ k \in IO /\ k.table = T /\ k.full = F /\ k.queue = io.queue \cup {x}
       /\ k.fd = [io.fd EXCEPT ![x] = out] /\ k.evfd = [io.evfd EXCEPT ![x] = out]
       /\ k.index = [io.index EXCEPT ![x] = TRUE]
       /\ k.epoll = io.epoll \cup {[fd |-> out, pipe |-> p, ev |-> x]}
  <2> HIDE DEF T, F
  <2> QED BY <1>1, <1>7, <1>8, <1>10, <1>12, AddFields DEF k
<1>14. /\ l \in IO /\ l.table = T /\ l.full = F /\ l.queue = (io.queue \cup {x}) \cup {y}
       /\ l.fd = [k.fd EXCEPT ![y] = err] /\ l.evfd = [k.evfd EXCEPT ![y] = err]
       /\ l.index = [k.index EXCEPT ![y] = TRUE]
       /\ l.epoll = k.epoll \cup {[fd |-> err, pipe |-> q, ev |-> y]}
  <2>1. y \notin k.queue BY <1>1, <1>8, <1>13
  <2>2. k \in IO /\ k.table[err] = q /\ k.table = T /\ k.full = F BY <1>10, <1>13
  <2> HIDE DEF T, F
  <2>3. k.table[err] \in Pipe BY <1>7, <2>2
  <2>4. /\ l \in IO /\ l.table = k.table /\ l.full = k.full /\ l.queue = k.queue \cup {y}
        /\ l.fd = [k.fd EXCEPT ![y] = err] /\ l.evfd = [k.evfd EXCEPT ![y] = err]
        /\ l.index = [k.index EXCEPT ![y] = TRUE]
        /\ l.epoll = k.epoll \cup {[fd |-> err, pipe |-> k.table[err], ev |-> y]}
    BY SMTT(30), <1>1, <1>7, <2>1, <2>2, <2>3, AddFields DEF l
  <2> QED BY <1>13, <2>2, <2>4
<1>15. /\ (io.queue \cup {x}) \cup {y} = io.queue \cup {x, y}
       /\ l.epoll = io.epoll \cup {[fd |-> out, pipe |-> p, ev |-> x],
                                   [fd |-> err, pipe |-> q, ev |-> y]}
  BY <1>13, <1>14
<1> HIDE DEF F
<1>16. /\ io' \in IO /\ io'.queue = io.queue \cup {x, y} /\ io'.table = T /\ io'.full = F
       /\ io'.fd = [[io.fd EXCEPT ![x] = out] EXCEPT ![y] = err]
       /\ io'.evfd = [[io.evfd EXCEPT ![x] = out] EXCEPT ![y] = err]
       /\ io'.index = [[io.index EXCEPT ![x] = TRUE] EXCEPT ![y] = TRUE]
       /\ io'.epoll = io.epoll \cup {[fd |-> out, pipe |-> p, ev |-> x],
                                     [fd |-> err, pipe |-> q, ev |-> y]}
  <2> HIDE DEF T
  <2> QED BY <1>6, <1>13, <1>14, <1>15
<1>17. Made(c, x, y, out, err, p, q)
  BY <1>1, <1>4, <1>5, <1>6, <1>7, <1>11, <1>16 DEF Made
<1> QED BY <1>1, <1>7, <1>17

LEMMA MakeCopies ==
  ASSUME TypeOK, NEW c \in Child, fpm_children_make(c)
  PROVE  copies' \in [Pipe -> SUBSET Child] /\ \A p \in Pipe : copies[p] \subseteq copies'[p]
<1>1. PICK m : copies' = [k \in Pipe |-> IF Open(m, k) THEN copies[k] \cup {c} ELSE copies[k]]
  BY DEF fpm_children_make
<1> QED BY <1>1 DEF TypeOK

LEMMA MakeInv ==
  ASSUME IInv, NEW c \in Child, fpm_children_make(c)
  PROVE  IInv'
<1>0. TypeOK /\ Tidy(io) /\ io \in IO /\ rec[c] = "none" /\ LoopOK
  BY TypeFacts DEF IInv, fpm_children_make
<1>1. PICK x \in Ev, y \in Ev, out \in Fd, err \in Fd, p \in Pipe, q \in Pipe :
        Made(c, x, y, out, err, p, q)
  BY <1>0, MakeFields
<1>2. /\ x[1] = c /\ y[1] = c /\ x # y /\ \A z \in Ev : z[1] = c => z \in {x, y}
      /\ out # err /\ io.table[out] = 0 /\ io.table[err] = 0
      /\ p # q /\ ~Open(io, p) /\ ~Open(io, q) /\ p # 0 /\ q # 0
      /\ \A e \in io.epoll : e.pipe # p /\ e.pipe # q
  BY <1>1, Bounds DEF Made
<1>3. /\ io' \in IO /\ io'.queue = io.queue \cup {x, y}
      /\ \A k \in Pipe : io'.full[k] => io.full[k] /\ k # p /\ k # q
      /\ io'.epoll = io.epoll \cup {[fd |-> out, pipe |-> p, ev |-> x],
                                    [fd |-> err, pipe |-> q, ev |-> y]}
  BY <1>1 DEF Made
<1>4. /\ io'.table[out] = p /\ io'.table[err] = q
      /\ \A n \in Fd \ {out, err} : io'.table[n] = io.table[n]
  BY <1>0, <1>1, <1>2 DEF Made, IO
<1>5. /\ io'.fd[x] = out /\ io'.fd[y] = err /\ \A z \in Ev \ {x, y} : io'.fd[z] = io.fd[z]
      /\ io'.evfd[x] = out /\ io'.evfd[y] = err /\ \A z \in Ev \ {x, y} : io'.evfd[z] = io.evfd[z]
  BY <1>0, <1>1, <1>2 DEF Made, IO
<1>6. io'.index[x] /\ io'.index[y] /\ \A z \in Ev \ {x, y} : io'.index[z] = io.index[z]
  <2>1. io'.index = [[io.index EXCEPT ![x] = TRUE] EXCEPT ![y] = TRUE] BY <1>1 DEF Made
  <2>2. io.index \in [Ev -> BOOLEAN] BY <1>0 DEF IO
  <2> DEFINE f == io.index
  <2>3. LET g == [[f EXCEPT ![x] = TRUE] EXCEPT ![y] = TRUE] IN
        g[x] = TRUE /\ g[y] = TRUE /\ \A z \in Ev \ {x, y} : g[z] = f[z]
    <3> HIDE DEF f
    <3> QED BY <2>2 DEF f
  <2> QED BY <2>1, <2>3
<1>7. /\ mine' \in [Ev -> Pipe \cup {0}]
      /\ mine'[x] = p /\ mine'[y] = q /\ \A z \in Ev \ {x, y} : mine'[z] = mine[z]
  BY <1>0, <1>1, <1>2 DEF Made, TypeOK
<1>8. /\ writers' \in [Pipe -> SUBSET {"worker", "descendant"}]
      /\ writers'[p] = {"worker"} /\ writers'[q] = {"worker"}
      /\ \A k \in Pipe \ {p, q} : writers'[k] = writers[k]
  BY <1>0, <1>1, <1>2 DEF Made, TypeOK
<1>9. copies' \in [Pipe -> SUBSET Child] /\ \A k \in Pipe : copies[k] \subseteq copies'[k]
  BY <1>0, MakeCopies
<1>10. /\ rec' = [rec EXCEPT ![c] = "listed"] /\ proc' = [proc EXCEPT ![c] = "run"]
       /\ UNCHANGED <<loopVars, leftopen, boundVars>>
  BY DEF fpm_children_make
<1>11. \A z \in Ev \ {x, y} : z[1] \in Child /\ z[1] # c /\ rec'[z[1]] = rec[z[1]] /\ proc'[z[1]] = proc[z[1]]
  BY <1>0, <1>2, <1>10, Events DEF TypeOK
<1>12. rec'[c] = "listed" BY <1>0, <1>10 DEF TypeOK
<1>13. \A z \in Ev : z[1] = c => io.fd[z] = NoFd /\ z \notin io.queue
  BY <1>0 DEF Tidy, RecordsOK
<1>14. \A k \in Pipe : Open(io', k) <=> Open(io, k) \/ k = p \/ k = q
  BY <1>2, <1>4, Bounds DEF Open
<1>15. \A n \in Fd : io.table[n] # 0 => io'.table[n] = io.table[n] BY <1>2, <1>4
<1> HIDE DEF Made
<1>20. TypeOK'
  <2>1. rec' \in [Child -> {"none", "listed", "closed"}] /\ proc' \in [Child -> {"none", "run", "zombie"}]
    BY <1>0, <1>10 DEF TypeOK
  <2>2. io' \in [table : [Fd -> Pipe \cup {0}], epoll : SUBSET Reg, queue : SUBSET Ev,
                 fd : [Ev -> Fd \cup {NoFd}], evfd : [Ev -> Fd \cup {NoFd}],
                 index : [Ev -> BOOLEAN], full : [Pipe -> BOOLEAN]]
    BY <1>3 DEF IO
  <2> QED BY <1>0, <1>7, <1>8, <1>9, <1>10, <2>1, <2>2 DEF TypeOK, loopVars, boundVars
<1>21. TableOK(io)'
  <2>1. ASSUME NEW n \in Fd, NEW k \in Fd, io'.table[n] = io'.table[k], io'.table[n] # 0
        PROVE  n = k
    <3>1. \A j \in Fd \ {out, err} : io'.table[j] # p /\ io'.table[j] # q BY <1>2, <1>4 DEF Open
    <3>2. CASE n \in {out, err} \/ k \in {out, err} BY <1>2, <1>4, <2>1, <3>1, <3>2
    <3>3. CASE n \notin {out, err} /\ k \notin {out, err}
      BY <1>0, <1>4, <2>1, <3>3 DEF Tidy, TableOK
    <3> QED BY <3>2, <3>3
  <2>2. ASSUME NEW n \in Fd, io'.table[n] # 0
        PROVE  \E z \in Ev : rec'[z[1]] # "none" /\ io'.fd[z] = n
    <3>1. CASE n = out BY <1>2, <1>5, <1>12, <3>1
    <3>2. CASE n = err BY <1>2, <1>5, <1>12, <3>2
    <3>3. CASE n \notin {out, err}
      <4>1. PICK z \in Ev : rec[z[1]] # "none" /\ io.fd[z] = n
        BY <1>0, <1>4, <2>2, <3>3 DEF Tidy, TableOK
      <4>2. z \notin {x, y} BY <1>0, <1>2, <4>1
      <4> QED BY <1>5, <1>11, <4>1, <4>2
    <3> QED BY <3>1, <3>2, <3>3
  <2> QED BY <2>1, <2>2 DEF TableOK
<1>22. RecordsOK(io)'
  <2> SUFFICES ASSUME NEW z \in Ev
      PROVE  /\ io'.fd[z] \in {NoFd, io'.evfd[z]}
             /\ z \in io'.queue => io'.index[z] /\ io'.fd[z] # NoFd
             /\ rec'[z[1]] = "none" <=> io'.evfd[z] = NoFd
             /\ \A w \in Ev : rec'[z[1]] # "none" /\ w[1] = z[1] /\ io'.evfd[w] = io'.evfd[z] => w = z
    BY DEF RecordsOK
  <2>1. CASE z \in {x, y} BY <1>2, <1>3, <1>5, <1>6, <1>12, <2>1, Bounds
  <2>2. CASE z \notin {x, y}
    <3>1. /\ io.fd[z] \in {NoFd, io.evfd[z]}
          /\ z \in io.queue => io.index[z] /\ io.fd[z] # NoFd
          /\ rec[z[1]] = "none" <=> io.evfd[z] = NoFd
          /\ \A w \in Ev : rec[z[1]] # "none" /\ w[1] = z[1] /\ io.evfd[w] = io.evfd[z] => w = z
      BY <1>0 DEF Tidy, RecordsOK
    <3>2. \A w \in Ev : w[1] = z[1] => w \notin {x, y} BY <1>2, <1>11, <2>2
    <3> QED BY <1>3, <1>5, <1>6, <1>11, <2>2, <3>1, <3>2
  <2> QED BY <2>1, <2>2
<1>23. EpollOK(io)'
  <2> SUFFICES ASSUME NEW e \in io'.epoll
      PROVE  /\ rec'[e.ev[1]] # "none" /\ e.pipe = mine'[e.ev]
             /\ IF Open(io', e.pipe) THEN io'.table[e.fd] = e.pipe /\ io'.fd[e.ev] = e.fd
                                     ELSE copies'[e.pipe] # {}
    BY DEF EpollOK
  <2>1. CASE e \in io.epoll
    <3>1. /\ rec[e.ev[1]] # "none" /\ e.pipe = mine[e.ev]
          /\ IF Open(io, e.pipe) THEN io.table[e.fd] = e.pipe /\ io.fd[e.ev] = e.fd
                                 ELSE copies[e.pipe] # {}
      BY <1>0, <2>1 DEF Tidy, EpollOK
    <3>2. e.fd \in Fd /\ e.pipe \in Pipe /\ e.ev \in Ev /\ e.pipe # 0 BY <1>0, <2>1, RegFields DEF IO
    <3>3. e.ev \notin {x, y} /\ e.pipe # p /\ e.pipe # q BY <1>0, <1>2, <2>1, <3>1
    <3>4. Open(io', e.pipe) <=> Open(io, e.pipe) BY <1>14, <3>2, <3>3
    <3> QED BY <1>5, <1>7, <1>9, <1>11, <1>15, <3>1, <3>2, <3>3, <3>4
  <2>2. CASE e = [fd |-> out, pipe |-> p, ev |-> x] BY <1>2, <1>4, <1>5, <1>7, <1>12, <1>14, <2>2
  <2>3. CASE e = [fd |-> err, pipe |-> q, ev |-> y] BY <1>2, <1>4, <1>5, <1>7, <1>12, <1>14, <2>3
  <2> QED BY <1>3, <2>1, <2>2, <2>3
<1>24. LoopOK'
  <2>1. \A z \in bunch : z \in Ev /\ z \notin {x, y} BY <1>0, <1>2 DEF LoopOK, TypeOK
  <2> QED BY <1>0, <1>10, <1>11, <2>1 DEF LoopOK, TypeOK, loopVars
<1>25. ASSUME ~leftopen' PROVE OneToOne(io)' /\ WorkersOK'
  <2>0. OneToOne(io) /\ WorkersOK BY <1>10, <1>25 DEF IInv
  <2>1. ASSUME NEW z \in Ev, io'.fd[z] # NoFd
        PROVE  /\ io'.table[io'.fd[z]] = mine'[z] /\ mine'[z] # 0
               /\ z \in io'.queue /\ [fd |-> io'.fd[z], pipe |-> mine'[z], ev |-> z] \in io'.epoll
               /\ \A w \in Ev : io'.fd[w] = io'.fd[z] => w = z
    <3>1. \A w \in Ev \ {x, y} : io.fd[w] # NoFd =>
            /\ io.table[io.fd[w]] = mine[w] /\ mine[w] # 0 /\ io.fd[w] \in Fd
            /\ w \in io.queue /\ [fd |-> io.fd[w], pipe |-> mine[w], ev |-> w] \in io.epoll
            /\ \A v \in Ev : io.fd[v] = io.fd[w] => v = w
      BY <1>0, <2>0 DEF OneToOne, Watched, IO
    <3>2. ASSUME NEW w \in Ev \ {x, y} PROVE io'.fd[w] # out /\ io'.fd[w] # err
      <4>1. io'.fd[w] = io.fd[w] BY <1>5
      <4>2. CASE io.fd[w] = NoFd BY <4>1, <4>2, Bounds
      <4>3. CASE io.fd[w] # NoFd
        <5>1. io.table[io.fd[w]] # 0 BY <3>1, <4>3
        <5> QED BY <1>2, <4>1, <5>1
      <4> QED BY <4>2, <4>3
    <3>3. CASE z \in {x, y} BY <1>2, <1>3, <1>4, <1>5, <1>7, <3>2, <3>3
    <3>4. CASE z \notin {x, y} BY <1>3, <1>5, <1>7, <1>15, <2>1, <3>1, <3>2, <3>4
    <3> QED BY <3>3, <3>4
  <2>2. \A e \in io'.epoll : io'.fd[e.ev] = e.fd
    <3>1. \A e \in io.epoll : e.ev \in Ev \ {x, y} /\ io.fd[e.ev] = e.fd
      BY <1>0, <1>2, <2>0, RegFields DEF OneToOne, IO, Tidy, EpollOK
    <3> QED BY <1>3, <1>5, <3>1
  <2>3. \A k \in Pipe : io'.full[k] \/ writers'[k] # {} => Open(io', k)
    BY <1>3, <1>8, <1>14, <2>0 DEF OneToOne
  <2>4. OneToOne(io)' BY <2>1, <2>2, <2>3 DEF OneToOne, Watched
  <2>5. \A z \in bunch' : io'.fd[z] # NoFd
    <3>1. \A z \in bunch : z \in Ev /\ z \notin {x, y} BY <1>0, <1>2 DEF LoopOK, TypeOK
    <3> QED BY <1>5, <1>10, <2>0, <3>1 DEF WorkersOK, loopVars
  <2>6. ASSUME NEW z \in Ev
        PROVE  /\ proc'[z[1]] = "run" => io'.fd[z] # NoFd /\ "worker" \in writers'[mine'[z]]
               /\ rec'[z[1]] = "closed" => io'.fd[z] = NoFd
    <3>1. CASE z \in {x, y} BY <1>2, <1>5, <1>7, <1>8, <1>12, <3>1, Bounds
    <3>2. CASE z \notin {x, y}
      <4>1. proc[z[1]] = "run" => io.fd[z] # NoFd /\ "worker" \in writers[mine[z]] BY <2>0 DEF WorkersOK
      <4>2. rec[z[1]] = "closed" => io.fd[z] = NoFd BY <2>0 DEF WorkersOK
      <4>3. io.fd[z] # NoFd => mine[z] \in Pipe BY <1>0, <2>0 DEF OneToOne, TypeOK
      <4>4. "worker" \in writers[mine[z]] /\ mine[z] \in Pipe => "worker" \in writers'[mine[z]] BY <1>8
      <4> QED BY <1>5, <1>7, <1>11, <3>2, <4>1, <4>2, <4>3, <4>4
    <3> QED BY <3>1, <3>2
  <2> QED BY <2>4, <2>5, <2>6 DEF WorkersOK
<1> QED BY <1>20, <1>21, <1>22, <1>23, <1>24, <1>25 DEF IInv, Tidy

\* A step that changes neither io nor the records nor the pipes.
LEMMA LoopInv ==
  ASSUME IInv, UNCHANGED <<io, rec, mine, kernelVars, leftopen, boundVars>>,
         bunch' = bunch, phase' \in {"wait", "fire", "timers", "bury"},
         {sigready', chld', bury_timer'} \subseteq BOOLEAN, bunch = {} \/ phase' = "fire"
  PROVE  IInv'
<1>1. TypeOK' BY DEF IInv, TypeOK, kernelVars, boundVars
<1>2. Tidy(io)'
  BY DEF IInv, Tidy, TableOK, RecordsOK, EpollOK, Open, kernelVars
<1>3. LoopOK' BY DEF IInv, LoopOK, kernelVars
<1>4. OneToOne(io) => OneToOne(io)'
  BY DEF OneToOne, Watched, Open, kernelVars
<1>5. WorkersOK => WorkersOK' BY DEF WorkersOK, kernelVars
<1> QED BY <1>1, <1>2, <1>3, <1>4, <1>5 DEF IInv

LEMMA WaitInv ==
  ASSUME IInv, Wait
  PROVE  IInv'
<1>1. \A x \in Ready : x \in Ev /\ \E e \in io.epoll : e.ev = x /\ e.fd \in Fd
  <2>1. io.epoll \subseteq Reg BY TypeFacts DEF IInv, IO
  <2> QED BY <2>1, RegFields DEF Ready
<1>2. bunch' = Ready /\ phase' = "fire" /\ sigready' = chld
      /\ UNCHANGED <<io, rec, mine, chld, bury_timer, kernelVars, leftopen, boundVars>>
  BY DEF Wait
<1>3. TypeOK' BY <1>1, <1>2 DEF IInv, TypeOK, kernelVars, boundVars
<1>4. Tidy(io)'
  BY <1>2 DEF IInv, Tidy, TableOK, RecordsOK, EpollOK, Open, kernelVars
<1>5. LoopOK' BY <1>1, <1>2 DEF IInv, LoopOK, Tidy, EpollOK, kernelVars
<1>6. OneToOne(io) => OneToOne(io)'
  BY <1>2 DEF OneToOne, Watched, Open, kernelVars
<1>7. OneToOne(io) /\ WorkersOK => WorkersOK'
  BY <1>1, <1>2, Bounds DEF OneToOne, WorkersOK, kernelVars
<1> QED BY <1>2, <1>3, <1>4, <1>5, <1>6, <1>7 DEF IInv

LEMMA SaidInv ==
  ASSUME IInv, NEW x \in Ev, Said(x)
  PROVE  IInv'
<1> DEFINE k == fpm_stdio_child_said(io, x)
<1>1. /\ phase = "fire" /\ x \in bunch /\ bunch' = bunch \ {x} /\ io' = k
      /\ UNCHANGED <<rec, mine, phase, sigready, chld, bury_timer, kernelVars, leftopen, boundVars>>
  BY DEF Said
<1>2. io \in IO /\ Tidy(io) /\ rec[x[1]] # "none" BY <1>1, TypeFacts DEF IInv, LoopOK
<1>3. k \in IO /\ Tidy(k) BY <1>2, SaidTidy
<1>4. ASSUME ~leftopen
      PROVE  /\ OneToOne(k)
             /\ writers[mine[x]] = {} => k.fd = [io.fd EXCEPT ![x] = NoFd]
             /\ writers[mine[x]] # {} => k.fd = io.fd
  <2>1. OneToOne(io) /\ io.fd[x] # NoFd BY <1>1, <1>4 DEF IInv, WorkersOK
  <2> QED BY <1>2, <2>1, SaidOneToOne
<1> HIDE DEF k
<1>5. TypeOK' BY <1>1, <1>3 DEF IInv, TypeOK, IO, kernelVars, boundVars
<1>6. Tidy(io)' BY <1>1, <1>3, TidyKept DEF kernelVars
<1>7. LoopOK' BY <1>1 DEF IInv, LoopOK, kernelVars
<1>8. ASSUME ~leftopen PROVE OneToOne(io)' /\ WorkersOK'
  <2>1. OneToOne(io)' BY <1>1, <1>4, <1>8 DEF OneToOne, Watched, Open, kernelVars
  <2>2. WorkersOK BY <1>8 DEF IInv
  <2>3. \A z \in Ev : z # x => k.fd[z] = io.fd[z] BY <1>2, <1>4, <1>8 DEF IO
  <2>4. writers[mine[x]] # {} => k.fd[x] = io.fd[x] BY <1>4, <1>8
  <2>5. k.fd[x] \in {io.fd[x], NoFd} BY <1>2, <1>4, <1>8 DEF IO
  <2>6. bunch \subseteq Ev BY DEF IInv, TypeOK
  <2> QED BY <1>1, <2>1, <2>2, <2>3, <2>4, <2>5, <2>6 DEF WorkersOK, kernelVars
<1> QED BY <1>1, <1>5, <1>6, <1>7, <1>8 DEF IInv

LEMMA BuryInv ==
  ASSUME IInv, NEW c \in Child, Bury(c)
  PROVE  IInv'
<1> DEFINE k == fpm_child_close(io, c)
<1>1. /\ phase = "bury" /\ proc[c] = "zombie" /\ io' = k
      /\ proc' = [proc EXCEPT ![c] = "none"] /\ rec' = [rec EXCEPT ![c] = "closed"]
      /\ leftopen' = (leftopen \/ \E s \in Stream : io.fd[c, s] # NoFd /\ writers[mine[c, s]] # {})
      /\ UNCHANGED <<mine, loopVars, writers, copies, boundVars>>
  BY DEF Bury
<1>2. /\ io \in IO /\ Tidy(io) /\ rec[c] = "listed" /\ bunch = {}
      /\ rec \in [Child -> {"none", "listed", "closed"}]
      /\ proc \in [Child -> {"none", "run", "zombie"}]
  BY <1>1, TypeFacts DEF IInv, LoopOK, TypeOK
<1>3. k \in IO /\ Tidy(k) BY <1>2, ChildCloseTidy
<1>4. ASSUME ~leftopen'
      PROVE  /\ ~leftopen /\ OneToOne(io) /\ WorkersOK /\ OneToOne(k)
             /\ \A z \in Ev : k.fd[z] = IF z[1] = c THEN NoFd ELSE io.fd[z]
  <2>1. ~leftopen /\ \A s \in Stream : io.fd[c, s] # NoFd => writers[mine[c, s]] = {}
    BY <1>1, <1>4
  <2>2. OneToOne(io) /\ WorkersOK BY <2>1 DEF IInv
  <2> QED BY <1>2, <2>1, <2>2, ChildCloseOneToOne
<1> HIDE DEF k
<1>5. rec' \in [Child -> {"none", "listed", "closed"}] /\ proc' \in [Child -> {"none", "run", "zombie"}]
  BY <1>1, <1>2
<1>6. /\ rec'[c] = "closed" /\ proc'[c] = "none"
      /\ \A d \in Child \ {c} : rec'[d] = rec[d] /\ proc'[d] = proc[d]
  BY <1>1, <1>2
<1>7. leftopen' \in BOOLEAN
  <2>1. leftopen \in BOOLEAN BY DEF IInv, TypeOK
  <2> QED BY <1>1, <2>1
<1>8. TypeOK' BY <1>1, <1>3, <1>5, <1>7 DEF IInv, TypeOK, IO, loopVars, boundVars
<1>9. Tidy(io)'
  <2>1. \A x \in Ev : rec'[x[1]] = "none" <=> rec[x[1]] = "none" BY <1>2, <1>6, Events
  <2> QED BY <1>1, <1>3, <2>1, TidyKept
<1>10. LoopOK' BY <1>1, <1>2, <1>6 DEF IInv, LoopOK, loopVars
<1>11. ASSUME ~leftopen' PROVE OneToOne(io)' /\ WorkersOK'
  <2>1. OneToOne(io)' BY <1>1, <1>4, <1>11 DEF OneToOne, Watched, Open
  <2>2. \A z \in Ev : /\ proc'[z[1]] = "run" => io'.fd[z] # NoFd /\ "worker" \in writers'[mine'[z]]
                      /\ rec'[z[1]] = "closed" => io'.fd[z] = NoFd
    <3>1. ASSUME NEW z \in Ev, z[1] = c PROVE io'.fd[z] = NoFd BY <1>1, <1>4, <1>11, <3>1
    <3>2. ASSUME NEW z \in Ev, z[1] # c
          PROVE  io'.fd[z] = io.fd[z] /\ rec'[z[1]] = rec[z[1]] /\ proc'[z[1]] = proc[z[1]]
      BY <1>1, <1>4, <1>6, <1>11, <3>2, Events
    <3>3. /\ WorkersOK /\ writers' = writers /\ mine' = mine /\ proc'[c] # "run"
      BY <1>1, <1>4, <1>6, <1>11
    <3>4. ASSUME NEW z \in Ev
          PROVE  /\ proc'[z[1]] = "run" => io'.fd[z] # NoFd /\ "worker" \in writers'[mine'[z]]
                 /\ rec'[z[1]] = "closed" => io'.fd[z] = NoFd
      <4>1. CASE z[1] = c BY <3>1, <3>3, <4>1
      <4>2. CASE z[1] # c BY <3>2, <3>3, <4>2 DEF WorkersOK
      <4> QED BY <4>1, <4>2
    <3> QED BY <3>4
  <2>3. bunch' = {} BY <1>1, <1>2 DEF loopVars
  <2> QED BY <2>1, <2>2, <2>3 DEF WorkersOK
<1> QED BY <1>8, <1>9, <1>10, <1>11 DEF IInv

LEMMA FreeTimerInv ==
  ASSUME IInv, NEW c \in Child, FreeTimer(c)
  PROVE  IInv'
<1> DEFINE k == fpm_postponed_child_free(io, c)
<1>1. /\ phase = "timers" /\ rec[c] = "closed" /\ io' = k
      /\ rec' = [rec EXCEPT ![c] = "none"]
      /\ mine' = [x \in Ev |-> IF x[1] = c THEN 0 ELSE mine[x]]
      /\ UNCHANGED <<loopVars, kernelVars, leftopen, boundVars>>
  BY DEF FreeTimer
<1>2. /\ io \in IO /\ Tidy(io) /\ bunch = {} /\ proc[c] = "none"
      /\ rec \in [Child -> {"none", "listed", "closed"}]
      /\ proc \in [Child -> {"none", "run", "zombie"}]
      /\ mine \in [Ev -> Pipe \cup {0}]
  BY <1>1, TypeFacts DEF IInv, LoopOK, TypeOK
<1>3. \A z \in Ev : z[1] = c => copies[mine[z]] = {}
  <2>1. \A s \in Stream : copies[mine[c, s]] = {} BY DEF FreeTimer
  <2> QED BY <2>1, Events DEF Stream
<1> HIDE DEF k
<1>4. PICK b \in IO :
        /\ Tidy(b) /\ b.fd = io.fd /\ b.evfd = io.evfd
        /\ \A z \in Ev : z[1] = c => Given(b, z)
        /\ (\A z \in Ev : z[1] = c => io.fd[z] = NoFd) => b = io
        /\ k \in IO
        /\ k.table = b.table /\ k.epoll = b.epoll /\ k.queue = b.queue /\ k.full = b.full
        /\ \A z \in Ev : /\ k.fd[z] = IF z[1] = c THEN NoFd ELSE io.fd[z]
                         /\ k.evfd[z] = IF z[1] = c THEN NoFd ELSE io.evfd[z]
                         /\ z[1] # c => k.index[z] = b.index[z]
  BY <1>2, FreeFields DEF k
<1>5. \A z \in Ev : /\ z[1] \in Child
                    /\ rec'[z[1]] = IF z[1] = c THEN "none" ELSE rec[z[1]]
                    /\ mine'[z] = IF z[1] = c THEN 0 ELSE mine[z]
  BY <1>1, <1>2, Events
<1>6. \A z \in Ev : z[1] = c => z \notin b.queue /\ (b.fd[z] # NoFd => b.table[b.fd[z]] = 0)
  BY <1>4 DEF Given
<1>7. \A e \in b.epoll : e.fd \in Fd /\ e.pipe \in Pipe /\ e.ev \in Ev /\ e.pipe # 0
  BY <1>4, RegFields DEF IO
<1>8. TypeOK'
  <2>1. rec' \in [Child -> {"none", "listed", "closed"}] BY <1>1, <1>2
  <2>2. mine' \in [Ev -> Pipe \cup {0}] BY <1>1, <1>2
  <2>3. io' \in IO BY <1>1, <1>4
  <2> QED BY <1>1, <2>1, <2>2, <2>3 DEF IInv, TypeOK, IO, loopVars, kernelVars, boundVars
<1>9. TableOK(io)'
  <2>1. \A n, j \in Fd : k.table[n] = k.table[j] /\ k.table[n] # 0 => n = j
    BY <1>4 DEF Tidy, TableOK
  <2>2. ASSUME NEW n \in Fd, k.table[n] # 0
        PROVE  \E z \in Ev : rec'[z[1]] # "none" /\ k.fd[z] = n
    <3>1. PICK z \in Ev : rec[z[1]] # "none" /\ b.fd[z] = n BY <1>4, <2>2 DEF Tidy, TableOK
    <3>2. z[1] # c BY <1>4, <1>6, <2>2, <3>1, Bounds
    <3> QED BY <1>4, <1>5, <3>1, <3>2
  <2> QED BY <1>1, <2>1, <2>2 DEF TableOK
<1>10. RecordsOK(io)'
  <2> SUFFICES ASSUME NEW z \in Ev
      PROVE  /\ k.fd[z] \in {NoFd, k.evfd[z]}
             /\ z \in k.queue => k.index[z] /\ k.fd[z] # NoFd
             /\ rec'[z[1]] = "none" <=> k.evfd[z] = NoFd
             /\ \A w \in Ev : rec'[z[1]] # "none" /\ w[1] = z[1] /\ k.evfd[w] = k.evfd[z] => w = z
    BY <1>1 DEF RecordsOK
  <2>1. CASE z[1] = c BY <1>4, <1>5, <1>6, <2>1
  <2>2. CASE z[1] # c
    <3>1. /\ b.fd[z] \in {NoFd, b.evfd[z]}
          /\ z \in b.queue => b.index[z] /\ b.fd[z] # NoFd
          /\ rec[z[1]] = "none" <=> b.evfd[z] = NoFd
          /\ \A w \in Ev : rec[z[1]] # "none" /\ w[1] = z[1] /\ b.evfd[w] = b.evfd[z] => w = z
      BY <1>4 DEF Tidy, RecordsOK
    <3> QED BY <1>4, <1>5, <2>2, <3>1
  <2> QED BY <2>1, <2>2
<1>11. \A e \in b.epoll : e.ev[1] # c
  <2> SUFFICES ASSUME NEW e \in b.epoll, e.ev[1] = c PROVE FALSE OBVIOUS
  <2>1. /\ e.pipe = mine[e.ev]
        /\ IF Open(b, e.pipe) THEN b.table[e.fd] = e.pipe /\ b.fd[e.ev] = e.fd
                              ELSE copies[e.pipe] # {}
    BY <1>4 DEF Tidy, EpollOK
  <2>2. copies[e.pipe] = {} BY <1>3, <1>7, <2>1
  <2>3. b.table[e.fd] = e.pipe /\ b.fd[e.ev] = e.fd BY <2>1, <2>2
  <2>4. b.fd[e.ev] # NoFd BY <1>7, <2>3, Bounds
  <2>5. b.table[b.fd[e.ev]] = 0 BY <1>6, <1>7, <2>4
  <2> QED BY <1>7, <2>3, <2>5
<1>12. EpollOK(io)'
  <2> SUFFICES ASSUME NEW e \in b.epoll
      PROVE  /\ rec'[e.ev[1]] # "none" /\ e.pipe = mine'[e.ev]
             /\ IF Open(k, e.pipe) THEN k.table[e.fd] = e.pipe /\ k.fd[e.ev] = e.fd
                                   ELSE copies[e.pipe] # {}
    BY <1>1, <1>4 DEF EpollOK, kernelVars
  <2>1. /\ rec[e.ev[1]] # "none" /\ e.pipe = mine[e.ev]
        /\ IF Open(b, e.pipe) THEN b.table[e.fd] = e.pipe /\ b.fd[e.ev] = e.fd
                              ELSE copies[e.pipe] # {}
    BY <1>4 DEF Tidy, EpollOK
  <2>2. e.ev[1] # c /\ e.ev \in Ev BY <1>7, <1>11
  <2>3. Open(k, e.pipe) <=> Open(b, e.pipe) BY <1>4 DEF Open
  <2> QED BY <1>4, <1>5, <2>1, <2>2, <2>3
<1>13. LoopOK'
  <2>1. \A d \in Child : proc[d] # "none" => rec[d] = "listed" BY DEF IInv, LoopOK
  <2> QED BY <1>1, <1>2, <2>1 DEF LoopOK, loopVars, kernelVars
<1>14. ASSUME ~leftopen' PROVE OneToOne(io)' /\ WorkersOK'
  <2>1. ~leftopen BY <1>1, <1>14
  <2>2. OneToOne(io) /\ WorkersOK BY <2>1 DEF IInv
  <2>3. \A z \in Ev : z[1] = c => io.fd[z] = NoFd BY <1>1, <2>2 DEF WorkersOK
  <2>4. b = io BY <1>4, <2>3
  <2>5. \A z \in Ev : k.fd[z] = io.fd[z] BY <1>4, <2>3
  <2>6. \A z \in Ev : io.fd[z] # NoFd => mine'[z] = mine[z] BY <1>5, <2>3
  <2>7. k.table = io.table /\ k.epoll = io.epoll /\ k.queue = io.queue /\ k.full = io.full
    BY <1>4, <2>4
  <2>8. OneToOne(io)'
    <3>1. ASSUME NEW z \in Ev, k.fd[z] # NoFd
          PROVE  /\ k.table[k.fd[z]] = mine'[z] /\ mine'[z] # 0
                 /\ z \in k.queue /\ [fd |-> k.fd[z], pipe |-> mine'[z], ev |-> z] \in k.epoll
                 /\ \A w \in Ev : k.fd[w] = k.fd[z] => w = z
      BY <2>2, <2>5, <2>6, <2>7, <3>1 DEF OneToOne, Watched
    <3>2. \A e \in k.epoll : k.fd[e.ev] = e.fd BY <1>7, <2>2, <2>4, <2>5, <2>7 DEF OneToOne
    <3>3. \A p \in Pipe : k.full[p] \/ writers[p] # {} => Open(k, p)
      BY <2>2, <2>7 DEF OneToOne, Open
    <3> QED BY <1>1, <3>1, <3>2, <3>3 DEF OneToOne, Watched, kernelVars
  <2>9. ASSUME NEW z \in Ev
        PROVE  /\ proc'[z[1]] = "run" => io'.fd[z] # NoFd /\ "worker" \in writers'[mine'[z]]
               /\ rec'[z[1]] = "closed" => io'.fd[z] = NoFd
    <3>1. CASE z[1] = c BY <1>1, <1>2, <1>5, <3>1 DEF kernelVars
    <3>2. CASE z[1] # c BY <1>1, <1>5, <2>2, <2>5, <3>2 DEF WorkersOK, kernelVars
    <3> QED BY <3>1, <3>2
  <2> QED BY <1>1, <1>2, <2>8, <2>9 DEF WorkersOK, loopVars
<1> QED BY <1>8, <1>9, <1>10, <1>12, <1>13, <1>14 DEF IInv, Tidy

LEMMA SettleInv ==
  ASSUME IInv, NEW c \in Child, Settle(c)
  PROVE  IInv'
<1>1. DropCopies(c) /\ UNCHANGED <<rec, mine, loopVars, proc, writers, leftopen, boundVars>>
  BY DEF Settle
<1>2. /\ io' \in IO /\ copies' \in [Pipe -> SUBSET Child] /\ io'.fd = io.fd
  BY <1>1, DropFields DEF IInv
<1>3. TypeOK' BY <1>1, <1>2 DEF IInv, TypeOK, IO, loopVars, boundVars
<1>4. Tidy(io)' BY <1>1, DropTidy DEF IInv
<1>5. LoopOK' BY <1>1 DEF IInv, LoopOK, loopVars
<1>6. OneToOne(io) => OneToOne(io)' BY <1>1, DropOneToOne DEF IInv
<1>7. WorkersOK => WorkersOK' BY <1>1, <1>2 DEF WorkersOK, loopVars
<1> QED BY <1>1, <1>3, <1>4, <1>5, <1>6, <1>7 DEF IInv

LEMMA DieInv ==
  ASSUME IInv, NEW c \in Child, Die(c)
  PROVE  IInv'
<1>1. /\ proc[c] = "run" /\ DropCopies(c) /\ proc' = [proc EXCEPT ![c] = "zombie"] /\ chld' = TRUE
      /\ writers' = [p \in Pipe |-> IF p \in Held(c) THEN writers[p] \ {"worker"} ELSE writers[p]]
      /\ ndeaths < MaxDeaths /\ ndeaths' = ndeaths + 1
      /\ UNCHANGED <<rec, mine, phase, bunch, sigready, bury_timer, leftopen, ndescendants>>
  BY DEF Die
<1>2. io' \in IO /\ copies' \in [Pipe -> SUBSET Child] /\ io'.fd = io.fd
  BY <1>1, DropFields DEF IInv
<1>3. /\ TypeOK /\ io \in IO /\ proc \in [Child -> {"none", "run", "zombie"}]
      /\ writers \in [Pipe -> SUBSET {"worker", "descendant"}]
  BY TypeFacts DEF IInv, TypeOK
<1>4. writers' \in [Pipe -> SUBSET {"worker", "descendant"}] BY <1>1, <1>3
<1>5. TypeOK'
  <2>1. proc' \in [Child -> {"none", "run", "zombie"}] BY <1>1, <1>3
  <2>2. ndeaths' \in 0 .. MaxDeaths BY <1>1, <1>3, Bounds DEF TypeOK
  <2> QED BY <1>1, <1>2, <1>3, <1>4, <2>1, <2>2 DEF TypeOK, IO
<1>6. Tidy(io)' BY <1>1, DropTidy DEF IInv
<1>7. LoopOK'
  <2>1. proc'[c] = "zombie" /\ \A d \in Child \ {c} : proc'[d] = proc[d] BY <1>1, <1>3
  <2> QED BY <1>1, <2>1 DEF IInv, LoopOK
<1>8. ASSUME ~leftopen' PROVE OneToOne(io)' /\ WorkersOK'
  <2>1. OneToOne(io) /\ WorkersOK BY <1>1, <1>8 DEF IInv
  <2>2. \A p \in Pipe : writers'[p] # {} => writers[p] # {} BY <1>1
  <2>3. OneToOne(io)' BY <1>1, <2>1, <2>2, DropOneToOne DEF IInv
  <2>4. ASSUME NEW z \in Ev, proc'[z[1]] = "run"
        PROVE  io'.fd[z] # NoFd /\ "worker" \in writers'[mine'[z]]
    <3>1. z[1] # c /\ proc[z[1]] = "run" BY <1>1, <1>3, <2>4, Events
    <3>2. io.fd[z] # NoFd /\ "worker" \in writers[mine[z]] BY <2>1, <3>1 DEF WorkersOK
    <3>3. io.table[io.fd[z]] = mine[z] /\ mine[z] # 0 /\ mine[z] \in Pipe /\ io.fd[z] \in Fd
      BY <1>3, <2>1, <3>2 DEF OneToOne, IO, TypeOK
    <3>4. mine[z] \notin Held(c)
      <4> SUFFICES ASSUME mine[z] \in Held(c) PROVE FALSE OBVIOUS
      <4>1. PICK s \in Stream : mine[z] = mine[c, s] BY DEF Held
      <4> DEFINE w == <<c, s>>
      <4>2. w \in Ev /\ w[1] = c BY DEF Ev
      <4>3. io.fd[w] # NoFd BY <1>1, <2>1, <4>2 DEF WorkersOK
      <4>4. io.table[io.fd[w]] = mine[w] /\ io.fd[w] \in Fd
        BY <1>3, <2>1, <4>2, <4>3 DEF OneToOne, IO
      <4>5. io.fd[w] = io.fd[z] BY <3>3, <4>1, <4>4 DEF IInv, Tidy, TableOK
      <4>6. w = z BY <2>1, <3>2, <4>2, <4>5 DEF OneToOne
      <4> QED BY <3>1, <4>2, <4>6
    <3>5. writers'[mine[z]] = writers[mine[z]] BY <1>1, <3>3, <3>4
    <3> QED BY <1>1, <1>2, <3>2, <3>5
  <2>5. \A z \in Ev : rec'[z[1]] = "closed" => io'.fd[z] = NoFd BY <1>1, <1>2, <2>1 DEF WorkersOK
  <2>6. \A z \in bunch' : io'.fd[z] # NoFd BY <1>1, <1>2, <2>1 DEF WorkersOK
  <2> QED BY <2>3, <2>4, <2>5, <2>6 DEF WorkersOK
<1> QED BY <1>5, <1>6, <1>7, <1>8 DEF IInv

\* Somebody else gets or gives up the write end of a pipe.
LEMMA WritersInv ==
  ASSUME IInv, UNCHANGED <<io, rec, mine, loopVars, proc, copies, leftopen, ndeaths>>,
         writers' \in [Pipe -> SUBSET {"worker", "descendant"}],
         ndescendants' \in 0 .. MaxDescendants,
         \A p \in Pipe : "worker" \in writers[p] => "worker" \in writers'[p],
         \A p \in Pipe : ~leftopen /\ writers'[p] # {} => Open(io, p)
  PROVE  IInv'
<1>1. TypeOK' BY DEF IInv, TypeOK, loopVars
<1>2. Tidy(io)' BY DEF IInv, Tidy, TableOK, RecordsOK, EpollOK, Open
<1>3. LoopOK' BY DEF IInv, LoopOK, loopVars
<1>4. ~leftopen /\ OneToOne(io) => OneToOne(io)' BY DEF OneToOne, Watched, Open
<1>5. OneToOne(io) /\ WorkersOK => WorkersOK'
  <2>1. OneToOne(io) => \A x \in Ev : io.fd[x] # NoFd => mine[x] \in Pipe
    BY DEF IInv, TypeOK, OneToOne
  <2> QED BY <2>1 DEF WorkersOK, loopVars
<1> QED BY <1>1, <1>2, <1>3, <1>4, <1>5 DEF IInv

LEMMA DescendInv ==
  ASSUME IInv, NEW c \in Child, Descend(c)
  PROVE  IInv'
<1>1. PICK S \in SUBSET Held(c) :
        writers' = [p \in Pipe |-> IF p \in S THEN writers[p] \cup {"descendant"} ELSE writers[p]]
  BY DEF Descend
<1>2. /\ proc[c] = "run" /\ ndescendants < MaxDescendants /\ ndescendants' = ndescendants + 1
      /\ UNCHANGED <<io, rec, mine, loopVars, proc, copies, leftopen, ndeaths>>
  BY DEF Descend
<1>3. writers \in [Pipe -> SUBSET {"worker", "descendant"}] /\ ndescendants \in 0 .. MaxDescendants
  BY DEF IInv, TypeOK
<1>4. writers' \in [Pipe -> SUBSET {"worker", "descendant"}] BY <1>1, <1>3
<1>5. ndescendants' \in 0 .. MaxDescendants BY <1>2, <1>3, Bounds
<1>6. ASSUME NEW p \in Pipe, ~leftopen, writers'[p] # {} PROVE Open(io, p)
  <2>1. OneToOne(io) /\ WorkersOK BY <1>6 DEF IInv
  <2>2. CASE writers[p] # {} BY <2>1, <2>2 DEF OneToOne
  <2>3. CASE p \in Held(c)
    <3>1. PICK s \in Stream : p = mine[c, s] BY <2>3 DEF Held
    <3> DEFINE w == <<c, s>>
    <3>2. w \in Ev /\ w[1] = c BY DEF Ev
    <3>3. io.fd[w] # NoFd BY <1>2, <2>1, <3>2 DEF WorkersOK
    <3>4. io.table[io.fd[w]] = mine[w] /\ io.fd[w] \in Fd
      BY <2>1, <3>2, <3>3, TypeFacts DEF IInv, OneToOne, IO
    <3> QED BY <3>1, <3>4 DEF Open
  <2> QED BY <1>1, <1>6, <2>2, <2>3
<1>7. \A p \in Pipe : "worker" \in writers[p] => "worker" \in writers'[p] BY <1>1, <1>3
<1> QED BY <1>2, <1>4, <1>5, <1>6, <1>7, WritersInv

LEMMA DescendantEndsInv ==
  ASSUME IInv, NEW p \in Pipe, DescendantEnds(p)
  PROVE  IInv'
<1>1. /\ writers' = [writers EXCEPT ![p] = @ \ {"descendant"}]
      /\ UNCHANGED <<io, rec, mine, loopVars, proc, copies, leftopen, boundVars>>
  BY DEF DescendantEnds
<1>2. writers \in [Pipe -> SUBSET {"worker", "descendant"}] /\ ndescendants \in 0 .. MaxDescendants
  BY DEF IInv, TypeOK
<1>3. writers' \in [Pipe -> SUBSET {"worker", "descendant"}] BY <1>1, <1>2
<1>4. \A q \in Pipe : /\ "worker" \in writers[q] => "worker" \in writers'[q]
                      /\ writers'[q] # {} => writers[q] # {}
  BY <1>1, <1>2
<1>5. \A q \in Pipe : ~leftopen /\ writers'[q] # {} => Open(io, q)
  BY <1>4 DEF IInv, OneToOne
<1> QED BY <1>1, <1>2, <1>3, <1>4, <1>5, WritersInv DEF boundVars

LEMMA WriteInv ==
  ASSUME IInv, NEW p \in Pipe, Write(p)
  PROVE  IInv'
<1>1. /\ writers[p] # {} /\ io' = [io EXCEPT !.full[p] = TRUE]
      /\ UNCHANGED <<rec, mine, loopVars, kernelVars, leftopen, boundVars>>
  BY DEF Write
<1>2. io \in IO BY TypeFacts DEF IInv
<1>3. [io.full EXCEPT ![p] = TRUE] \in [Pipe -> BOOLEAN] BY <1>2 DEF IO
<1>4. io' = [io EXCEPT !.full = [io.full EXCEPT ![p] = TRUE]] BY <1>1
<1>5. \A q \in Pipe \ {p} : [io.full EXCEPT ![p] = TRUE][q] = io.full[q] BY <1>2 DEF IO
<1>6. /\ io' \in IO /\ io'.table = io.table /\ io'.epoll = io.epoll /\ io'.queue = io.queue
      /\ io'.fd = io.fd /\ io'.evfd = io.evfd /\ io'.index = io.index
      /\ \A q \in Pipe \ {p} : io'.full[q] = io.full[q]
  BY <1>2, <1>3, <1>4, <1>5 DEF IO
<1>7. TypeOK' BY <1>1, <1>6 DEF IInv, TypeOK, IO, loopVars, kernelVars, boundVars
<1>8. Tidy(io)' BY <1>1, <1>6 DEF IInv, Tidy, TableOK, RecordsOK, EpollOK, Open, kernelVars
<1>9. LoopOK' BY <1>1 DEF IInv, LoopOK, loopVars, kernelVars
<1>10. OneToOne(io) => OneToOne(io)'
  BY <1>1, <1>6 DEF OneToOne, Watched, Open, kernelVars
<1>11. WorkersOK => WorkersOK' BY <1>1, <1>6 DEF WorkersOK, loopVars, kernelVars
<1> QED BY <1>1, <1>7, <1>8, <1>9, <1>10, <1>11 DEF IInv

LEMMA StepInv == IInv /\ [Next]_vars => IInv'
<1> SUFFICES ASSUME IInv, [Next]_vars PROVE IInv' OBVIOUS
<1>0. {sigready, chld, bury_timer} \subseteq BOOLEAN /\ phase \in {"wait", "fire", "timers", "bury"}
      /\ (bunch # {} => phase = "fire")
  BY DEF IInv, TypeOK, LoopOK
<1>1. CASE LoopStep
  <2>1. CASE Wait BY <2>1, WaitInv
  <2>2. CASE GotChld BY <1>0, <2>2, LoopInv DEF GotChld
  <2>3. ASSUME NEW x \in Ev, Said(x) PROVE IInv' BY <2>3, SaidInv
  <2>4. CASE Fired BY <1>0, <2>4, LoopInv DEF Fired
  <2>5. CASE BuryTimer BY <1>0, <2>5, LoopInv DEF BuryTimer
  <2>6. ASSUME NEW c \in Child, Bury(c) PROVE IInv' BY <2>6, BuryInv
  <2>7. CASE BuryDone BY <1>0, <2>7, LoopInv DEF BuryDone
  <2>8. CASE TimersDone BY <1>0, <2>8, LoopInv DEF TimersDone
  <2> QED BY <1>1, <2>1, <2>2, <2>3, <2>4, <2>5, <2>6, <2>7, <2>8 DEF LoopStep
<1>2. ASSUME NEW c \in Child, fpm_children_make(c) PROVE IInv' BY <1>2, MakeInv
<1>3. ASSUME NEW c \in Child, FreeTimer(c) PROVE IInv' BY <1>3, FreeTimerInv
<1>4. ASSUME NEW c \in Child, Settle(c) PROVE IInv' BY <1>4, SettleInv
<1>5. ASSUME NEW c \in Child, Die(c) PROVE IInv' BY <1>5, DieInv
<1>6. ASSUME NEW c \in Child, Descend(c) PROVE IInv' BY <1>6, DescendInv
<1>7. ASSUME NEW p \in Pipe, DescendantEnds(p) PROVE IInv' BY <1>7, DescendantEndsInv
<1>8. ASSUME NEW p \in Pipe, Write(p) PROVE IInv' BY <1>8, WriteInv
<1>9. CASE UNCHANGED vars BY <1>0, <1>9, LoopInv DEF vars, loopVars
<1> QED BY <1>1, <1>2, <1>3, <1>4, <1>5, <1>6, <1>7, <1>8, <1>9 DEF Next

LEMMA AlwaysInv == Spec => []IInv
<1>1. Init => IInv BY InitInv
<1>2. IInv /\ [Next]_vars => IInv' BY StepInv
<1> QED BY <1>1, <1>2, PTL DEF Spec

-----------------------------------------------------------------------------
(* The theorems.                                                           *)

\* Every number the master keeps for its workers' output is a descriptor or
\* NoFd, and every event in the queue is one of a record
\* (fpm_children.c, fpm_stdio.c, fpm_events.c).
THEOREM StdioTypeCorrect == Spec => []TypeOK
<1>1. IInv => TypeOK BY DEF IInv
<1> QED BY <1>1, AlwaysInv, PTL

\* Whatever dies, and whoever keeps its pipes: no event that wait has
\* returned, no event in the queue and no registration outlives the record it
\* is in, so that fpm_event_loop never fires freed memory (the comment in
\* fpm_got_signal; fpm_postponed_child_free).
THEOREM NothingFreedFires == Spec => []NoUseAfterFree
<1>1. ASSUME IInv PROVE NoUseAfterFree
  <2>1. \A x \in bunch : rec[x[1]] # "none" BY <1>1 DEF IInv, LoopOK
  <2>2. ASSUME NEW x \in io.queue PROVE rec[x[1]] # "none"
    <3>1. x \in Ev BY <1>1, <2>2, TypeFacts DEF IInv, IO
    <3> QED BY <1>1, <2>2, <3>1 DEF IInv, Tidy, RecordsOK
  <2>3. \A e \in io.epoll : rec[e.ev[1]] # "none" BY <1>1 DEF IInv, Tidy, EpollOK
  <2> QED BY <2>1, <2>2, <2>3 DEF NoUseAfterFree
<1> QED BY <1>1, AlwaysInv, PTL

\* Records, descriptors and pipes belong together one to one unless a
\* descendant kept the output of a dead worker open: nobody's pipe is read or
\* closed for another, and running workers are heard.  That no open descriptor
\* is forgotten holds in any case (fpm_stdio_child_said, fpm_child_close).
THEOREM StreamsKeptApart == Spec => []StreamsOwned
<1>1. ASSUME IInv PROVE StreamsOwned
  <2>0. io \in IO BY <1>1, TypeFacts DEF IInv
  <2>1. DescriptorsOwned BY <1>1 DEF IInv, OneToOne, DescriptorsOwned
  <2>2. WorkersHeard
    <3> SUFFICES ASSUME ~leftopen, NEW x \in Ev, proc[x[1]] = "run"
        PROVE  \E n \in Fd : /\ io.table[n] = mine[x]
                             /\ [fd |-> n, pipe |-> mine[x], ev |-> x] \in io.epoll
      BY DEF WorkersHeard
    <3>1. OneToOne(io) /\ io.fd[x] # NoFd BY <1>1 DEF IInv, WorkersOK
    <3>2. io.fd[x] \in Fd BY <2>0, <3>1 DEF IO
    <3>3. io.table[io.fd[x]] = mine[x] /\ [fd |-> io.fd[x], pipe |-> mine[x], ev |-> x] \in io.epoll
      BY <3>1 DEF OneToOne, Watched
    <3> QED BY <3>2, <3>3
  <2>3. NoLeak BY <1>1 DEF IInv, Tidy, TableOK, NoLeak
  <2> QED BY <2>1, <2>2, <2>3 DEF StreamsOwned
<1> QED BY <1>1, AlwaysInv, PTL

\* What a worker has written is never lost: no pipe is closed while something
\* is left in it (the last read in fpm_child_close), again unless a descendant
\* kept it open.
THEOREM LastWordsKept == Spec => []OutputKept
<1>1. IInv => OutputKept BY DEF IInv, OneToOne, OutputKept
<1> QED BY <1>1, AlwaysInv, PTL
=============================================================================
