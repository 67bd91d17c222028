--------------------------- MODULE StorageProofs ---------------------------
(* Theorems about Store and SessionFiles, what is on disk.  For any        *)
(* threads, items, runs of the daemon and number of operations, provided   *)
(* no two threads set the same item: what a set acknowledged is kept, and  *)
(* a failed append costs one other event at most.  For every list of       *)
(* globals and any number of turns: whatever mix of the three files of a   *)
(* session a crash or a failed save leaves, none is ahead of what accounts *)
(* for it; and what makes a restart lose globals is one sort of value.     *)
EXTENDS Store, SessionFiles, FiniteSetTheorems, TLAPS

----------------------------------------------------------------------------
(* The files of the store *)

Data == {Empty, Mixed, Default} \cup (Thread \X Nat)
Doing == [pc : {"idle", "write", "rename", "list"}, name : Name, text : Data,
          fd : Nat, todo : SUBSET Name, again : SUBSET Name]
Line == {"whole", "torn", "bad"}

Separate == \A t, u \in Thread : t # u => Writes[t] \cap Writes[u] = {}

StoreType ==
  /\ dir \in [Files -> Nat]
  /\ data \in Seq(Data)
  /\ thread \in [Thread -> Doing]
  /\ boot \in 1..MaxBoots
  /\ ops \in Nat
  /\ DOMAIN acked = Name

(* An inode has one name, so what is written behind one name is not seen   *)
(* behind another.                                                         *)
OneName ==
  \A f \in Files : dir[f] # 0 =>
     /\ dir[f] \in 1..Len(data)
     /\ \A g \in Files : dir[g] = dir[f] => g = f

(* The temporary file of a write under way is there, and it is the         *)
(* thread's own: empty until it writes, then its text.                     *)
OwnsTmp(t) ==
  /\ thread[t].name \in Writes[t]
  /\ thread[t].fd # 0 /\ dir[Tmp(thread[t].name)] = thread[t].fd
  /\ thread[t].pc = "write" => data[thread[t].fd] = Empty
  /\ thread[t].pc = "rename" => data[thread[t].fd] = thread[t].text

Kept == \A n \in Name : Content(File(n)) = acked[n]

FilesInv ==
  /\ StoreType
  /\ OneName
  /\ \A t \in Thread : thread[t].pc \in {"write", "rename"} => OwnsTmp(t)
  /\ Kept

Whole == {k \in DOMAIN log : log[k] = "whole"}

(* Each failure has lost its own line, and at most one after it: half a    *)
(* line at the end stands for the one it is going to lose.                 *)
LogInv ==
  /\ log \in Seq(Line)
  /\ tally.ok \in Nat /\ tally.failed \in Nat /\ tally = [ok |-> tally.ok, failed |-> tally.failed]
  /\ Cardinality(Whole) + tally.failed >= tally.ok + (IF Torn THEN 1 ELSE 0)
  /\ tally.failed = 0 => \A k \in DOMAIN log : log[k] = "whole"

LEMMA Names ==
  ASSUME boot \in 1..MaxBoots
  PROVE  /\ \A n \in Name : File(n) \in Files /\ Tmp(n) \in Files
         /\ \A n, m \in Name : File(n) # Tmp(m)
         /\ \A n, m \in Name : File(n) = File(m) => n = m
         /\ \A n, m \in Name : Tmp(n) = Tmp(m) => n = m
<1>1. \A n, m : <<n>> # <<m, boot>>
  OBVIOUS
<1>2. QED
  BY <1>1 DEF Files, File, Tmp

LEMMA IdleIsDoing == Idle \in Doing
BY StoreAssumption DEF Idle, Doing, Data

LEMMA FilesStep ==
  ASSUME Separate
  PROVE  FilesInv /\ [StoreNext]_storeVars => FilesInv'
<1> SUFFICES ASSUME FilesInv, [StoreNext]_storeVars PROVE FilesInv'
  OBVIOUS
<1>1. /\ dir \in [Files -> Nat] /\ data \in Seq(Data) /\ Len(data) \in Nat
      /\ thread \in [Thread -> Doing] /\ boot \in 1..MaxBoots /\ ops \in Nat
      /\ DOMAIN acked = Name /\ Prompt \in Name
  BY StoreAssumption DEF FilesInv, StoreType
<1>2. \A f \in Files : dir[f] # 0 =>
         /\ dir[f] \in 1..Len(data)
         /\ \A g \in Files : dir[g] = dir[f] => g = f
  BY DEF FilesInv, OneName
<1>3. \A t \in Thread : thread[t].pc \in {"write", "rename"} =>
         /\ thread[t].name \in Writes[t] /\ thread[t].name \in Name
         /\ thread[t].fd # 0 /\ dir[Tmp(thread[t].name)] = thread[t].fd
         /\ thread[t].pc = "write" => data[thread[t].fd] = Empty
         /\ thread[t].pc = "rename" => data[thread[t].fd] = thread[t].text
  BY <1>1 DEF FilesInv, OwnsTmp, Doing
<1>4. \A n \in Name : (IF dir[File(n)] = 0 THEN Absent ELSE data[dir[File(n)]]) = acked[n]
  BY DEF FilesInv, Kept, Content
<1>5. /\ \A n \in Name : File(n) \in Files /\ Tmp(n) \in Files
      /\ \A n, m \in Name : File(n) # Tmp(m)
      /\ \A n, m \in Name : File(n) = File(m) => n = m
      /\ \A n, m \in Name : Tmp(n) = Tmp(m) => n = m
  BY <1>1, Names
(* Two writes under way are of two items, in two temporary files.          *)
<1>6. \A t, u \in Thread : \A m \in Writes[u] : \A n \in Writes[t] : t # u => m # n
  BY DEF Separate
<1>7. Empty \in Data /\ Mixed \in Data /\ Default \in Data
  BY DEF Data
(* What is left to show of a step of one run.                              *)
<1>8. ASSUME StoreType', OneName', boot' = boot,
             \A t \in Thread : thread'[t].pc \in {"write", "rename"} =>
                /\ thread'[t].name \in Writes[t]
                /\ thread'[t].fd # 0 /\ dir'[Tmp(thread'[t].name)] = thread'[t].fd
                /\ thread'[t].pc = "write" => data'[thread'[t].fd] = Empty
                /\ thread'[t].pc = "rename" => data'[thread'[t].fd] = thread'[t].text,
             \A n \in Name : (IF dir'[File(n)] = 0 THEN Absent ELSE data'[dir'[File(n)]]) = acked'[n]
      PROVE  FilesInv'
  BY <1>8 DEF FilesInv, OwnsTmp, Kept, Content, Tmp, File
(* A step that leaves the files alone and starts or ends no write.         *)
<1>9. ASSUME UNCHANGED <<dir, data, acked>>, boot' \in 1..MaxBoots, ops' \in Nat,
             thread' \in [Thread -> Doing],
             \A t \in Thread : \/ thread'[t].pc \in {"idle", "list"}
                               \/ thread'[t] = thread[t] /\ boot' = boot
      PROVE  FilesInv'
  <2>1. StoreType' /\ OneName' /\ Kept'
    BY <1>1, <1>2, <1>4, <1>9 DEF StoreType, OneName, Kept, Content, Files, File
  <2>2. \A t \in Thread : thread'[t].pc \in {"write", "rename"} => OwnsTmp(t)'
    BY <1>3, <1>9 DEF OwnsTmp, Tmp
  <2>3. QED
    BY <2>1, <2>2 DEF FilesInv
<1>10. CASE EnsureFiles
  <2>1. CASE dir[File(Prompt)] # 0
    BY <1>1, <1>9, <1>10, <2>1 DEF EnsureFiles
  <2>2. CASE dir[File(Prompt)] = 0
    <3>1. /\ data' = Append(data, Default) /\ data' \in Seq(Data)
          /\ Len(data') = Len(data) + 1 /\ data'[Len(data) + 1] = Default
          /\ \A i \in 1..Len(data) : data'[i] = data[i]
          /\ dir' = [dir EXCEPT ![File(Prompt)] = Len(data) + 1]
          /\ acked' = [acked EXCEPT ![Prompt] = Default]
          /\ UNCHANGED <<thread, boot, ops>>
      <4>1. /\ data' = Append(data, Default) /\ UNCHANGED <<thread, boot, ops>>
            /\ dir' = [dir EXCEPT ![File(Prompt)] = Len(data')]
            /\ acked' = [acked EXCEPT ![Prompt] = Default]
        BY <1>10, <2>2 DEF EnsureFiles
      <4>2. /\ data' \in Seq(Data) /\ Len(data') = Len(data) + 1
            /\ data'[Len(data) + 1] = Default /\ \A i \in 1..Len(data) : data'[i] = data[i]
        BY <1>1, <1>7, <4>1
      <4>3. QED
        BY <4>1, <4>2
    <3>2. StoreType'
      <4>1. dir' \in [Files -> Nat]
        BY <1>1, <1>5, <3>1
      <4>2. DOMAIN acked' = Name
        BY <1>1, <3>1
      <4>3. QED
        BY <1>1, <3>1, <4>1, <4>2 DEF StoreType, Files
    <3>3. OneName'
      BY <1>1, <1>2, <1>5, <2>2, <3>1 DEF OneName, Files
    <3>4. \A t \in Thread : thread[t].pc \in {"write", "rename"} =>
             /\ dir'[Tmp(thread[t].name)] = thread[t].fd
             /\ data'[thread[t].fd] = data[thread[t].fd]
      BY <1>1, <1>2, <1>3, <1>5, <3>1
    <3>5. \A n \in Name : (IF dir'[File(n)] = 0 THEN Absent ELSE data'[dir'[File(n)]]) = acked'[n]
      BY <1>1, <1>2, <1>4, <1>5, <3>1
    <3>6. QED
      BY <1>3, <1>8, <3>1, <3>2, <3>3, <3>4, <3>5
  <2>3. QED
    BY <2>1, <2>2
<1>11. CASE GitInit \/ FirstCommit
  BY <1>1, <1>9, <1>11 DEF GitInit, FirstCommit
<1>12. ASSUME NEW t \in Thread, NEW n \in Name, OpenTmp(t, n) PROVE FilesInv'
  <2> DEFINE fd == IF dir[Tmp(n)] = 0 THEN Len(data) + 1 ELSE dir[Tmp(n)]
             doing == [Idle EXCEPT !.pc = "write", !.name = n, !.fd = fd, !.text = <<t, ops'>>]
  <2>1. /\ ops' = ops + 1 /\ n \in Writes[t] /\ boot' = boot /\ acked' = acked
        /\ data' = IF fd > Len(data) THEN Append(data, Empty) ELSE [data EXCEPT ![fd] = Empty]
        /\ dir' = [dir EXCEPT ![Tmp(n)] = fd]
        /\ thread' = [thread EXCEPT ![t] = doing]
    BY <1>12 DEF OpenTmp, Begin
  <2>2. /\ doing = [Idle EXCEPT !.pc = "write", !.name = n, !.fd = fd, !.text = <<t, ops + 1>>]
        /\ Tmp(n) \in Files /\ fd \in Nat /\ fd # 0
    <3>1. Tmp(n) \in Files /\ dir[Tmp(n)] \in Nat
      BY <1>1, <1>5
    <3>2. fd \in Nat /\ fd # 0
      BY <1>1, <3>1
    <3> HIDE DEF fd
    <3>3. doing = [Idle EXCEPT !.pc = "write", !.name = n, !.fd = fd, !.text = <<t, ops + 1>>]
      BY <2>1
    <3>4. QED
      BY <3>1, <3>2, <3>3
  <2>3. /\ doing \in Doing /\ doing.pc = "write" /\ doing.name = n /\ doing.fd = fd
    <3>1. <<t, ops + 1>> \in Data
      BY <1>1 DEF Data
    <3>2. QED
      BY <2>2, <3>1, IdleIsDoing DEF Doing
  <2>4. \/ fd = dir[Tmp(n)] /\ fd \in 1..Len(data)
        \/ dir[Tmp(n)] = 0 /\ fd = Len(data) + 1
    BY <1>2, <2>2
  <2> HIDE DEF fd, doing
  <2>5. /\ data' \in Seq(Data) /\ Len(data') >= Len(data) /\ fd \in 1..Len(data')
        /\ data'[fd] = Empty
        /\ \A i \in 1..Len(data) : i # fd => data'[i] = data[i]
    <3>1. CASE fd \in 1..Len(data)
      BY <1>1, <1>7, <2>1, <3>1
    <3>2. CASE fd = Len(data) + 1
      BY <1>1, <1>7, <2>1, <3>2
    <3>3. QED
      BY <2>4, <3>1, <3>2
  <2>6. StoreType'
    BY <1>1, <2>1, <2>2, <2>3, <2>5 DEF StoreType, Files
  <2>7. \A f \in Files : f # Tmp(n) => dir'[f] = dir[f] /\ (dir[f] # 0 => dir[f] # fd)
    BY <1>1, <1>2, <2>1, <2>2, <2>4
  <2>8. OneName'
    <3>1. \A f \in Files : dir'[f] # 0 =>
             /\ dir'[f] \in 1..Len(data')
             /\ \A g \in Files : dir'[g] = dir'[f] => g = f
      BY <1>1, <1>2, <2>1, <2>2, <2>5, <2>7
    <3>2. QED
      BY <3>1 DEF OneName, Files
  <2>9. thread'[t] = doing /\ \A u \in Thread : u # t => thread'[u] = thread[u]
    BY <1>1, <2>1
  <2>10. dir'[Tmp(n)] = fd
    BY <1>1, <2>1, <2>2
  <2>11. ASSUME NEW u \in Thread, thread'[u].pc \in {"write", "rename"}
         PROVE  /\ thread'[u].name \in Writes[u]
                /\ thread'[u].fd # 0 /\ dir'[Tmp(thread'[u].name)] = thread'[u].fd
                /\ thread'[u].pc = "write" => data'[thread'[u].fd] = Empty
                /\ thread'[u].pc = "rename" => data'[thread'[u].fd] = thread'[u].text
    <3>1. CASE u = t
      <4>1. thread'[u] = doing /\ doing.name = n /\ doing.fd = fd /\ doing.pc = "write"
        BY <2>3, <2>9, <3>1
      <4>2. n \in Writes[u]
        BY <2>1, <3>1
      <4>3. QED
        BY <2>2, <2>5, <2>10, <4>1, <4>2
    <3>2. CASE u # t
      <4>1. thread'[u] = thread[u] /\ thread[u].name # n
        BY <1>3, <1>6, <2>1, <2>9, <2>11, <3>2
      <4>2. Tmp(thread[u].name) # Tmp(n) /\ Tmp(thread[u].name) \in Files
        BY <1>3, <1>5, <2>11, <4>1
      <4>3. /\ dir'[Tmp(thread[u].name)] = thread[u].fd /\ thread[u].fd # fd
            /\ thread[u].fd \in 1..Len(data)
        BY <1>2, <1>3, <2>7, <2>11, <4>1, <4>2
      <4>4. QED
        BY <1>3, <2>5, <2>11, <4>1, <4>3
    <3>3. QED
      BY <3>1, <3>2
  <2>12. \A m \in Name : (IF dir'[File(m)] = 0 THEN Absent ELSE data'[dir'[File(m)]]) = acked'[m]
    BY <1>2, <1>4, <1>5, <2>1, <2>5, <2>7
  <2>13. QED
    BY <1>8, <2>1, <2>6, <2>8, <2>11, <2>12
<1>13. ASSUME NEW t \in Thread, WriteTmp(t) PROVE FilesInv'
  <2> DEFINE fd == thread[t].fd
             n == thread[t].name
  <2>1. /\ thread[t].pc = "write" /\ UNCHANGED <<dir, boot, ops, acked>>
        /\ \/ /\ data' = [data EXCEPT ![fd] = IF @ = Empty THEN thread[t].text ELSE Mixed]
              /\ thread' = [thread EXCEPT ![t].pc = "rename"]
           \/ /\ data' = [data EXCEPT ![fd] = Mixed]
              /\ thread' = [thread EXCEPT ![t] = Idle]
    BY <1>13 DEF WriteTmp
  <2>2. /\ n \in Writes[t] /\ n \in Name /\ fd # 0 /\ dir[Tmp(n)] = fd /\ data[fd] = Empty
        /\ fd \in 1..Len(data) /\ thread[t] \in Doing
    BY <1>1, <1>2, <1>3, <1>5, <2>1
  <2>3. thread[t].text \in Data
    BY <2>2 DEF Doing
  <2> HIDE DEF fd, n
  <2>4. \E x \in Data : data' = [data EXCEPT ![fd] = x]
    BY <1>1, <1>7, <2>1, <2>2, <2>3
  <2>5. /\ data' \in Seq(Data) /\ Len(data') = Len(data)
        /\ \A i \in 1..Len(data) : i # fd => data'[i] = data[i]
    BY <1>1, <2>2, <2>4
  <2>6. /\ \A u \in Thread : u # t => thread'[u] = thread[u]
        /\ thread'[t] \in Doing /\ thread'[t].pc \in {"rename", "idle"}
        /\ thread'[t].pc = "rename" =>
              /\ thread'[t].name = n /\ thread'[t].fd = fd /\ thread'[t].text = thread[t].text
              /\ data'[fd] = thread[t].text
        /\ thread' \in [Thread -> Doing]
    <3>1. CASE thread' = [thread EXCEPT ![t].pc = "rename"] /\ data' = [data EXCEPT ![fd] = IF @ = Empty THEN thread[t].text ELSE Mixed]
      <4>1. data'[fd] = thread[t].text
        BY <1>1, <2>2, <3>1
      <4>2. thread'[t] = [thread[t] EXCEPT !.pc = "rename"] /\ \A u \in Thread : u # t => thread'[u] = thread[u]
        BY <1>1, <3>1
      <4>3. /\ thread'[t] \in Doing /\ thread'[t].pc = "rename"
            /\ thread'[t].name = n /\ thread'[t].fd = fd /\ thread'[t].text = thread[t].text
        BY <2>2, <4>2 DEF Doing, n, fd
      <4>4. thread' \in [Thread -> Doing]
        BY <1>1, <3>1, <4>2, <4>3
      <4>5. QED
        BY <4>1, <4>2, <4>3, <4>4
    <3>2. CASE thread' = [thread EXCEPT ![t] = Idle]
      <4>1. Idle.pc = "idle" /\ Idle \in Doing
        BY IdleIsDoing DEF Idle
      <4>2. QED
        BY <1>1, <3>2, <4>1
    <3>3. QED
      BY <2>1, <3>1, <3>2
  <2>7. StoreType'
    BY <1>1, <2>1, <2>5, <2>6 DEF StoreType, Files
  <2>8. OneName'
    BY <1>2, <2>1, <2>5 DEF OneName, Files
  <2>9. ASSUME NEW u \in Thread, thread'[u].pc \in {"write", "rename"}
        PROVE  /\ thread'[u].name \in Writes[u]
               /\ thread'[u].fd # 0 /\ dir'[Tmp(thread'[u].name)] = thread'[u].fd
               /\ thread'[u].pc = "write" => data'[thread'[u].fd] = Empty
               /\ thread'[u].pc = "rename" => data'[thread'[u].fd] = thread'[u].text
    <3>1. CASE u = t
      BY <2>1, <2>2, <2>6, <2>9, <3>1
    <3>2. CASE u # t
      <4>1. thread'[u] = thread[u] /\ thread[u].name # n
        BY <1>3, <1>6, <2>2, <2>6, <2>9, <3>2
      <4>2. thread[u].fd # fd /\ thread[u].fd \in 1..Len(data)
        BY <1>2, <1>3, <1>5, <2>2, <2>9, <4>1
      <4>3. QED
        BY <1>3, <2>1, <2>5, <2>9, <4>1, <4>2
    <3>3. QED
      BY <3>1, <3>2
  <2>10. \A m \in Name : (IF dir'[File(m)] = 0 THEN Absent ELSE data'[dir'[File(m)]]) = acked'[m]
    BY <1>2, <1>4, <1>5, <2>1, <2>2, <2>5
  <2>11. QED
    BY <1>8, <2>1, <2>7, <2>8, <2>9, <2>10
<1>14. ASSUME NEW t \in Thread, RenameTmp(t) PROVE FilesInv'
  <2> DEFINE fd == thread[t].fd
             n == thread[t].name
  <2>1. /\ n \in Writes[t] /\ n \in Name /\ fd # 0 /\ dir[Tmp(n)] = fd
        /\ data[fd] = thread[t].text
    BY <1>3, <1>14 DEF RenameTmp
  <2>2. /\ thread' = [thread EXCEPT ![t] = Idle] /\ UNCHANGED <<data, boot, ops>>
        /\ dir' = [dir EXCEPT ![File(n)] = fd, ![Tmp(n)] = 0]
        /\ acked' = [acked EXCEPT ![n] = thread[t].text]
    BY <1>14, <2>1 DEF RenameTmp
  <2> HIDE DEF fd, n
  <2>3. /\ File(n) \in Files /\ Tmp(n) \in Files /\ File(n) # Tmp(n)
        /\ dir'[File(n)] = fd /\ dir'[Tmp(n)] = 0
        /\ \A f \in Files : f # File(n) /\ f # Tmp(n) => dir'[f] = dir[f] /\ dir[f] # fd
        /\ dir' \in [Files -> Nat]
    BY <1>1, <1>2, <1>5, <2>1, <2>2
  <2>4. /\ Idle.pc = "idle" /\ Idle \in Doing
        /\ thread'[t] = Idle /\ \A u \in Thread : u # t => thread'[u] = thread[u]
        /\ thread' \in [Thread -> Doing]
    BY <1>1, <2>2, IdleIsDoing DEF Idle
  <2>5. StoreType'
    BY <1>1, <2>2, <2>3, <2>4 DEF StoreType, Files
  <2>6. OneName'
    <3>1. \A f \in Files : dir'[f] # 0 =>
             /\ dir'[f] \in 1..Len(data')
             /\ \A g \in Files : dir'[g] = dir'[f] => g = f
      BY <1>2, <2>1, <2>2, <2>3
    <3>2. QED
      BY <3>1 DEF OneName, Files
  <2>7. ASSUME NEW u \in Thread, thread'[u].pc \in {"write", "rename"}
        PROVE  /\ thread'[u].name \in Writes[u]
               /\ thread'[u].fd # 0 /\ dir'[Tmp(thread'[u].name)] = thread'[u].fd
               /\ thread'[u].pc = "write" => data'[thread'[u].fd] = Empty
               /\ thread'[u].pc = "rename" => data'[thread'[u].fd] = thread'[u].text
    <3>1. u # t /\ thread'[u] = thread[u]
      BY <2>4, <2>7
    <3>2. thread[u].name # n /\ thread[u].name \in Name
      BY <1>3, <1>6, <2>1, <2>7, <3>1
    <3>3. /\ Tmp(thread[u].name) \in Files
          /\ Tmp(thread[u].name) # Tmp(n) /\ Tmp(thread[u].name) # File(n)
      BY <1>5, <2>1, <3>2
    <3>4. QED
      BY <1>3, <2>2, <2>3, <2>7, <3>1, <3>3
  <2>8. ASSUME NEW m \in Name
        PROVE  (IF dir'[File(m)] = 0 THEN Absent ELSE data'[dir'[File(m)]]) = acked'[m]
    <3>1. CASE m = n
      BY <1>1, <2>1, <2>2, <2>3, <3>1
    <3>2. CASE m # n
      <4>1. dir'[File(m)] = dir[File(m)] /\ acked'[m] = acked[m]
        BY <1>1, <1>5, <2>1, <2>2, <2>3, <3>2
      <4>2. QED
        BY <1>4, <2>2, <4>1
    <3>3. QED
      BY <3>1, <3>2
  <2>9. QED
    BY <1>8, <2>2, <2>5, <2>6, <2>7, <2>8
<1>15. ASSUME NEW t \in Thread, NEW n \in Name, Del(t, n) PROVE FilesInv'
  <2>1. /\ dir' = [dir EXCEPT ![File(n)] = 0] /\ acked' = [acked EXCEPT ![n] = Absent]
        /\ UNCHANGED <<data, thread, boot>> /\ ops' = ops + 1
    BY <1>15 DEF Del, Begin
  <2>2. /\ dir'[File(n)] = 0 /\ \A f \in Files : f # File(n) => dir'[f] = dir[f]
        /\ dir' \in [Files -> Nat]
    BY <1>1, <1>5, <2>1
  <2>3. StoreType'
    BY <1>1, <2>1, <2>2 DEF StoreType, Files
  <2>4. OneName'
    BY <1>2, <2>1, <2>2 DEF OneName, Files
  <2>5. \A u \in Thread : thread[u].pc \in {"write", "rename"} =>
           dir'[Tmp(thread[u].name)] = thread[u].fd
    BY <1>3, <1>5, <2>2
  <2>6. \A m \in Name : (IF dir'[File(m)] = 0 THEN Absent ELSE data'[dir'[File(m)]]) = acked'[m]
    BY <1>1, <1>4, <1>5, <2>1, <2>2
  <2>7. QED
    BY <1>3, <1>8, <2>1, <2>3, <2>4, <2>5, <2>6
<1>16. ASSUME NEW t \in Thread, NEW search \in BOOLEAN, List(t, search) PROVE FilesInv'
  <2> DEFINE doing == [Idle EXCEPT !.pc = "list", !.todo = Items,
                                   !.again = IF search THEN Items ELSE {}]
  <2>1. /\ UNCHANGED <<dir, data, boot, acked>> /\ ops' = ops + 1
        /\ thread' = [thread EXCEPT ![t] = doing]
    BY <1>16 DEF List, Begin
  <2>2. doing.pc = "list" /\ doing \in Doing
    <3>1. Items \subseteq Name
      BY DEF Items
    <3>2. (IF search THEN Items ELSE {}) \subseteq Name
      BY <3>1
    <3> DEFINE again == IF search THEN Items ELSE {}
    <3> HIDE DEF again
    <3>4. again \subseteq Name
      BY <3>2 DEF again
    <3>5. /\ [Idle EXCEPT !.pc = "list", !.todo = Items, !.again = again].pc = "list"
          /\ [Idle EXCEPT !.pc = "list", !.todo = Items, !.again = again] \in Doing
      BY <3>1, <3>4, IdleIsDoing DEF Doing
    <3>6. QED
      BY <3>5 DEF again
  <2> HIDE DEF doing
  <2>3. thread' \in [Thread -> Doing] /\ \A u \in Thread : thread'[u].pc = "list" \/ thread'[u] = thread[u]
    BY <1>1, <2>1, <2>2
  <2>4. QED
    BY <1>1, <1>9, <2>1, <2>3
<1>17. ASSUME NEW t \in Thread, ReadItem(t) PROVE FilesInv'
  <2>1. /\ thread[t].pc = "list" /\ thread[t] \in Doing
        /\ UNCHANGED <<dir, data, boot, acked, ops>>
    BY <1>1, <1>17 DEF ReadItem
  <2>2. \E d \in Doing : d.pc \in {"idle", "list"} /\ thread' = [thread EXCEPT ![t] = d]
    <3>1. Idle \in Doing /\ Idle.pc = "idle"
      BY IdleIsDoing DEF Idle
    <3>2. ASSUME NEW n
          PROVE  /\ [thread[t] EXCEPT !.todo = @ \ {n}] \in Doing
                 /\ [thread[t] EXCEPT !.todo = @ \ {n}].pc = "list"
                 /\ [thread[t] EXCEPT !.again = @ \ {n}] \in Doing
                 /\ [thread[t] EXCEPT !.again = @ \ {n}].pc = "list"
      BY <2>1 DEF Doing
    <3>3. \/ thread' = [thread EXCEPT ![t] = Idle]
          \/ \E n : \/ thread' = [thread EXCEPT ![t] = [thread[t] EXCEPT !.todo = @ \ {n}]]
                    \/ thread' = [thread EXCEPT ![t] = [thread[t] EXCEPT !.again = @ \ {n}]]
      BY <1>17 DEF ReadItem
    <3>4. QED
      BY <3>1, <3>2, <3>3
  <2>3. thread' \in [Thread -> Doing] /\ \A u \in Thread : thread'[u].pc \in {"idle", "list"} \/ thread'[u] = thread[u]
    BY <1>1, <2>2
  <2>4. QED
    BY <1>1, <1>9, <2>1, <2>3
<1>18. ASSUME NEW t \in Thread, AppendTrajectory(t) PROVE FilesInv'
  BY <1>1, <1>9, <1>18 DEF AppendTrajectory, Begin
<1>19. CASE Crash
  <2>1. /\ UNCHANGED <<dir, data, acked, ops>> /\ boot' \in 1..MaxBoots
        /\ thread' = [u \in Thread |-> Idle]
    BY <1>1, <1>19, StoreAssumption DEF Crash
  <2>2. Idle \in Doing /\ Idle.pc = "idle"
    BY IdleIsDoing DEF Idle
  <2>3. thread' \in [Thread -> Doing] /\ \A u \in Thread : thread'[u].pc = "idle"
    BY <2>1, <2>2
  <2>4. QED
    BY <1>1, <1>9, <2>1, <2>3
<1>20. CASE UNCHANGED storeVars
  BY <1>1, <1>9, <1>20 DEF storeVars
<1>21. QED
  BY <1>10, <1>11, <1>12, <1>13, <1>14, <1>15, <1>16, <1>17, <1>18, <1>19, <1>20 DEF StoreNext

----------------------------------------------------------------------------
(* The trajectory *)

(* A line more, and what it adds to the whole ones.                        *)
LEMMA LineAppended ==
  ASSUME NEW s \in Seq(Line), NEW x \in Line
  PROVE  LET W(l) == {k \in DOMAIN l : l[k] = "whole"}
         IN  /\ Append(s, x) \in Seq(Line)
             /\ Cardinality(W(s)) \in Nat
             /\ Cardinality(W(Append(s, x))) =
                  Cardinality(W(s)) + (IF x = "whole" THEN 1 ELSE 0)
<1> DEFINE W(l) == {k \in DOMAIN l : l[k] = "whole"}
           t == Append(s, x)
<1>1. /\ Len(s) \in Nat /\ DOMAIN s = 1..Len(s) /\ DOMAIN t = 1..(Len(s) + 1)
      /\ t[Len(s) + 1] = x /\ \A k \in 1..Len(s) : t[k] = s[k]
      /\ t \in Seq(Line)
  OBVIOUS
<1>2. IsFiniteSet(W(s))
  <2>1. IsFiniteSet(1..Len(s))
    BY <1>1, FS_Interval
  <2>2. W(s) \in SUBSET (1..Len(s))
    BY <1>1
  <2>3. QED
    BY <2>1, <2>2, FS_Subset
<1>3. Len(s) + 1 \notin W(s)
  BY <1>1
<1>4. W(t) = IF x = "whole" THEN W(s) \cup {Len(s) + 1} ELSE W(s)
  BY <1>1
<1>5. Cardinality(W(s)) \in Nat
  BY <1>2, FS_CardinalityType
<1>6. Cardinality(W(s) \cup {Len(s) + 1}) = Cardinality(W(s)) + 1
  BY <1>2, <1>3, FS_AddElement
<1> HIDE DEF W, t
<1>7. Cardinality(W(t)) = Cardinality(W(s)) + (IF x = "whole" THEN 1 ELSE 0)
  BY <1>4, <1>5, <1>6
<1>8. QED
  BY <1>1, <1>5, <1>7 DEF W, t

LEMMA LogStep == LogInv /\ [StoreNext]_storeVars => LogInv'
<1> SUFFICES ASSUME LogInv, [StoreNext]_storeVars PROVE LogInv'
  OBVIOUS
<1>1. ASSUME UNCHANGED <<log, tally>> PROVE LogInv'
  BY <1>1 DEF LogInv, Whole, Torn
<1>2. ASSUME NEW t \in Thread, AppendTrajectory(t) PROVE LogInv'
  <2>0. /\ log \in Seq(Line) /\ tally.ok \in Nat /\ tally.failed \in Nat
        /\ tally = [ok |-> tally.ok, failed |-> tally.failed]
        /\ Len(log) \in Nat /\ DOMAIN log = 1..Len(log)
        /\ Cardinality(Whole) + tally.failed >= tally.ok + (IF Torn THEN 1 ELSE 0)
        /\ tally.failed = 0 => \A k \in DOMAIN log : log[k] = "whole"
        /\ {"whole", "torn", "bad"} \subseteq Line
    BY DEF LogInv, Line
  <2>1. Cardinality(Whole) \in Nat
    BY <2>0, LineAppended DEF Whole
  <2>2. /\ Torn <=> log # <<>> /\ log[Len(log)] = "torn"
        /\ Torn' <=> log' # <<>> /\ log'[Len(log')] = "torn"
    BY DEF Torn, Last
  <2>3. CASE ~Torn /\ log' = Append(log, "whole") /\ tally' = [tally EXCEPT !.ok = @ + 1]
    <3>1. Cardinality(Whole') = Cardinality(Whole) + 1 /\ log' \in Seq(Line)
      BY <2>0, <2>3, LineAppended DEF Whole
    <3>2. /\ ~Torn' /\ tally'.ok = tally.ok + 1 /\ tally'.failed = tally.failed
          /\ tally' = [ok |-> tally.ok + 1, failed |-> tally.failed]
          /\ \A k \in DOMAIN log' : \/ k \in DOMAIN log /\ log'[k] = log[k]
                                   \/ log'[k] = "whole"
      BY <2>0, <2>2, <2>3
    <3>3. QED
      BY <2>0, <2>1, <2>3, <3>1, <3>2 DEF LogInv
  <2>4. CASE Torn /\ log' = Front(log) \o <<"bad">> /\ tally' = [tally EXCEPT !.ok = @ + 1]
    <3>1. /\ Len(log) >= 1
          /\ Front(log) \in Seq(Line) /\ Len(Front(log)) = Len(log) - 1
          /\ \A k \in 1..(Len(log) - 1) : Front(log)[k] = log[k]
      <4>1. Len(log) >= 1 /\ Len(log) - 1 \in Nat
        BY <2>0, <2>2, <2>4
      <4>2. QED
        BY <2>0, <4>1 DEF Front
    <3>2. log' = Append(Front(log), "bad")
      BY <2>4, <3>1
    <3>3. /\ log' \in Seq(Line) /\ Len(log') = Len(log) /\ log'[Len(log)] = "bad"
          /\ \A k \in 1..(Len(log) - 1) : log'[k] = log[k]
      <4>1. ASSUME NEW f \in Seq(Line), NEW x \in Line
            PROVE  /\ Append(f, x) \in Seq(Line) /\ Len(Append(f, x)) = Len(f) + 1
                   /\ Append(f, x)[Len(f) + 1] = x
                   /\ \A k \in 1..Len(f) : Append(f, x)[k] = f[k]
        OBVIOUS
      <4>2. "bad" \in Line /\ Len(log) - 1 + 1 = Len(log)
        BY <2>0
      <4>3. QED
        BY <3>1, <3>2, <4>1, <4>2
    <3>4. Whole' = Whole
      BY <2>0, <2>2, <2>4, <3>3 DEF Whole
    <3>5. /\ ~Torn' /\ tally'.ok = tally.ok + 1 /\ tally'.failed = tally.failed
          /\ tally' = [ok |-> tally.ok + 1, failed |-> tally.failed]
      BY <2>0, <2>2, <2>4, <3>3
    <3>6. tally.failed # 0
      <4>1. Len(log) \in DOMAIN log /\ log[Len(log)] # "whole"
        BY <2>0, <2>2, <2>4
      <4>2. QED
        BY <2>0, <4>1
    <3>7. Torn
      BY <2>4
    <3>8. QED
      BY <2>0, <2>1, <3>3, <3>4, <3>5, <3>6, <3>7 DEF LogInv
  <2>5. CASE ~Torn /\ log' = Append(log, "torn") /\ tally' = [tally EXCEPT !.failed = @ + 1]
    <3>1. Cardinality(Whole') = Cardinality(Whole) /\ log' \in Seq(Line)
      BY SMTT(30), <2>0, <2>1, <2>5, LineAppended DEF Whole
    <3>2. /\ tally'.ok = tally.ok /\ tally'.failed = tally.failed + 1
          /\ tally' = [ok |-> tally.ok, failed |-> tally.failed + 1]
      BY <2>0, <2>5
    <3>3. QED
      BY SMTT(30), <2>0, <2>1, <2>5, <3>1, <3>2 DEF LogInv
  <2>6. CASE Torn /\ log' = log /\ tally' = [tally EXCEPT !.failed = @ + 1]
    <3>1. /\ tally'.ok = tally.ok /\ tally'.failed = tally.failed + 1
          /\ tally' = [ok |-> tally.ok, failed |-> tally.failed + 1]
      BY <2>0, <2>6
    <3>2. Whole' = Whole /\ (Torn' <=> Torn)
      BY <2>2, <2>6 DEF Whole
    <3>3. QED
      BY <2>0, <2>1, <2>6, <3>1, <3>2 DEF LogInv
  <2>7. QED
    BY <1>2, <2>3, <2>4, <2>5, <2>6 DEF AppendTrajectory
<1>3. CASE UNCHANGED storeVars
  BY <1>1, <1>3 DEF storeVars
<1>4. ASSUME NEW t \in Thread, NEW n \in Name, OpenTmp(t, n) \/ Del(t, n) PROVE LogInv'
  BY <1>1, <1>4 DEF OpenTmp, Del
<1>5. ASSUME NEW t \in Thread, NEW search \in BOOLEAN, List(t, search) PROVE LogInv'
  BY <1>1, <1>5 DEF List
<1>6. ASSUME NEW t \in Thread, WriteTmp(t) \/ RenameTmp(t) \/ ReadItem(t) PROVE LogInv'
  BY <1>1, <1>6 DEF WriteTmp, RenameTmp, ReadItem
<1>7. CASE EnsureFiles \/ GitInit \/ FirstCommit \/ Crash
  BY <1>1, <1>7 DEF EnsureFiles, GitInit, FirstCommit, Crash
<1>8. QED
  BY <1>2, <1>3, <1>4, <1>5, <1>6, <1>7 DEF StoreNext

(* A tail of whole lines has as many of them as it was asked for.          *)
LEMMA TailOfWholeLines ==
  ASSUME log \in Seq(Line), \A k \in DOMAIN log : log[k] = "whole", NEW n \in 0..Len(log)
  PROVE  Len(TrajectoryTail(n)) = n
<1> DEFINE first == IF n < Len(log) THEN Len(log) - n + 1 ELSE 1
           lines == SubSeq(log, first, Len(log))
<1>1. /\ Len(log) \in Nat /\ first \in 1..(Len(log) + 1) /\ Len(log) - first + 1 = n
  OBVIOUS
<1>2. /\ Len(lines) = n /\ DOMAIN lines = 1..n
      /\ \A k \in 1..n : lines[k] = log[first + k - 1] /\ first + k - 1 \in DOMAIN log
  <2> HIDE DEF first
  <2>1. QED
    BY <1>1
<1>3. \A k \in DOMAIN lines : lines[k] = "whole"
  BY <1>2
<1>4. TrajectoryTail(n) = IF \A k \in DOMAIN lines : lines[k] = "whole" THEN lines ELSE "error"
  BY DEF TrajectoryTail
<1>5. QED
  BY <1>2, <1>3, <1>4

(* Whatever writes fail or are abandoned and whenever the process dies,    *)
(* while no two threads set the same item: the file of each holds, whole,  *)
(* what the last set that succeeded gave it, until it is deleted; and an   *)
(* append that fails costs the trajectory one more event than its own.     *)
THEOREM AckedStaysKept ==
  ASSUME Separate
  PROVE  StoreInit /\ [][StoreNext]_storeVars => []AckedIsKept
<1>1. StoreInit => FilesInv
  <2> SUFFICES ASSUME StoreInit PROVE FilesInv
    OBVIOUS
  <2>1. /\ dir = [f \in Files |-> 0] /\ data = <<>> /\ thread = [t \in Thread |-> Idle]
        /\ boot = 1 /\ ops = 0 /\ acked = [n \in Name |-> Absent]
    BY DEF StoreInit
  <2>2. boot \in 1..MaxBoots
    BY <2>1, StoreAssumption
  <2>3. StoreType
    BY <2>1, <2>2, IdleIsDoing DEF StoreType
  <2>4. OneName
    BY <2>1 DEF OneName
  <2>5. \A t \in Thread : thread[t].pc = "idle"
    BY <2>1 DEF Idle
  <2>6. Kept
    BY <2>1, <2>2, Names DEF Kept, Content
  <2>7. QED
    BY <2>3, <2>4, <2>5, <2>6 DEF FilesInv
<1>2. StoreInit => LogInv
  <2> SUFFICES ASSUME StoreInit PROVE LogInv
    OBVIOUS
  <2>1. log = <<>> /\ tally = [ok |-> 0, failed |-> 0]
    BY DEF StoreInit
  <2>2. Whole = {} /\ ~Torn
    BY <2>1 DEF Whole, Torn
  <2>3. QED
    BY <2>1, <2>2, FS_EmptySet DEF LogInv
<1>3. FilesInv /\ LogInv => AckedIsKept
  <2> SUFFICES ASSUME FilesInv, LogInv PROVE AckedIsKept
    OBVIOUS
  <2>1. \A n \in Name : Content(File(n)) = acked[n]
    BY DEF FilesInv, Kept
  <2>2. Cardinality(Whole) \in Nat
    BY LineAppended DEF LogInv, Whole, Line
  <2>3. Cardinality({k \in DOMAIN log : log[k] = "whole"}) >= tally.ok - tally.failed
    BY <2>2 DEF LogInv, Whole
  <2>4. tally.failed = 0 => \A n \in 0..Len(log) : Len(TrajectoryTail(n)) = n
    BY TailOfWholeLines DEF LogInv
  <2>5. QED
    BY <2>1, <2>3, <2>4 DEF AckedIsKept
<1>4. QED
  BY <1>1, <1>2, <1>3, FilesStep, LogStep, PTL

----------------------------------------------------------------------------
(* The files of a session *)

Kind == {"nil", "data", "closure", "cyclic", "infinite", "thread"} \cup Failing
Value == [kind : Kind, turn : Nat]
Lua == [Range(Globals) -> Value]

SavedType ==
  /\ live \in [turns : Int, history : Nat, lua : Lua, running : BOOLEAN]
  /\ saving \in {"no", "history", "lua"}
  /\ disk \in [turns : Int, history : Int, lua : Lua]
  /\ Alive => live.turns >= 0

(* A save is that of a session in RAM, and the files it has replaced say   *)
(* what the session does: the session cannot take a turn during its save.  *)
SaveInOrder ==
  /\ saving # "no" => Alive /\ disk.turns = live.turns
  /\ saving = "lua" => disk.history = live.history

(* The files are never ahead of the session they are of.                   *)
SavedBehind ==
  Alive => disk.turns <= live.turns /\ disk.history <= live.history

SavedInv == SavedType /\ SaveInOrder /\ SavedBehind /\ NothingAheadOfItsTurn

(* What a dump and a restore make of the globals: each is one of the       *)
(* globals there were, or nothing.                                         *)
LEMMA DumpAndRestore ==
  ASSUME NEW lua \in Lua
  PROVE  /\ Dumped(lua) \in Lua /\ Restored(lua) \in Lua
         /\ \A g \in Range(Globals) : /\ Dumped(lua)[g] \in {lua[g], Nothing}
                                      /\ Restored(lua)[g] \in {lua[g], Nothing}
<1>1. DOMAIN lua = Range(Globals) /\ Nothing \in Value /\ \A g \in Range(Globals) : lua[g] \in Value
  BY DEF Lua, Value, Kind, Nothing
<1>2. \A g \in Range(Globals) : Assigned(lua[g]) \in {lua[g], Nothing}
  BY DEF Assigned
<1>3. \A g \in Range(Globals) : Dumped(lua)[g] \in {lua[g], Nothing}
  BY <1>1 DEF Dumped
<1>4. \A g \in Range(Globals) : Restored(lua)[g] \in {lua[g], Nothing}
  BY <1>1, <1>2 DEF Restored
<1>5. Dumped(lua) = [g \in Range(Globals) |-> Dumped(lua)[g]]
  BY <1>1 DEF Dumped
<1>6. Restored(lua) = [g \in Range(Globals) |-> Restored(lua)[g]]
  BY <1>1 DEF Restored
<1>7. QED
  BY <1>1, <1>3, <1>4, <1>5, <1>6 DEF Lua

(* No session in RAM, and one that was just created.                       *)
LEMMA SavedConstants ==
  /\ NoGlobals \in Lua /\ \A g \in Range(Globals) : NoGlobals[g] = Nothing
  /\ Nothing.turn = 0
  /\ NotLive.turns = -1 /\ NotLive.running = FALSE
  /\ NotLive \in [turns : Int, history : Nat, lua : Lua, running : BOOLEAN]
  /\ Created \in [turns : Int, history : Nat, lua : Lua, running : BOOLEAN]
  /\ Created.turns = 0 /\ Created.history = 0 /\ Created.lua = NoGlobals
<1>1. Nothing \in Value
  BY DEF Nothing, Value, Kind
<1>2. NoGlobals \in Lua /\ \A g \in Range(Globals) : NoGlobals[g] = Nothing
  BY <1>1 DEF NoGlobals, Lua
<1>3. QED
  BY <1>2 DEF Nothing, NotLive, Created

LEMMA SavedStart == SessionInit => SavedInv
<1> SUFFICES ASSUME SessionInit PROVE SavedInv
  OBVIOUS
<1>1. /\ live = Created /\ saving = "no"
      /\ disk = [turns |-> -1, history |-> -1, lua |-> NoGlobals]
  BY DEF SessionInit
<1>2. DOMAIN live.lua = Range(Globals) /\ DOMAIN disk.lua = Range(Globals)
  BY <1>1, SavedConstants DEF Lua
<1>3. QED
  BY <1>1, <1>2, SavedConstants
     DEF SavedInv, SavedType, SaveInOrder, SavedBehind, NothingAheadOfItsTurn

LEMMA SavedStep == SavedInv /\ [SessionNext]_sessionVars => SavedInv'
<1> SUFFICES ASSUME SavedInv, [SessionNext]_sessionVars PROVE SavedInv'
  OBVIOUS
<1>0. /\ live \in [turns : Int, history : Nat, lua : Lua, running : BOOLEAN]
      /\ disk \in [turns : Int, history : Int, lua : Lua]
      /\ saving \in {"no", "history", "lua"}
      /\ DOMAIN live.lua = Range(Globals) /\ DOMAIN disk.lua = Range(Globals)
      /\ \A g \in Range(Globals) : live.lua[g].turn \in Nat /\ disk.lua[g].turn \in Nat
  BY DEF SavedInv, SavedType, Lua, Value
<1>1. /\ disk.history <= disk.turns
      /\ \A g \in Range(Globals) : disk.lua[g] # Nothing => disk.lua[g].turn <= disk.history
      /\ Alive => /\ live.turns >= 0 /\ live.history <= live.turns
                  /\ disk.turns <= live.turns /\ disk.history <= live.history
                  /\ \A g \in Range(Globals) : live.lua[g].turn <= live.history
      /\ saving # "no" => Alive /\ disk.turns = live.turns
      /\ saving = "lua" => disk.history = live.history
  BY <1>0 DEF SavedInv, SavedType, SaveInOrder, SavedBehind, NothingAheadOfItsTurn
(* What is left to show of a step.                                         *)
<1>2. ASSUME live' \in [turns : Int, history : Nat, lua : Lua, running : BOOLEAN],
             disk' \in [turns : Int, history : Int, lua : Lua],
             saving' \in {"no", "history", "lua"},
             disk'.history <= disk'.turns,
             \A g \in Range(Globals) : disk'.lua[g] # Nothing => disk'.lua[g].turn <= disk'.history,
             Alive' => /\ live'.turns >= 0 /\ live'.history <= live'.turns
                       /\ disk'.turns <= live'.turns /\ disk'.history <= live'.history
                       /\ \A g \in Range(Globals) : live'.lua[g].turn <= live'.history,
             saving' # "no" => Alive' /\ disk'.turns = live'.turns,
             saving' = "lua" => disk'.history = live'.history
      PROVE  SavedInv'
  <2>1. DOMAIN live'.lua = Range(Globals) /\ DOMAIN disk'.lua = Range(Globals)
    BY <1>2 DEF Lua
  <2>2. QED
    BY <1>2, <2>1 DEF SavedInv, SavedType, SaveInOrder, SavedBehind, NothingAheadOfItsTurn
<1>3. CASE MakeRepl
  <2>1. /\ Alive /\ saving = "no" /\ UNCHANGED <<saving, disk>>
        /\ live' = [live EXCEPT !.running = TRUE, !.lua = Restored(disk.lua)]
    BY <1>3 DEF MakeRepl
  <2>2. Restored(disk.lua) \in Lua /\ \A g \in Range(Globals) : Restored(disk.lua)[g] \in {disk.lua[g], Nothing}
    BY <1>0, DumpAndRestore
  <2>3. /\ live' \in [turns : Int, history : Nat, lua : Lua, running : BOOLEAN]
        /\ live'.turns = live.turns /\ live'.history = live.history
        /\ live'.lua = Restored(disk.lua)
    BY <1>0, <2>1, <2>2
  <2>4. \A g \in Range(Globals) : live'.lua[g].turn <= live'.history
    BY <1>0, <1>1, <2>1, <2>2, <2>3, SavedConstants
  <2>5. QED
    BY <1>0, <1>1, <1>2, <2>1, <2>3, <2>4
<1>4. ASSUME NEW g \in Range(Globals), NEW k \in Kinds, Turn(g, k) PROVE SavedInv'
  <2>1. /\ live.running /\ saving = "no" /\ UNCHANGED <<saving, disk>>
        /\ live' = [live EXCEPT !.turns = @ + 1, !.history = live.turns + 1,
                                !.lua[g] = [kind |-> k, turn |-> live.turns + 1]]
    BY <1>4 DEF Turn
  <2>2. Alive
    BY <2>1, SavedConstants DEF Alive
  <2>3. [kind |-> k, turn |-> live.turns + 1] \in Value
    <3>1. k \in Kind
      BY FilesAssumption DEF Kind
    <3>2. live.turns + 1 \in Nat
      BY <1>0, <1>1, <2>2
    <3>3. QED
      BY <3>1, <3>2 DEF Value
  <2>4. /\ live'.turns = live.turns + 1 /\ live'.history = live.turns + 1
        /\ live'.lua = [live.lua EXCEPT ![g] = [kind |-> k, turn |-> live.turns + 1]]
        /\ live'.running = live.running /\ DOMAIN live' = DOMAIN live
    BY <1>0, <2>1
  <2>5. live'.lua \in Lua /\ \A h \in Range(Globals) : live'.lua[h].turn <= live.turns + 1
    <3>1. live'.lua \in Lua
      BY <1>0, <2>3, <2>4 DEF Lua
    <3>2. ASSUME NEW h \in Range(Globals) PROVE live'.lua[h].turn <= live.turns + 1
      <4>1. CASE h = g
        BY <1>0, <2>4, <4>1
      <4>2. CASE h # g
        BY <1>0, <1>1, <2>2, <2>4, <4>2
      <4>3. QED
        BY <4>1, <4>2
    <3>3. QED
      BY <3>1, <3>2
  <2>6. live' \in [turns : Int, history : Nat, lua : Lua, running : BOOLEAN]
    <3>1. live' = [turns |-> live.turns + 1, history |-> live.turns + 1,
                   lua |-> live'.lua, running |-> live.running]
      BY <1>0, <2>1
    <3>2. live.turns + 1 \in Nat
      BY <1>0, <1>1, <2>2
    <3>3. QED
      BY <1>0, <2>5, <3>1, <3>2
  <2>7. QED
    BY <1>0, <1>1, <1>2, <2>1, <2>2, <2>3, <2>4, <2>5, <2>6
<1>5. CASE SaveMeta
  <2>1. /\ Alive /\ saving = "no" /\ saving' = "history" /\ live' = live
        /\ disk' = [disk EXCEPT !.turns = live.turns]
    BY <1>5 DEF SaveMeta
  <2>2. /\ disk' \in [turns : Int, history : Int, lua : Lua]
        /\ disk'.turns = live.turns /\ disk'.history = disk.history /\ disk'.lua = disk.lua
    BY <1>0, <2>1
  <2>3. Alive'
    BY <2>1 DEF Alive, NotLive, NoGlobals, Nothing
  <2>4. QED
    BY <1>0, <1>1, <1>2, <2>1, <2>2, <2>3
<1>6. CASE SaveHistory
  <2>1. /\ saving = "history" /\ saving' \in {"no", "lua"} /\ live' = live
        /\ disk' = [disk EXCEPT !.history = live.history]
    BY <1>6 DEF SaveHistory
  <2>2. /\ disk' \in [turns : Int, history : Int, lua : Lua]
        /\ disk'.history = live.history /\ disk'.turns = disk.turns /\ disk'.lua = disk.lua
    BY <1>0, <2>1
  <2>3. Alive /\ Alive'
    BY <1>1, <2>1 DEF Alive, NotLive, NoGlobals, Nothing
  <2>4. QED
    BY <1>0, <1>1, <1>2, <2>1, <2>2, <2>3
<1>7. CASE SaveLua
  <2>1. /\ saving = "lua" /\ saving' = "no" /\ live' = live
        /\ disk' = [disk EXCEPT !.lua = Dumped(live.lua)]
    BY <1>7 DEF SaveLua
  <2>2. Dumped(live.lua) \in Lua /\ \A g \in Range(Globals) : Dumped(live.lua)[g] \in {live.lua[g], Nothing}
    BY <1>0, DumpAndRestore
  <2>3. /\ disk' \in [turns : Int, history : Int, lua : Lua]
        /\ disk'.history = disk.history /\ disk'.turns = disk.turns
        /\ disk'.lua = Dumped(live.lua)
    BY <1>0, <2>1, <2>2
  <2>4. Alive /\ Alive'
    BY <1>1, <2>1 DEF Alive, NotLive, NoGlobals, Nothing
  <2>5. QED
    BY <1>0, <1>1, <1>2, <2>1, <2>2, <2>3, <2>4
<1>8. CASE SaveFails
  BY <1>0, <1>1, <1>2, <1>8 DEF SaveFails, Alive, NotLive, NoGlobals, Nothing
<1>9. CASE Leave
  <2>1. live' = NotLive /\ saving' = "no" /\ disk' = disk
    BY <1>9 DEF Leave
  <2>2. ~Alive'
    BY <2>1 DEF Alive, NotLive, NoGlobals, Nothing
  <2>3. QED
    BY <1>0, <1>1, <1>2, <2>1, <2>2, SavedConstants
<1>10. CASE Load
  <2>1. /\ ~Alive /\ disk.turns >= 0 /\ UNCHANGED <<saving, disk>>
        /\ live' = [Created EXCEPT !.turns = disk.turns,
                                   !.history = IF disk.history < 0 THEN 0 ELSE disk.history]
    BY <1>10 DEF Load
  <2>2. /\ live' \in [turns : Int, history : Nat, lua : Lua, running : BOOLEAN]
        /\ live'.turns = disk.turns /\ live'.lua = NoGlobals
        /\ live'.history = IF disk.history < 0 THEN 0 ELSE disk.history
    <3>1. live' = [turns |-> disk.turns, lua |-> NoGlobals, running |-> FALSE,
                   history |-> IF disk.history < 0 THEN 0 ELSE disk.history]
      BY <2>1 DEF Created
    <3>2. QED
      BY <1>0, <3>1, SavedConstants
  <2>3. \A g \in Range(Globals) : live'.lua[g].turn = 0
    BY <2>2, SavedConstants
  <2>4. QED
    BY <1>0, <1>1, <1>2, <2>1, <2>2, <2>3
<1>11. CASE UNCHANGED sessionVars
  BY <1>0, <1>1, <1>2, <1>11 DEF sessionVars, Alive, NotLive, NoGlobals, Nothing
<1>12. QED
  BY <1>3, <1>4, <1>5, <1>6, <1>7, <1>8, <1>9, <1>10, <1>11 DEF SessionNext

(* Whatever crash or failure a save stops at, and whatever mix of files a  *)
(* load then finds: no turn in the history that was not counted, and no    *)
(* global set by a turn that the history does not have.                    *)
THEOREM FilesAreNeverAhead ==
  SessionInit /\ [][SessionNext]_sessionVars => []NothingAheadOfItsTurn
<1>1. SavedInv => NothingAheadOfItsTurn
  BY DEF SavedInv
<1>2. QED
  BY <1>1, SavedStart, SavedStep, PTL

----------------------------------------------------------------------------
(* What a restart keeps *)

NoneFails ==
  \A g \in Range(Globals) : live.lua[g].kind \notin Failing /\ disk.lua[g].kind \notin Failing

(* Without a value whose source fails, every statement of a dump runs.     *)
LEMMA AllRestored ==
  ASSUME NEW lua \in Lua, Reserved = {}, \A g \in Range(Globals) : lua[g].kind \notin Failing,
         NEW g \in Range(Globals)
  PROVE  Restored(lua)[g] = Assigned(lua[g])
<1>1. DOMAIN lua = Range(Globals)
  BY DEF Lua
<1>2. \A i \in DOMAIN Globals : Globals[i] \in Range(Globals)
  BY DEF Range
<1>3. Compiles(lua) /\ ~FailsBefore(lua, g)
  BY <1>2 DEF Compiles, FailsBefore
<1>4. QED
  BY <1>1, <1>3 DEF Restored

LEMMA NoneFailsStep ==
  ASSUME Kinds \cap Failing = {}
  PROVE  SavedInv /\ NoneFails /\ [SessionNext]_sessionVars => NoneFails'
<1> SUFFICES ASSUME SavedInv, NoneFails, [SessionNext]_sessionVars PROVE NoneFails'
  OBVIOUS
<1>1. /\ live \in [turns : Int, history : Nat, lua : Lua, running : BOOLEAN]
      /\ disk \in [turns : Int, history : Int, lua : Lua]
      /\ live.lua \in Lua /\ disk.lua \in Lua
      /\ DOMAIN live.lua = Range(Globals) /\ DOMAIN disk.lua = Range(Globals)
      /\ Nothing.kind \notin Failing
  BY DEF SavedInv, SavedType, Lua, Nothing, Failing
<1>2. \A g \in Range(Globals) : live.lua[g].kind \notin Failing /\ disk.lua[g].kind \notin Failing
  BY DEF NoneFails
<1>3. CASE MakeRepl
  <2>1. live'.lua = Restored(disk.lua) /\ disk' = disk
    BY <1>1, <1>3 DEF MakeRepl
  <2>2. \A g \in Range(Globals) : Restored(disk.lua)[g] \in {disk.lua[g], Nothing}
    BY <1>1, DumpAndRestore
  <2>3. QED
    BY <1>1, <1>2, <2>1, <2>2 DEF NoneFails
<1>4. ASSUME NEW g \in Range(Globals), NEW k \in Kinds, Turn(g, k) PROVE NoneFails'
  <2>1. /\ live'.lua = [live.lua EXCEPT ![g] = [kind |-> k, turn |-> live.turns + 1]]
        /\ disk' = disk
    BY <1>1, <1>4 DEF Turn
  <2>2. QED
    BY <1>1, <1>2, <2>1 DEF NoneFails
<1>5. CASE SaveMeta \/ SaveHistory
  BY <1>1, <1>2, <1>5 DEF SaveMeta, SaveHistory, NoneFails
<1>6. CASE SaveLua
  <2>1. disk'.lua = Dumped(live.lua) /\ live' = live
    BY <1>1, <1>6 DEF SaveLua
  <2>2. \A g \in Range(Globals) : Dumped(live.lua)[g] \in {live.lua[g], Nothing}
    BY <1>1, DumpAndRestore
  <2>3. QED
    BY <1>1, <1>2, <2>1, <2>2 DEF NoneFails
<1>7. CASE SaveFails
  BY <1>2, <1>7 DEF SaveFails, NoneFails
<1>8. CASE Leave \/ Load
  <2>1. live'.lua = NoGlobals /\ disk' = disk
    <3>1. CASE Leave
      BY <3>1 DEF Leave, NotLive
    <3>2. CASE Load
      <4>1. /\ disk' = disk
            /\ live' = [turns |-> disk.turns, lua |-> NoGlobals, running |-> FALSE,
                        history |-> IF disk.history < 0 THEN 0 ELSE disk.history]
        BY <3>2 DEF Load, Created
      <4>2. QED
        BY <4>1
    <3>3. QED
      BY <1>8, <3>1, <3>2
  <2>2. QED
    BY <1>1, <1>2, <2>1, SavedConstants DEF NoneFails
<1>9. CASE UNCHANGED sessionVars
  BY <1>2, <1>9 DEF sessionVars, NoneFails
<1>10. QED
  BY <1>3, <1>4, <1>5, <1>6, <1>7, <1>8, <1>9 DEF SessionNext

(* A runtime that is rebuilt has every global of the saved state that      *)
(* source can express, as long as no code stores a value whose source fails*)
(* or names a global by a keyword: whatever else is stored, crashes or     *)
(* fails to be saved, a restart loses none of the others.                  *)
THEOREM RunnableGlobalsPersist ==
  ASSUME Kinds \cap Failing = {}, Reserved = {}
  PROVE  SessionInit /\ [][SessionNext]_sessionVars => GlobalsPersist
<1>1. SessionInit => SavedInv /\ NoneFails
  <2>1. ASSUME SessionInit PROVE NoneFails
    BY <2>1, SavedConstants DEF SessionInit, NoneFails, Nothing, Failing
  <2>2. QED
    BY <2>1, SavedStart
<1>2. SavedInv /\ NoneFails /\ [SessionNext]_sessionVars =>
        [MakeRepl => \A g \in Range(Globals) :
           disk.lua[g].kind \in {"data", "closure", "cyclic"} => live.lua'[g] = disk.lua[g]]_sessionVars
  <2> SUFFICES ASSUME SavedInv, NoneFails, MakeRepl, NEW g \in Range(Globals),
                      disk.lua[g].kind \in {"data", "closure", "cyclic"}
               PROVE  live.lua'[g] = disk.lua[g]
    OBVIOUS
  <2>1. live.lua' = Restored(disk.lua) /\ disk.lua \in Lua
    BY DEF MakeRepl, SavedInv, SavedType
  <2>2. Restored(disk.lua)[g] = Assigned(disk.lua[g])
    BY <2>1, AllRestored DEF NoneFails
  <2>3. QED
    BY <2>1, <2>2 DEF Assigned
<1>3. QED
  BY <1>1, <1>2, SavedStep, NoneFailsStep, PTL DEF GlobalsPersist

============================================================================
