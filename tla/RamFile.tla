------------------------------- MODULE RamFile -------------------------------
(***************************************************************************)
(* The bytes of RamFS files and the descriptors that read and write them   *)
(* (drivers/vfs/ramfs.rs): each descriptor has its own two positions, all  *)
(* of them share the Vec of the inode, and the first write of a descriptor *)
(* empties the file.  A byte is the descriptor that wrote it, or Zero.     *)
(***************************************************************************)
EXTENDS Integers, Sequences, SequencesExt

CONSTANTS Files,        \* inodes that hold RamInodeData::Data
          Fds,          \* descriptors, of all processes
          Zero,         \* the byte Vec::resize fills with
          Counts,       \* lengths of the buffers passed to read and write
          MaxSize       \* bound: bytes of a file

ASSUME CountsAssumption == Counts \subseteq Nat /\ MaxSize \in Nat
ASSUME ZeroAssumption == Zero \notin Fds

VARIABLES data,         \* the Vec<u8> of each file
          fd,           \* FileDescriptor: node, read_pos and write_pos
          panicked,     \* a read subtracted below zero
          written,      \* history: what each descriptor wrote since it emptied the file
          alone,        \* history: nobody else has written since then
          got,          \* history: what each descriptor read
          fresh         \* history: no byte it read was overwritten or cut off

history == <<written, alone, got, fresh>>
FileVars == <<data, fd, panicked, history>>

Closed == [node |-> Zero, read_pos |-> 0, write_pos |-> 0]
IsOpen(d) == fd[d] # Closed
Data(d) == data[fd[d].node]

FileInit ==
    /\ data = [f \in Files |-> <<>>]
    /\ fd = [d \in Fds |-> Closed]
    /\ panicked = FALSE
    /\ written = [d \in Fds |-> <<>>]
    /\ alone = [d \in Fds |-> FALSE]
    /\ got = [d \in Fds |-> <<>>]
    /\ fresh = [d \in Fds |-> TRUE]

Forget(d) ==
    /\ written' = [written EXCEPT ![d] = <<>>]
    /\ alone' = [alone EXCEPT ![d] = FALSE]
    /\ got' = [got EXCEPT ![d] = <<>>]
    /\ fresh' = [fresh EXCEPT ![d] = TRUE]

-----------------------------------------------------------------------------
\* RamFS::open of a file
Open(d) ==
    /\ ~ IsOpen(d)
    /\ \E f \in Files :
         fd' = [fd EXCEPT ![d] = [node |-> f, read_pos |-> 0, write_pos |-> 0]]
    /\ Forget(d)
    /\ UNCHANGED <<data, panicked>>

\* FS::close does nothing; the descriptor goes with its index.
Close(d) ==
    /\ IsOpen(d)
    /\ fd' = [fd EXCEPT ![d] = Closed]
    /\ Forget(d)
    /\ UNCHANGED <<data, panicked>>

\* clone_resources: the child's descriptor starts at the parent's positions.
Clone(d, e) ==
    /\ IsOpen(d)
    /\ ~ IsOpen(e)
    /\ fd' = [fd EXCEPT ![e] = fd[d]]
    /\ written' = [written EXCEPT ![e] = written[d]]
    /\ alone' = [alone EXCEPT ![e] = alone[d]]
    /\ got' = [got EXCEPT ![e] = got[d]]
    /\ fresh' = [fresh EXCEPT ![e] = fresh[d]]
    /\ UNCHANGED <<data, panicked>>

\* The number of bytes RamFS::read reads; below zero it is an overflow.
ReadCount(d, n) ==
    IF fd[d].read_pos + n > Len(Data(d)) THEN Len(Data(d)) - fd[d].read_pos ELSE n

\* Mutant: the position stays.
AdvanceNot(d, n) == fd[d].read_pos

Advance(d, n) == fd[d].read_pos + ReadCount(d, n)

\* RamFS::read
Read(d, n) ==
    /\ IsOpen(d)
    /\ ReadCount(d, n) >= 0
    /\ fd' = [fd EXCEPT ![d].read_pos = Advance(d, n)]
    /\ got' = [got EXCEPT ![d] =
                 @ \o SubSeq(Data(d), fd[d].read_pos + 1, fd[d].read_pos + ReadCount(d, n))]
    /\ UNCHANGED <<data, panicked, written, alone, fresh>>

\* RamFS::read when the file is shorter than the position: file_size -
\* read_pos overflows and the kernel panics.
ReadPanics(d, n) ==
    /\ IsOpen(d)
    /\ ReadCount(d, n) < 0
    /\ panicked' = TRUE
    /\ UNCHANGED <<data, fd, history>>

\* Mutant: the first write does not empty the file.
KeptAll(d) == Data(d)

\* What RamFS::write leaves of the file before it writes: nothing the first
\* time.
Kept(d) == IF fd[d].write_pos = 0 THEN <<>> ELSE Data(d)

\* InodeOps::write: the file grows, filled with zeros, to hold the buffer.
Stored(bytes, pos, d, n) ==
    [i \in 1 .. Max({Len(bytes), pos + n}) |->
        IF i \in pos + 1 .. pos + n THEN d
        ELSE IF i <= Len(bytes) THEN bytes[i] ELSE Zero]

Prefix(bytes, n) == SubSeq(bytes, 1, Min({n, Len(bytes)}))

\* The open descriptors of the file of d.
Same(d) == {e \in Fds : IsOpen(e) /\ fd[e].node = fd[d].node}

\* RamFS::write
Write(d, n) ==
    LET pos == fd[d].write_pos
        buf == [i \in 1 .. n |-> d]
        new == Stored(Kept(d), pos, d, n)
    IN  /\ IsOpen(d)
        /\ pos + n <= MaxSize
        /\ data' = [data EXCEPT ![fd[d].node] = new]
        /\ fd' = [fd EXCEPT ![d].write_pos = @ + n]
        /\ written' = [written EXCEPT ![d] = IF pos = 0 THEN buf ELSE @ \o buf]
        /\ alone' = [e \in Fds |-> CASE e = d -> alone[d] \/ pos = 0
                                     [] e \in Same(d) \ {d} -> FALSE
                                     [] OTHER -> alone[e]]
        /\ fresh' = [e \in Fds |->
                        fresh[e] /\ (e \in Same(d) =>
                            Prefix(new, fd[e].read_pos) = Prefix(Data(d), fd[e].read_pos))]
        /\ UNCHANGED <<panicked, got>>

FileNext ==
    /\ ~ panicked
    /\ \E d \in Fds :
         \/ Open(d)
         \/ Close(d)
         \/ \E e \in Fds : Clone(d, e)
         \/ \E n \in Counts : Read(d, n) \/ ReadPanics(d, n) \/ Write(d, n)

FileSpec == FileInit /\ [][FileNext]_FileVars

-----------------------------------------------------------------------------
Contents == Seq(Fds \cup {Zero})

FileTypeOK ==
    /\ data \in [Files -> Contents]
    /\ \A f \in Files : Len(data[f]) <= MaxSize
    /\ fd \in [Fds -> [node : Files \cup {Zero}, read_pos : 0 .. MaxSize,
                       write_pos : 0 .. MaxSize]]
    /\ panicked \in BOOLEAN
    /\ written \in [Fds -> Contents] /\ got \in [Fds -> Contents]
    /\ alone \in [Fds -> BOOLEAN] /\ fresh \in [Fds -> BOOLEAN]

\* The state has its type, and a descriptor that nobody has written behind
\* finds the file to be exactly what it wrote: nothing of what was there before,
\* no gap, nothing missing, across any mix of writes, opens, closes and clones
\* of others.
SoleWriterOwnsFile ==
    /\ FileTypeOK
    /\ \A d \in Fds : alone[d] => Data(d) = written[d]

\* A reader whose bytes nobody touched has read the file from its start
\* without a gap or a repetition, and its position is inside the file, so
\* that its next read does not overflow, whatever others append meanwhile.
ReaderKeepsPlace ==
    \A d \in Fds : IsOpen(d) /\ fresh[d] =>
        /\ fd[d].read_pos <= Len(Data(d))
        /\ got[d] = Prefix(Data(d), fd[d].read_pos)
=============================================================================
