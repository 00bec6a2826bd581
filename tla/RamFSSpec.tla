------------------------------ MODULE RamFSSpec ------------------------------
(***************************************************************************)
(* What the RAM file system promises the shell, independent of its slot    *)
(* table: a directory mapping each name to the size of its contents, or to *)
(* MISSING.  Every command reports one number: touch 1 when the file was   *)
(* there, 0 when it was created, -1 when the directory is full; rm 0 or    *)
(* -1; cat the bytes read or -1; write the bytes written or -1; ls the     *)
(* number of files; df the free space of the free slots.                   *)
(***************************************************************************)
EXTENDS Integers, FiniteSets

CONSTANTS Names, Lens, MaxFiles, MaxFileSize, MISSING, BootDir, NoName

VARIABLES dir, ret

Stored == {n \in Names : dir[n] # MISSING}

Room == Cardinality(Stored) < MaxFiles

Clamp(len) == IF len > MaxFileSize THEN MaxFileSize ELSE len

Out(cmd, name, rc) == [cmd |-> cmd, name |-> name, rc |-> rc]

Init == dir = BootDir /\ ret = Out("none", NoName, 0)

Touch(n) ==
    /\ dir' = IF dir[n] = MISSING /\ Room THEN [dir EXCEPT ![n] = 0] ELSE dir
    /\ ret' = Out("touch", n, IF dir[n] # MISSING THEN 1 ELSE IF Room THEN 0 ELSE -1)

Rm(n) ==
    /\ dir' = [dir EXCEPT ![n] = MISSING]
    /\ ret' = Out("rm", n, IF dir[n] # MISSING THEN 0 ELSE -1)

Cat(n) ==
    /\ ret' = Out("cat", n, IF dir[n] = MISSING THEN -1 ELSE Clamp(dir[n]))
    /\ UNCHANGED dir

Write(n, len) ==
    IF dir[n] = MISSING /\ ~Room
    THEN ret' = Out("write", n, -1) /\ UNCHANGED dir
    ELSE /\ dir' = [dir EXCEPT ![n] = Clamp(len)]
         /\ ret' = Out("write", n, Clamp(len))

Ls == ret' = Out("ls", NoName, Cardinality(Stored)) /\ UNCHANGED dir

Df == ret' = Out("df", NoName, (MaxFiles - Cardinality(Stored)) * MaxFileSize)
      /\ UNCHANGED dir

(* The directory lives in RAM: a reset of the machine brings back the    *)
(* boot directory.                                                         *)
Reset == Init'

Next ==
    \/ Reset
    \/ \E n \in Names : Touch(n) \/ Rm(n) \/ Cat(n) \/ \E len \in Lens : Write(n, len)
    \/ Ls \/ Df

Spec == Init /\ [][Next]_<<dir, ret>>

=============================================================================
