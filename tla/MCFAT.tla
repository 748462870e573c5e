-------------------------------- MODULE MCFAT -------------------------------
(* Instances of FAT for TLC.  The volumes: a root directory of one cluster *)
(* with a subdirectory, and a root of two clusters with a file, a deleted  *)
(* slot and a bad cluster.                                                 *)
EXTENDS FAT, TLC

BLANK == <<>>
Blank == [o \in Offsets |-> BLANK]
Table(t) == t @@ [c \in 0..(ClusterCount + 1) |-> IF c < 2 THEN EOC ELSE FREE]
Disk(t)  == t @@ [c \in Clusters |-> Blank]

Empty == [o \in Offsets |-> <<END>>]

SmallVolume ==
    [fat |-> Table(2 :> EOC @@ 3 :> EOC),
     data |-> Disk(2 :> Empty @@ 3 :> Empty),
     written |-> {}]

UsedVolume ==
    [fat |-> Table(2 :> 5 @@ 5 :> EOC @@ 3 :> EOC @@ 4 :> 6 @@ 6 :> EOC @@ 8 :> BAD),
     data |-> Disk(2 :> (0 :> <<DELETED>> @@ 1 :> <<File("A", 4, 3)>>)
                @@ 5 :> Empty @@ 3 :> Empty
                @@ 4 :> (0 :> Text(0, 1) @@ 1 :> Text(0, 2))
                @@ 6 :> (0 :> Text(0, 3) @@ 1 :> BLANK)),
     written |-> {[dir |-> 2, name |-> "A", id |-> 0, size |-> 3]}]

MCVolumes == {SmallVolume, UsedVolume}
MCDirs == {2, 3}
MCNames == {"A", "B"}
=============================================================================
