--------------------------- MODULE MCPassThrough ----------------------------
\* PassThrough for TLC: two disks, the first with a partition that has its major
\* number and one that has not.
EXTENDS PassThrough

CONSTANTS sda, sdb, sda1, sda16

MCDiskOf == [p \in {sda1, sda16} |-> sda]
MCNumber == [n \in {sda, sdb, sda1, sda16} |->
               CASE n = sda   -> <<8, 0>>
                 [] n = sdb   -> <<8, 16>>
                 [] n = sda1  -> <<8, 1>>
                 [] n = sda16 -> <<259, 0>>]
=============================================================================
