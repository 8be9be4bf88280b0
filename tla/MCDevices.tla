----------------------------- MODULE MCDevices -----------------------------
EXTENDS Devices

\* Two slots of two functions on two buses. A device has its ids, command
\* and status, class and six different BARs.
MCFunctions == {0, 1} \X {0, 3} \X {0, 1}
Regs(vendor, dev, class) ==
  << <<vendor, dev>>, << {0, 1}, {4, 13} >>, <<1, class>>, <<0, 0>> >>
    \o [i \in 1 .. 6 |-> <<dev, i>>]
Cards == {<<1, 0, 0>>, <<0, 3, 1>>}
MCSpaces ==
  {[f \in MCFunctions |-> IF f \in at2 THEN Regs(7, 8, 512)
                          ELSE IF f[3] = 0 THEN Regs(7, 9, 2 + f[2]) ELSE Absent]
    : at2 \in SUBSET Cards}
MCWanted == { <<7, 8>>, <<7, 9>>, <<8, 7>> }
=============================================================================
