---------------------------- MODULE MCMigrations ----------------------------
(* Two runs of the command: pairs of deployments that race, of branches    *)
(* with different files, of an older and a newer SDK, of a migrate with a  *)
(* repair and with a status.                                               *)
EXTENDS Migrations, TLC

CONSTANTS r1, r2, x, y

MCRunners == {r1, r2}
MCVersions == 1 .. 2
MCSums == {x, y}
MCAuthVersions == 1 .. 2

Both == [v \in MCVersions |-> x]
OnlySecond == [v \in MCVersions |-> IF v = 2 THEN x ELSE NoFile]
Edited == [v \in MCVersions |-> IF v = 1 THEN y ELSE x]

Run(mode, files, sdk) == [mode |-> mode, files |-> files, sdk |-> sdk]
Pair(a, b) == [r \in MCRunners |-> IF r = r1 THEN a ELSE b]

\* the first run migrates or repairs, the second is any of these
MCSetups ==
    {Pair(a, b) :
        a \in {Run("apply", Both, 2), Run("apply", OnlySecond, 1), Run("repair", Both, 2)},
        b \in {Run("apply", Both, 2), Run("apply", Both, 1), Run("apply", OnlySecond, 2),
               Run("apply", Edited, 2), Run("repair", Edited, 2), Run("inspect", Both, 2)}}
=============================================================================
