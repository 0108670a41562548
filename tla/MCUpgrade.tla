------------------------------ MODULE MCUpgrade ------------------------------
(* Instances of Upgrade for TLC: the installations a start may find. *)
EXTENDS Upgrade
One(f) == [g \in Stores |-> IF g = f THEN {1} ELSE {}]
Old(dir, version, key, path, fits) ==
  [dirs |-> {dir, path[1]}, files |-> {<<dir, "config.json">>, path}, rows |-> One(path),
   complete |-> {1},
   config |-> [version |-> version, key |-> key, path |-> path, fits |-> fits]]
File == "server_file_path"
Documented ==
  {Old("home", v, File, <<d, "server.json">>, "yes") : v \in 0..1, d \in {"home", "other"}}
  \cup {Old("home", 2, File, <<"home", "server.db">>, "yes")}
\* A server.json with an entry that misses a field, and one without entries.
Incomplete ==
  LET old == Old("home", 1, File, <<"home", "server.json">>, "yes")
  IN  {[old EXCEPT !.rows[<<"home", "server.json">>] = {1, 2}], [old EXCEPT !.complete = {}]}
Legacy == {Old("psm", 0, File, <<"psm", "server.json">>, "yes"),
           Old("psm", 1, File, <<"other", "server.json">>, "yes")}
\* An earlier name of the path, configurations that are no Config.
DbPath == {Old("home", 0, "server_db_path", <<"home", "server.db">>, "yes")}
Odd == {Old("home", 0, File, <<"home", "server.db">>, "yes"),
        Old("home", 1, File, <<"home", "server.json">>, "no"),
        Old("home", 2, File, <<"home", "server.db">>, "no")}
Fresh == {[dirs |-> {}, files |-> {}, rows |-> [g \in Stores |-> {}],
           complete |-> {}, config |-> DefaultConfig]}
AllInstalls == Documented \cup Incomplete \cup Legacy \cup DbPath \cup Odd \cup Fresh
=============================================================================
