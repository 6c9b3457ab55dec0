---------------------------- MODULE HostNetLines ----------------------------
(* The lines of an interfaces(5) file, by what the parser of lkit-hostnet    *)
(* tells apart: the keyword, the interfaces it names, and its argument.      *)

Line(k, names, arg, ref) == [k |-> k, names |-> names, arg |-> arg, ref |-> ref]
Iface(n, method, inherits) == Line("iface", {n}, method, inherits)
Option(key, value) == Line("option", {}, key, value)
Auto(names) == Line("auto", names, "none", "none")
Mapping(pattern) == Line("mapping", {pattern}, "none", "none")
Rename(from, to) == Line("rename", {from}, "none", to)
Source(f) == Line("source", {}, "none", f)
Comment == Line("comment", {}, "none", "none")
=============================================================================
