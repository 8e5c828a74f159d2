------------------------------ MODULE MCMounts ------------------------------
(* A root, /d with two flat devices and a pin, the read-only volume /u, and *)
(* room for two mounts: volumes at /t, a ring or a flat file at /d/ccc.     *)
EXTENDS Mounts

P(dir, name) == dir \o <<"/">> \o name

Dev == <<"/", "d">>
Tmp == <<"/", "t">>
Usr == <<"/", "u">>
Ram == P(Dev, <<"r">>)
Eeprom == P(Dev, <<"e", "e">>)
Pipe == P(Dev, <<"c", "c", "c">>)
Pin == P(Dev, <<"p", "p", "p", "p">>)
File == P(Tmp, <<"f">>)
Prog == P(Usr, <<"x">>)

MCPaths == {Root, Dev, Tmp, Usr, Ram, Eeprom, Pipe, Pin, File, Prog}

B(type, path, userData, writable, many) ==
    [type |-> type, path |-> path, userData |-> userData, writable |-> writable, many |-> many]
MCBootDevices ==
    << B("dir", Root, 0, TRUE, FALSE), B("dir", Dev, 0, TRUE, FALSE), B("flat", Ram, 0, TRUE, FALSE),
       B("MiniFs", Usr, 0, FALSE, FALSE), B("flat", Eeprom, 0, TRUE, FALSE), B("char", Pin, 2, TRUE, FALSE) >>

\* Two pins: names of the same length that differ in the last letter.
Pin0 == P(Dev, <<"p", "0">>)
Pin1 == P(Dev, <<"p", "1">>)
PinPaths == MCPaths \cup {Pin0, Pin1}
PinDevices == MCBootDevices \o << B("char", Pin0, 0, TRUE, FALSE), B("char", Pin1, 1, TRUE, FALSE) >>
PinOpened == {Pin0, Pin1}

R(format, device, dir) == [format |-> format, device |-> device, dir |-> dir]
MCRequests ==
    { R("MiniFs", Ram, Tmp), R("MiniFs", Eeprom, Tmp), R("Fat", Eeprom, Tmp), R("FlatFile", Eeprom, Pipe),
      R("Partition", Eeprom, Pipe), R("CircBuf", File, Pipe), R("CircBuf", Prog, Pipe) }

S(kind, files) == [kind |-> kind, files |-> files]
MCInitStores ==
    { (Ram :> S("volume", << >>)) @@ (Eeprom :> S(kind, << >>)) @@ (Usr :> S("volume", <<"x">> :> <<1, 1, 1, 1>>))
        : kind \in {"parted", "fat"} }
MCRoom == (Ram :> 6) @@ (Eeprom :> 4) @@ (Usr :> 4)

MCOpened == {File, Pipe}
MCUnmounted == {Tmp, Pipe, Pin}
MCDeleted == {Tmp, Pipe}
MCCreated == {File}
MCSizes == {4, 6}
MCPushes == {<<2, 1>>}
=============================================================================
