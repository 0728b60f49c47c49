------------------------------- MODULE MCRtos -------------------------------
(***************************************************************************)
(* Rtos with a character per command, three devices, functions and BARs at *)
(* most, one vector short of the devices that ask for one, and addresses   *)
(* of 64 units of which 32 are for memory.                                 *)
(***************************************************************************)
EXTENDS Rtos, TLC

MCBytes == {"start", "stop", "test", "exit"}

none == [kind |-> "none", typed |-> FALSE, size |-> 0, value |-> 0]
io == [none EXCEPT !.kind = "io", !.size = 2]
mem(size, value) == [kind |-> "mem32", typed |-> FALSE, size |-> size, value |-> value]
mem32(size, value) == [mem(size, value) EXCEPT !.typed = TRUE]
mem64(size, value) == [mem(size, value) EXCEPT !.kind = "mem64"]
upper(value) == [none EXCEPT !.kind = "upper", !.value = value]

noCaps == [first |-> 0, next |-> <<>>, msi |-> 0]
msi == [first |-> 2, next |-> <<0, 1>>, msi |-> 1]         \* two nodes, MSI is the last
far == [first |-> 3, next |-> <<0, 1, 2>>, msi |-> 1]      \* too far for the search
loop == [first |-> 1, next |-> <<2, 1>>, msi |-> 0]        \* a list that never ends

fn(header, multi, id, sec, bars, caps) ==
    [header |-> header, multi |-> multi, id |-> id, secondary |-> sec,
     bars |-> [b \in 0 .. 2 |-> bars[b + 1]], caps |-> caps,
     window |-> {}, cmd |-> {}, msi |-> {}]
endpoint(id, bars, caps) == fn("endpoint", FALSE, id, 0, bars, caps)
bridge(sec) == fn("bridge", FALSE, "other", sec, <<none, none, none>>, noCaps)
opened(sec) == [bridge(sec) EXCEPT !.cmd = {"memory", "master"}]      \* by firmware
host == endpoint("other", <<none, none, none>>, noCaps)

MCTopologies ==
    \* the tested device beside an I/O BAR and a hole; its first BAR has 64 bits
    { (<<0, 0, 0>> :> host) @@ (<<0, 2, 0>> :> endpoint("vfio", <<mem64(4, 0), upper(0), io>>, msi)),
    \* in front of it a device of which one identifier matches
      (<<0, 0, 0>> :> host) @@ (<<0, 1, 0>> :> endpoint("half", <<io, mem(8, 60), none>>, msi))
        @@ (<<0, 2, 0>> :> endpoint("vfio", <<mem32(4, 0), mem(2, 60), none>>, msi)),
    \* behind a bridge, with several functions, one of them a hole
      (<<0, 1, 0>> :> opened(1)) @@ (<<1, 0, 0>> :> [endpoint("other", <<mem(4, 8), mem(4, 8), none>>, loop)
                                                     EXCEPT !.multi = TRUE])
        @@ (<<1, 0, 2>> :> endpoint("vfio", <<mem(4, 8), io, mem(8, 8)>>, msi)),
    \* behind a bridge that nobody opened
      (<<0, 1, 0>> :> bridge(1)) @@ (<<1, 0, 0>> :> endpoint("vfio", <<mem(4, 8), none, none>>, msi)),
    \* behind two bridges, the window of the first is not programmed; one more bridge than fits
      (<<0, 0, 0>> :> opened(1)) @@ (<<1, 0, 0>> :> opened(2)) @@ (<<1, 2, 0>> :> host)
        @@ (<<2, 0, 0>> :> endpoint("vfio", <<mem(4, 8), none, mem(2, 8)>>, msi))
        @@ (<<2, 1, 0>> :> bridge(3)) @@ (<<2, 2, 0>> :> host),
    \* more devices than fit, an unconfigured bridge and a header of another type
      (<<0, 0, 0>> :> [endpoint("other", <<mem(2, 8), none, none>>, far) EXCEPT !.multi = TRUE])
        @@ (<<0, 0, 1>> :> endpoint("vfio", <<mem(32, 32), none, none>>, far))
        @@ (<<0, 1, 0>> :> bridge(0)) @@ (<<0, 2, 0>> :> [host EXCEPT !.multi = TRUE])
        @@ (<<0, 2, 1>> :> host) @@ (<<0, 2, 2>> :> host),
      (<<0, 0, 0>> :> host) @@ (<<0, 1, 0>> :> fn("other", FALSE, "other", 0, <<none, none, none>>, noCaps)),
    \* an upper register that is not zero, and a 64-bit BAR of more than 32 bits
      (<<0, 1, 0>> :> endpoint("vfio", <<mem64(8, 0), upper(1), mem(4, 8)>>, msi))
        @@ (<<0, 2, 0>> :> endpoint("other", <<mem64(64, 0), upper(0), mem(4, 8)>>, noCaps)),
    \* memory up to the last byte of 32 bits, and one BAR more
      (<<0, 1, 0>> :> endpoint("other", <<mem32(32, 0), none, none>>, noCaps))
        @@ (<<0, 2, 0>> :> endpoint("vfio", <<mem32(4, 0), none, none>>, msi)),
    \* more memory than there is
      (<<0, 1, 0>> :> endpoint("vfio", <<mem32(16, 0), mem32(4, 0), none>>, msi))
        @@ (<<0, 2, 0>> :> endpoint("other", <<mem32(16, 0), none, none>>, msi)) }
=============================================================================
