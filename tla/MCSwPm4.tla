------------------------------ MODULE MCSwPm4 ------------------------------
(***************************************************************************)
(* Streams for SwPm4: two packets of a small zoo, cut anywhere, over        *)
(* indirect buffers that call each other.                                   *)
(***************************************************************************)
EXTENDS SwPm4, SequencesExt

Dword(type, op, count, base, val, reg, one) ==
  [type |-> type, op |-> op, count |-> count, base |-> base, val |-> val, reg |-> reg, one |-> one]
Big == Word - 1

\* A small number read as a header is a type 0 packet of one register.
D(v)   == Dword(0, "none", 1, v, v, FALSE, FALSE)
T0(n, b) == Dword(0, "none", n, b, Big, FALSE, FALSE)
T1     == Dword(1, "none", 1, 0, Big, FALSE, FALSE)
T2     == Dword(2, "none", 1, 0, Big, FALSE, FALSE)
T3(op, n) == Dword(3, op, n, 0, Big, FALSE, FALSE)
\* Control words: bits 28 and 25.
Reg    == Dword(0, "none", 1, 0, Big, TRUE, FALSE)
One    == Dword(0, "none", 513, 0, Big, TRUE, TRUE)

Ib(b, n) == <<T3("INDIRECT_BUFFER", 3), D(b), D(0), D(n)>>
Move(sl, sh, dl, dh, n) == <<T3("DMA_DATA", 6), D(0), D(sl), D(sh), D(dl), D(dh), D(n)>>

Packets == {
  <<T1>>, <<T2>>,
  <<T0(2, 4), D(1), T3("NOP", 2)>>, <<T0(2, 5), D(1), D(1)>>,
  <<T3("NOP", 1), T3("SET_REG", 2)>>, <<T3("NOP", 2), T0(2, 4), T1>>,
  <<T3("OTHER", 1), T3("WRITE_DATA", 4)>>,
  <<T3("WRITE_DATA", 2), D(0), D(5)>>,
  <<T3("WRITE_DATA", 5), D(0), D(4), D(0), D(1), T3("NOP", 1)>>,
  <<T3("WRITE_DATA", 5), D(0), D(5), D(0), D(1), D(1)>>,
  <<T3("WRITE_DATA", 4), D(0), D(9), D(0), D(1)>>,
  <<T3("WRITE_DATA", 4), Reg, D(9), D(0), D(1)>>,
  <<T3("WRITE_DATA", 5), One, D(4), D(0), D(1), D(1)>>,
  <<T3("SET_REG", 1), D(1)>>, <<T3("SET_REG", 2), D(3), D(1)>>,
  <<T3("SET_REG", 2), D(Big), D(1)>>, <<T3("SET_REG", 3), D(Big - 2), D(1), D(1)>>,
  <<T3("SET_REG", 2), D(9), D(1)>>,
  <<T3("EVENT_WRITE_EOP", 5), D(1), D(1), D(1), D(1), D(1)>>,
  <<T3("EVENT_WRITE_EOP", 1), D(1)>>,
  <<T3("DISPATCH_DIRECT", 4), D(1), D(1), D(1), D(1)>>,
  <<T3("DISPATCH_DIRECT", 1), D(1)>>,
  <<T3("DMA_DATA", 1), D(1)>>, <<T3("INDIRECT_BUFFER", 1), D(1)>>,
  Move(2, 0, 8, 0, 2), Move(2, 0, 3, 0, 2), Move(2, 0, 8, 0, 3), Move(2, 0, 2, 1, 1),
  Move(Big, Big, 8, 0, 2), Move(2, 0, Big, Big, 2), Move(2, 0, 8, 0, 0), Move(2, 0, 4, 0, 2),
  Ib(1, 4), Ib(1, 8), Ib(2, 8), Ib(1, 3), Ib(1, 0), Ib(2, 9), Ib(3, 4)}

\* The program of a sequence of packets, cut to n dwords.
Program(ps, n) ==
  LET code == FlattenSeq(ps)
      lens == [k \in DOMAIN ps |-> Len(FlattenSeq(SubSeq(ps, 1, k - 1)))]
  IN  [code |-> SubSeq(code, 1, n), starts |-> {lens[k] : k \in DOMAIN ps}]
Size(ps) == Len(FlattenSeq(ps))

MCStreams == UNION {{Program(<<p, q>>, n) : n \in Len(p) + 1..Len(p) + Len(q)} : p \in Packets, q \in Packets}

\* Indirect buffers of MaxIb = 8 dwords.
Pad(ps, n) == Program(ps \o [k \in 1..n |-> <<T2>>], 8)
MCMemories == {
  <<Pad(<<Ib(1, 8), Ib(1, 8)>>, 0), Pad(<<Ib(1, 4)>>, 4)>>,
  <<Pad(<<Ib(2, 8)>>, 4), Pad(<<Ib(1, 8), Ib(2, 3)>>, 0)>>,
  <<Pad(<<<<T3("SET_REG", 2), D(9), D(1)>>, Ib(2, 8)>>, 1), Pad(<<Move(2, 0, 8, 0, 2)>>, 1)>>}

\* The GFX ring and the fence page; only the page; a ring next to the page in
\* kernel space.
Win(b, s, v) == [base |-> b, size |-> s, va |-> v]
MCWindows == {{Win(2, 4, 20), Win(8, 2, 30)}, {Win(8, 2, 30)}, {Win(2, 4, 26), Win(8, 2, 30)}}
=============================================================================
