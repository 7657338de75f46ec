--------------------------- MODULE MCWddmAdapter ----------------------------
\* WddmAdapter for TLC.  Sizes of displays and modes are the table's of the
\* source divided by 160 (the shape of the table, its order and its ties stay),
\* addresses are numbers, and a UINT has 6 bits.
EXTENDS WddmAdapter, TLC

Symmetry == Permutations(Ctx) \cup Permutations(Alloc)

\* What a callback does to contexts does not depend on allocations, nor the other
\* way round: they are followed one kind at a time.
OneKind == liveCtx = {} \/ FreeAllocs = Alloc

MCModes == <<[w |-> 4, h |-> 3], [w |-> 5, h |-> 4], [w |-> 6, h |-> 5],
             [w |-> 8, h |-> 4], [w |-> 8, h |-> 6], [w |-> 9, h |-> 5]>>
MCSafeMode == [w |-> 6, h |-> 5]

\* One with padded lines, and a smaller one.
MCDisplays == {[w |-> 8, h |-> 4, pitch |-> 36, base |-> 1],
               [w |-> 5, h |-> 4, pitch |-> 20, base |-> 1]}

\* BAR5 in second place, and an assignment without it.
MCLists == {<<10, 5>>, <<10, 11>>}

\* Over one edge or two, beyond the right one, beyond the lower one, and with an
\* end that wraps.
MCRects == {[x |-> at[1], y |-> at[2], w |-> 3, h |-> 4] :
              at \in {<<0, 2>>, <<6, 2>>, <<9, 2>>, <<0, 6>>, <<63, 2>>}}
=============================================================================
