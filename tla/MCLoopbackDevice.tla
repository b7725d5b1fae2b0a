-------------------------- MODULE MCLoopbackDevice --------------------------
EXTENDS LoopbackDevice

Attrs(m, v, i, f) == [magic |-> m, version |-> v, id |-> i, modern |-> f]

\* A device of either version, old and new, an empty slot and two that are no virtio.
DevicesChecked == {Attrs(TRUE, 1, 2, FALSE), Attrs(TRUE, 1, 2, TRUE),
                   Attrs(TRUE, 2, 2, FALSE), Attrs(TRUE, 2, 2, TRUE),
                   Attrs(TRUE, 1, 0, TRUE), Attrs(TRUE, 3, 2, TRUE), Attrs(FALSE, 1, 2, TRUE)}
=============================================================================
