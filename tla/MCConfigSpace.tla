---------------------------- MODULE MCConfigSpace ----------------------------
EXTENDS ConfigSpace

\* Two bytes, as one item and as an array, which is a MAC address in small, from a
\* device of either version, and eight bytes, which only version 2 does not read one
\* by one.
DevicesChecked ==
    {1, 2} \X {[count |-> 1, bytes |-> 2], [count |-> 2, bytes |-> 1]} \cup
    {<<2, [count |-> 1, bytes |-> 8]>>}

\* No region, and one whose length has all ones in its lower word.
RegionsChecked == {<<9, 9, 0, 0>>, <<9, 0, 1, 9>>}
=============================================================================
