--------------------------- MODULE MCMediaPlayer ---------------------------
EXTENDS MediaPlayer

CONSTANTS a, b

\* Nothing to play, one song, and the same songs at other places.
QueuesChecked == {<<>>, <<a>>, <<b, a>>}

\* Three steps, and what RadioState.initial makes of the band.
BandChecked == [min |-> 10, max |-> 14, step |-> 2]
UnknownChecked == [min |-> 1, max |-> 0, step |-> 1]
=============================================================================
