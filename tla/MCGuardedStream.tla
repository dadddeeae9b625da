--------------------------- MODULE MCGuardedStream ---------------------------
EXTENDS GuardedStream

Mask == <<"digit", "hyphen", "digit">>

\* Numbers: one digit, two, an SSN, each separator and a stranger.
Numbers == {<<"digit">>, <<"digit", "digit">>, <<"digit", "hyphen", "digit">>,
            <<"space">>, <<"hyphen">>, <<"other">>}

\* Words: characters, and an "@" with its neighbours;
\* and a character that no event can be encoded for.
Words == {<<"letter">>, <<"dot">>, <<"plus">>, <<"at">>, <<"other">>,
          <<"letter", "at", "digit">>, <<"hyphen", "digit">>, <<"lone">>}
=============================================================================
