----------------------------- MODULE MCUiStream -----------------------------
\* Two pages for one slot; what a stream is told and what the gate is told are raced
\* against the pages one at a time.
EXTENDS UiStream

MCEnvironments == {{"stream", "station", "changes"}, {"pages", "station", "stream"},
                   {"station", "ota", "stream"}}
=============================================================================
