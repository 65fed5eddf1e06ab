--------------------------- MODULE MCAudioStream ---------------------------
EXTENDS AudioStream

\* useAudioFEC: ALAC without ChaCha is sent twice, ChaCha once.
MCModes == {m \in AllModes : m.chacha # m.fec}
=============================================================================
