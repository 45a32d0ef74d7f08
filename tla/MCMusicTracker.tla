--------------------------- MODULE MCMusicTracker ---------------------------
(***************************************************************************)
(* Instances of MusicTracker for TLC.                                      *)
(***************************************************************************)
EXTENDS MusicTrackerClaims

CONSTANTS a1, a2

AllWords == {"song", "other", "rude", "****", " ", "hello", PausedWord, ZeroTime, "0:15"}

Song   == << "song" >>
Other  == << "other" >>
Rude   == << "rude" >>
Masked == << "****" >>
Ragged == << " ", "song" >>

OneTrack   == {NoTrack, Song}
TwoTracks  == {NoTrack, Song, Other}
RudeTracks == {NoTrack, Rude, Masked}
RaggedTracks == {NoTrack, Ragged, Song}

SongOnly   == {Song}
TwoSongs   == {Song, Other}
RudeSong   == {Rude}
RaggedSong == {Ragged}

OneTime  == {ZeroTime}
TwoTimes == {ZeroTime, "0:15"}

Hello  == << "hello" >>
OneMessage == {Hello}

AsIs == [t \in Tracks |-> t]
Trimmed == [t \in Tracks |-> IF t = Ragged THEN Song ELSE t]
Asterisked == [t \in Tracks |-> IF t = Rude THEN Masked ELSE t]
=============================================================================
