-------------------------- MODULE MCThreadRestart --------------------------
EXTENDS ThreadRestart

CONSTANTS FS, WIFI, NTP     \* fslock, usr_wifi_lock, TYPE_NTP

\* The mutexes each thread takes, as the code does.
MCUses == [t \in Thread |->
             Lock \cap CASE t \in {MAIN, IDWRITE} -> {RECORD, FS}
                         [] t = PHONE -> {FS}
                         [] OTHER -> {RECORD, FS, WIFI}]

\* Files are worked on under record_data_lock; nothing is taken under fslock.
MCNest == {<<RECORD, FS>>}
=============================================================================
