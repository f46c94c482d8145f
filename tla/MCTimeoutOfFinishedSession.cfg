\* One worker is enough: no race is needed.
CONSTANTS
    N = 2
    Required = {1, 2}
    Workers = {w1}
SPECIFICATION Safety
PROPERTY TimesOutUnfinishedSession
