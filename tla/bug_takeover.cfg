\* Two identities claim one row at once. The page may stop.
CONSTANTS
    row1 = row1
    row2 = row2
    me = me
    someone = someone
    email1 = email1
    tab = tab
    call = call
    Null = Null
    Rows = {row1, row2}
    Subs = {me, someone}
    Emails = {email1}
    Seeded <- MCSeeded
    Calls = {tab, call}
    Tab = tab
    Me = me
SPECIFICATION IdentitySpec
PROPERTIES
    LinkIsKept
CHECK_DEADLOCK FALSE
