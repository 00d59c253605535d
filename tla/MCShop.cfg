SPECIFICATION MCSpec
CONSTANTS
    Wares = {"pizza"}
    VariantOf <- MCVariantOf
    OptionsOf <- MCOptionsOf
    UnitPrice <- MCUnitPrice
    Lines <- MCLines
    Orders <- MCOrders
    Requests = {t1, t2}
    MaxQuantity = 1
    MaxEdited = 1
    MaxActiveOrders = 1
    PriorDelivery = FALSE
    Coins = 5
    MinCoins = 1
    CoinValue = 3
    CoinOffers = {0, 5}
    CommissionRate = 10
    TaxRate = 14
    Distances = {5}
    BaseFee = 1
    PerKm = 1
    MaxFee = 3
    MinKm = 0
    FixedFee = 2
    MinOrder = 0
    Stores = {v1}
    Categories <- MCCategories
    Products = {p1}
    Variants = {x1}
    Editors = {t1, t2}
    Slots = {logo, image}
    Early = {image}
    Files <- MCFiles
    Uploads = {u1, u2}
    Kms = {3}
    Positive = {1, 2}
    Counted = {0, 2}
    Whole <- MCWhole
    Bearers = {"small", "large"}
    Family <- MCFamily
    OptionGroups = {g1, g2}
    Options = {o1, o2}
    Picks = {l1}
    Buyers = {b1}
    Zones = {z1, z2}
    Branches = {b1}
    Spots <- MCSpots
    Areas <- MCAreas
    Planners = {t1, t2}
    Addresses = {a1, a2, a3}
    Favourites <- MCFavourites
    Taps = {t1, t2}
SYMMETRY MCSymmetry
INVARIANTS ShopTypeOK PlacedRight PictureThere DeliveryPaysForItself
PROPERTY StoresKept
CHECK_DEADLOCK FALSE
